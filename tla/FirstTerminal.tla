---------------------------- MODULE FirstTerminal ----------------------------
(***************************************************************************)
(* What the host async boundary promises about one operation               *)
(* (docs/GUARANTEES.md, "Async Host Boundary"): of all the completions,    *)
(* cancellations, timeouts and the close that compete for it, exactly one  *)
(* is accepted; the Promise is settled at most once, afterwards, and with  *)
(* that one.  HostAsync implements this specification.                     *)
(***************************************************************************)
CONSTANTS
  Ops,          \* operation ids
  Outcomes,     \* terminal events
  None          \* "no terminal event yet"

VARIABLES
  winner,       \* the terminal event the gate accepted, per operation
  promise       \* the value the Promise was settled with, per operation

vars == <<winner, promise>>

Init ==
  /\ winner = [o \in Ops |-> None]
  /\ promise = [o \in Ops |-> None]

\* The first terminal event wins.
Accept(o, outcome) ==
  /\ winner[o] = None
  /\ winner' = [winner EXCEPT ![o] = outcome]
  /\ UNCHANGED promise

\* The owner settles the Promise with the winner.
Settle(o) ==
  /\ winner[o] # None
  /\ promise[o] = None
  /\ promise' = [promise EXCEPT ![o] = winner[o]]
  /\ UNCHANGED winner

\* Close decides and settles in one go.
AcceptAndSettle(o, outcome) ==
  /\ winner[o] = None
  /\ promise[o] = None
  /\ winner' = [winner EXCEPT ![o] = outcome]
  /\ promise' = [promise EXCEPT ![o] = outcome]

\* One sweep of the deadlines accepts every overdue operation at once.
AcceptAll(due, outcome) ==
  /\ \A o \in due : winner[o] = None
  /\ winner' = [o \in Ops |-> IF o \in due THEN outcome ELSE winner[o]]
  /\ UNCHANGED promise

Next ==
  \/ \E o \in Ops, outcome \in Outcomes :
       Accept(o, outcome) \/ AcceptAndSettle(o, outcome)
  \/ \E o \in Ops : Settle(o)
  \/ \E due \in SUBSET Ops, outcome \in Outcomes : AcceptAll(due, outcome)

Spec == Init /\ [][Next]_vars
=============================================================================
