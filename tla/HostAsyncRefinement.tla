-------------------------- MODULE HostAsyncRefinement --------------------------
(***************************************************************************)
(* HostAsync implements FirstTerminal, for any number of operations and    *)
(* any set of workers.  The invariant relates the gate's history (winner)  *)
(* to the two places an accepted event can be in: the queue and the batch. *)
(***************************************************************************)
EXTENDS HostAsyncProofs

Has(s, o) == \E i \in 1 .. Len(s) : s[i].id = o
Tells(s) == \A i \in 1 .. Len(s) : winner[s[i].id] = s[i].outcome
Once(s) == \A i, j \in 1 .. Len(s) : s[i].id = s[j].id => i = j

\* Nothing has happened to an operation before it is started.
FreshUntouched == \A o \in Ops \ Started : winner[o] = None /\ promise[o] = None

\* The terminal mark and the history agree on what the map still holds.
OpenUndecided == \A o \in operations \ terminal : winner[o] = None

\* Whoever still owns its pair has not been settled.
HeldUnsettled == \A o \in operations \cup records : promise[o] = None

EventsTellWinner == Tells(queued) /\ Tells(batch)

EventsOnce ==
  /\ Once(queued) /\ Once(batch)
  /\ \A o \in Ops : ~(Has(queued, o) /\ Has(batch, o))

\* An accepted operation that is not settled has its record and its event.
AcceptedHeld ==
  ~interrupted =>
    \A o \in Ops : winner[o] # None /\ promise[o] = None =>
      o \in operations \cup records /\ (Has(queued, o) \/ Has(batch, o))

BatchOnlyInLoop == owner \notin {"settling", "releasing"} => batch = <<>>

PromiseInv ==
  /\ HeldInv
  /\ FreshUntouched /\ OpenUndecided /\ HeldUnsettled
  /\ EventsTellWinner /\ EventsOnce /\ AcceptedHeld /\ BatchOnlyInLoop

\* The typing facts the proofs below start from.
LEMMA PromiseTypes ==
  ASSUME PromiseInv
  PROVE  /\ TypeOK /\ nextId \in Nat
         /\ queued \in Seq(Event) /\ batch \in Seq(Event)
         /\ Len(queued) \in Nat /\ Len(batch) \in Nat
         /\ operations \subseteq Ops /\ records \subseteq Ops
         /\ operations \subseteq Started /\ records \subseteq Started
         /\ winner \in [Ops -> Outcomes \cup {None}]
         /\ promise \in [Ops -> Outcomes \cup {None}]
BY HostAsyncAssumption
   DEF PromiseInv, HeldInv, TypeInv, TypeOK, CapabilityHeldOnce, Ops

\* The events of a typed queue are about operations and carry real outcomes.
LEMMA EventsAreTyped ==
  ASSUME NEW s \in Seq(Event)
  PROVE  \A i \in 1 .. Len(s) : s[i] \in Event /\ s[i].id \in Ops /\ s[i].outcome # None
BY ElementOfSeq, EventFields, OutcomeFacts

-----------------------------------------------------------------------------
(* What each step does to queue, batch, winner and promise. *)

\* The gate accepts one event.
LEMMA GateEffect ==
  ASSUME PromiseInv, NEW t \in Threads, NEW o \in Ops, NEW outcome \in Submitted,
         SubmitGate(t, o, outcome)
  PROVE  /\ o \in operations /\ winner[o] = None /\ outcome \in Outcomes
         /\ winner' = [winner EXCEPT ![o] = outcome]
         /\ terminal' = terminal \cup {o}
         /\ queued' \in Seq(Event) /\ Len(queued') = Len(queued) + 1
         /\ \A i \in 1 .. Len(queued) : queued'[i] = queued[i]
         /\ queued'[Len(queued) + 1] = [id |-> o, outcome |-> outcome]
         /\ UNCHANGED <<nextId, operations, records, batch, promise, owner, interrupted>>
<1>1. o \in operations /\ o \notin terminal
  BY DEF SubmitGate, GateOpen
<1>2. winner[o] = None
  BY <1>1 DEF PromiseInv, OpenUndecided
<1>3. outcome \in Outcomes
  BY OutcomeFacts
<1>4. queued \in Seq(Event)
  BY PromiseTypes
<1>5. queued' = Append(queued, [id |-> o, outcome |-> outcome])
  BY DEF SubmitGate
<1> QED
  BY <1>1, <1>2, <1>3, <1>4, <1>5, PushEvent DEF SubmitGate

\* The sweep accepts a timeout for each overdue operation.
LEMMA SweepEffect ==
  ASSUME PromiseInv, Sweep
  PROVE  /\ Overdue \subseteq operations /\ \A o \in Overdue : winner[o] = None
         /\ winner' = [o \in Ops |-> IF o \in Overdue THEN "timed_out" ELSE winner[o]]
         /\ terminal' = terminal \cup Overdue
         /\ queued' \in Seq(Event) /\ Len(queued') \in Nat
         /\ Len(queued') >= Len(queued)
         /\ \A i \in 1 .. Len(queued) : queued'[i] = queued[i]
         /\ \A i \in Len(queued) + 1 .. Len(queued') :
              queued'[i].id \in Overdue /\ queued'[i].outcome = "timed_out"
         /\ \A o \in Overdue : \E i \in 1 .. Len(queued') : queued'[i].id = o
         /\ \A i, j \in Len(queued) + 1 .. Len(queued') :
              queued'[i].id = queued'[j].id => i = j
         /\ batch = <<>> /\ owner' \in {"swap", "closing"}
         /\ UNCHANGED <<nextId, operations, records, batch, promise, interrupted>>
<1>1. EnqueueDueTimeouts /\ owner = "idle"
  BY DEF Sweep, DrainBegin, CloseBegin, OwnerFree
<1>2. Overdue \subseteq operations /\ \A o \in Overdue : winner[o] = None
  BY DEF Overdue, PromiseInv, OpenUndecided
<1>3. operations \subseteq Ops /\ queued \in Seq(Event) /\ order \in Seq(Ops)
  BY PromiseTypes DEF TypeOK
<1>4. batch = <<>>
  BY <1>1 DEF PromiseInv, BatchOnlyInLoop
<1>5. /\ winner' = [o \in Ops |-> IF o \in Overdue THEN "timed_out" ELSE winner[o]]
      /\ terminal' = terminal \cup Overdue
  BY <1>1 DEF EnqueueDueTimeouts
<1>6. /\ owner' \in {"swap", "closing"}
      /\ UNCHANGED <<nextId, operations, records, batch, promise, interrupted>>
  BY DEF Sweep, DrainBegin, CloseBegin
<1>7. queued' \in Seq(Event) /\ Len(queued') \in Nat
  BY <1>1, <1>3, SweepQueue
<1> QED
  BY <1>1, <1>2, <1>3, <1>4, <1>5, <1>6, <1>7, SweepQueue

\* One round of the drain loop on an operation that is still in the map.
LEMMA DrainEffect ==
  ASSUME PromiseInv, DrainEvent
  PROVE  LET o == Head(batch).id
         IN  /\ o \in Ops /\ winner[o] # None /\ Head(batch).outcome = winner[o]
             /\ o \in operations =>
                  /\ promise[o] = None
                  /\ operations' = operations \ {o} /\ terminal' = terminal \ {o}
                  /\ promise' = IF interrupted THEN promise
                                ELSE [promise EXCEPT ![o] = winner[o]]
             /\ o \notin operations =>
                  UNCHANGED <<operations, terminal, promise>>
             /\ UNCHANGED <<nextId, queued, records, winner, interrupted>>
             /\ batch' = Tail(batch) \/ (interrupted /\ batch' = <<>>)
             /\ owner' = owner \/ batch' = <<>>
<1> DEFINE o == Head(batch).id
<1>1. batch \in Seq(Event) /\ batch # <<>>
  BY PromiseTypes DEF DrainEvent
<1>2. Head(batch) \in Event /\ batch[1] = Head(batch) /\ 1 \in 1 .. Len(batch)
  BY <1>1, PopEvent
<1>3. o \in Ops /\ Head(batch).outcome = winner[o] /\ winner[o] # None
  BY <1>2, EventFields, OutcomeFacts DEF PromiseInv, EventsTellWinner, Tells
<1>4. o \in operations => promise[o] = None
  BY DEF PromiseInv, HeldUnsettled
<1>5. CASE o \in operations
  <2>1. /\ operations' = operations \ {o} /\ terminal' = terminal \ {o}
        /\ SettleRecord(o, Head(batch).outcome)
        /\ batch' = IF interrupted THEN <<>> ELSE Tail(batch)
        /\ owner' = IF interrupted THEN "idle" ELSE owner
        /\ UNCHANGED <<nextId, queued, records, winner, interrupted>>
    BY <1>5 DEF DrainEvent, historyVars
  <2>2. promise' = IF interrupted THEN promise ELSE [promise EXCEPT ![o] = winner[o]]
    BY <1>3, <2>1 DEF SettleRecord
  <2> HIDE DEF o
  <2>3. batch' = Tail(batch) \/ (interrupted /\ batch' = <<>>)
    BY <2>1
  <2>4. owner' = owner \/ batch' = <<>>
    BY <2>1
  <2> QED
    BY <1>3, <1>4, <1>5, <2>1, <2>2, <2>3, <2>4 DEF o
<1>6. CASE o \notin operations
  <2>1. /\ batch' = Tail(batch) /\ UNCHANGED <<operations, terminal, owner, promise>>
        /\ UNCHANGED <<nextId, queued, records, winner, interrupted>>
    BY <1>6 DEF DrainEvent, historyVars
  <2> QED
    BY <1>3, <1>6, <2>1
<1> QED
  BY <1>5, <1>6

\* One record of close: with its queued completion, or with `closed`.
LEMMA CloseRecordEffect ==
  ASSUME PromiseInv, NEW o \in Ops, CloseRecord(o)
  PROVE  /\ o \in records /\ o \notin operations /\ promise[o] = None
         /\ operations = {} /\ queued = <<>>
         /\ records' = records \ {o}
         /\ UNCHANGED <<nextId, operations, terminal, queued, batch, owner, interrupted>>
         /\ \/ /\ winner[o] # None /\ winner' = winner
               /\ promise' = IF interrupted THEN promise
                             ELSE [promise EXCEPT ![o] = winner[o]]
            \/ /\ winner[o] = None
               /\ ~Has(batch, o)
               /\ winner' = [winner EXCEPT ![o] = "closed"]
               /\ promise' = IF interrupted THEN promise
                             ELSE [promise EXCEPT ![o] = "closed"]
            \/ interrupted /\ UNCHANGED <<winner, promise>>
<1>1. owner = "releasing" /\ o \in records /\ records' = records \ {o}
  BY DEF CloseRecord
<1>2. operations = {} /\ queued = <<>>
  BY <1>1 DEF PromiseInv, HeldInv, ClosedIsFinal, ClosedIsEmpty
<1>3. promise[o] = None
  BY <1>1 DEF PromiseInv, HeldUnsettled
<1>4. UNCHANGED <<nextId, operations, terminal, queued, batch, owner, interrupted>>
  BY DEF CloseRecord, sharedVars
<1>5. batch \in Seq(Event) /\ DOMAIN batch = 1 .. Len(batch)
  BY PromiseTypes
<1>6. CASE TerminalEvents(o) # {}
  <2>1. PICK i \in 1 .. Len(batch) : batch[i].id = o /\ SettleRecord(o, batch[i].outcome)
    BY <1>5, <1>6 DEF CloseRecord, TerminalEvents
  <2>2. batch[i].outcome = winner[o] /\ winner[o] # None
    BY <1>5, <2>1, EventsAreTyped DEF PromiseInv, EventsTellWinner, Tells
  <2>3. winner' = winner
    BY <1>6 DEF CloseRecord, historyVars
  <2> QED
    BY <1>1, <1>2, <1>3, <1>4, <2>1, <2>2, <2>3 DEF SettleRecord
<1>7. CASE TerminalEvents(o) = {}
  <2>1. ~Has(batch, o)
    BY <1>5, <1>7 DEF TerminalEvents, Has
  <2>2. /\ SettleRecord(o, "closed")
        /\ winner' = [winner EXCEPT ![o] = IF @ = None THEN "closed" ELSE @]
    BY <1>7 DEF CloseRecord
  <2>3. ~Has(queued, o)
    BY <1>2 DEF Has
  <2>4. interrupted \/ winner[o] = None
    BY <1>3, <2>1, <2>3 DEF PromiseInv, AcceptedHeld
  <2>5. winner \in [Ops -> Outcomes \cup {None}]
    BY PromiseTypes
  <2>6. CASE winner[o] = None
    BY <1>1, <1>2, <1>3, <1>4, <2>1, <2>2, <2>6 DEF SettleRecord
  <2>7. CASE winner[o] # None
    <3>1. winner' = winner
      BY <2>2, <2>5, <2>7
    <3> QED
      BY <1>1, <1>2, <1>3, <1>4, <2>2, <2>4, <2>7, <3>1 DEF SettleRecord
  <2> QED
    BY <2>6, <2>7
<1>8. o \notin operations
  BY <1>2
<1> QED
  BY <1>6, <1>7

-----------------------------------------------------------------------------
(* The conjuncts of PromiseInv, one by one. *)

\* An operation gets its first event only after it was started.
LEMMA FreshStep ==
  ASSUME PromiseInv, [Next]_vars
  PROVE  FreshUntouched'
<1> USE DEF FreshUntouched, Started
<1>0. /\ FreshUntouched /\ nextId \in Nat
      /\ operations \subseteq Started /\ records \subseteq Started
      /\ winner \in [Ops -> Outcomes \cup {None}]
      /\ promise \in [Ops -> Outcomes \cup {None}]
  BY PromiseTypes DEF PromiseInv
<1>1. CASE \E hasDeadline \in BOOLEAN : StartRegister(hasDeadline)
  <2>1. nextId' = nextId + 1 /\ winner' = winner /\ promise' = promise
    BY <1>1 DEF StartRegister, historyVars
  <2> QED
    BY <1>0, <2>1
<1>2. CASE \E t \in Threads, o \in Ops, outcome \in Submitted : SubmitGate(t, o, outcome)
  <2> PICK t \in Threads, o \in Ops, outcome \in Submitted : SubmitGate(t, o, outcome)
    BY <1>2
  <2>1. /\ o \in operations /\ nextId' = nextId /\ promise' = promise
        /\ winner' = [winner EXCEPT ![o] = outcome]
    BY GateEffect
  <2>2. \A x \in Ops \ Started : winner'[x] = winner[x]
    BY <1>0, <2>1
  <2> QED
    BY <1>0, <2>1, <2>2
<1>3. CASE Sweep
  BY <1>0, <1>3, SweepEffect
<1>4. CASE DrainSwap
  BY <1>0, <1>4 DEF DrainSwap, historyVars
<1>5. CASE DrainEvent
  BY <1>0, <1>5, DrainEffect
<1>6. CASE CloseSnapshot
  BY <1>0, <1>6 DEF CloseSnapshot, historyVars
<1>7. CASE \E o \in Ops : CloseRecord(o)
  <2> PICK o \in Ops : CloseRecord(o)
    BY <1>7
  <2>1. /\ o \in Started /\ nextId' = nextId
        /\ \A x \in Ops \ {o} : winner'[x] = winner[x] /\ promise'[x] = promise[x]
    BY <1>0, CloseRecordEffect
  <2> QED
    BY <1>0, <2>1
<1>8. CASE CloseEnd
  BY <1>0, <1>8 DEF CloseEnd, sharedVars, historyVars
<1>9. CASE Quiet
  BY <1>0, <1>9 DEF Quiet
<1> QED
  BY <1>1, <1>2, <1>3, <1>4, <1>5, <1>6, <1>7, <1>8, <1>9, StepCases DEF PromiseInv

\* The terminal mark is never missing on a decided operation of the map.
LEMMA OpenStep ==
  ASSUME PromiseInv, [Next]_vars
  PROVE  OpenUndecided'
<1> USE DEF OpenUndecided
<1>0. /\ OpenUndecided /\ operations \subseteq Ops
      /\ winner \in [Ops -> Outcomes \cup {None}]
  BY PromiseTypes DEF PromiseInv
<1>1. CASE \E hasDeadline \in BOOLEAN : StartRegister(hasDeadline)
  <2>1. /\ nextId \in Ops /\ operations' = operations \cup {nextId}
        /\ UNCHANGED <<terminal, winner>>
    BY <1>1 DEF StartRegister, historyVars
  <2>2. nextId \notin Started /\ winner[nextId] = None
    BY <2>1, PromiseTypes DEF PromiseInv, FreshUntouched, Started
  <2> QED
    BY <1>0, <2>1, <2>2
<1>2. CASE \E t \in Threads, o \in Ops, outcome \in Submitted : SubmitGate(t, o, outcome)
  <2> PICK t \in Threads, o \in Ops, outcome \in Submitted : SubmitGate(t, o, outcome)
    BY <1>2
  <2>1. /\ operations' = operations /\ terminal' = terminal \cup {o}
        /\ winner' = [winner EXCEPT ![o] = outcome]
    BY GateEffect
  <2>2. \A x \in operations \ {o} : winner'[x] = winner[x]
    BY <1>0, <2>1
  <2> QED
    BY <1>0, <2>1, <2>2
<1>3. CASE Sweep
  BY <1>0, <1>3, SweepEffect
<1>4. CASE DrainSwap
  BY <1>0, <1>4 DEF DrainSwap, historyVars
<1>5. CASE DrainEvent
  BY <1>0, <1>5, DrainEffect
<1>6. CASE CloseSnapshot
  BY <1>6 DEF CloseSnapshot
<1>7. CASE \E o \in Ops : CloseRecord(o)
  BY <1>7, CloseRecordEffect
<1>8. CASE CloseEnd
  BY <1>0, <1>8 DEF CloseEnd, sharedVars, historyVars
<1>9. CASE Quiet
  BY <1>0, <1>9 DEF Quiet
<1> QED
  BY <1>1, <1>2, <1>3, <1>4, <1>5, <1>6, <1>7, <1>8, <1>9, StepCases DEF PromiseInv

\* Whoever settles a Promise takes its record away in the same step.
LEMMA UnsettledStep ==
  ASSUME PromiseInv, [Next]_vars
  PROVE  HeldUnsettled'
<1> USE DEF HeldUnsettled
<1>0. /\ HeldUnsettled /\ operations \subseteq Ops /\ records \subseteq Ops
      /\ promise \in [Ops -> Outcomes \cup {None}]
      /\ \A o \in operations : o \notin records
  BY PromiseTypes DEF PromiseInv, HeldInv, CapabilityHeldOnce
<1>1. CASE \E hasDeadline \in BOOLEAN : StartRegister(hasDeadline)
  <2>1. /\ nextId \in Ops /\ operations' = operations \cup {nextId}
        /\ UNCHANGED <<records, promise>>
    BY <1>1 DEF StartRegister
  <2>2. nextId \notin Started /\ promise[nextId] = None
    BY <2>1, PromiseTypes DEF PromiseInv, FreshUntouched, Started
  <2> QED
    BY <1>0, <2>1, <2>2
<1>2. CASE \E t \in Threads, o \in Ops, outcome \in Submitted : SubmitGate(t, o, outcome)
  BY <1>0, <1>2, GateEffect
<1>3. CASE Sweep
  BY <1>0, <1>3, SweepEffect
<1>4. CASE DrainSwap
  BY <1>0, <1>4 DEF DrainSwap
<1>5. CASE DrainEvent
  BY <1>0, <1>5, DrainEffect
<1>6. CASE CloseSnapshot
  BY <1>0, <1>6 DEF CloseSnapshot
<1>7. CASE \E o \in Ops : CloseRecord(o)
  <2> PICK o \in Ops : CloseRecord(o)
    BY <1>7
  <2>1. /\ operations' = {} /\ records' = records \ {o}
        /\ \A x \in Ops \ {o} : promise'[x] = promise[x]
    BY <1>0, CloseRecordEffect
  <2> QED
    BY <1>0, <2>1
<1>8. CASE CloseEnd
  BY <1>0, <1>8 DEF CloseEnd, sharedVars
<1>9. CASE Quiet
  BY <1>0, <1>9 DEF Quiet
<1> QED
  BY <1>1, <1>2, <1>3, <1>4, <1>5, <1>6, <1>7, <1>8, <1>9, StepCases DEF PromiseInv

\* The batch is emptied before the owner leaves a drain or a close.
LEMMA BatchStep ==
  ASSUME PromiseInv, [Next]_vars
  PROVE  BatchOnlyInLoop'
<1> USE DEF BatchOnlyInLoop
<1>0. BatchOnlyInLoop
  BY DEF PromiseInv
<1>1. CASE \E hasDeadline \in BOOLEAN : StartRegister(hasDeadline)
  BY <1>0, <1>1 DEF StartRegister, OwnerFree
<1>2. CASE \E t \in Threads, o \in Ops, outcome \in Submitted : SubmitGate(t, o, outcome)
  BY <1>0, <1>2, GateEffect
<1>3. CASE Sweep
  BY <1>0, <1>3, SweepEffect
<1>4. CASE DrainSwap
  BY <1>4 DEF DrainSwap
<1>5. CASE DrainEvent
  <2>1. owner = "settling"
    BY <1>5 DEF DrainEvent
  <2> QED
    BY <1>5, <2>1, DrainEffect
<1>6. CASE CloseSnapshot
  BY <1>6 DEF CloseSnapshot
<1>7. CASE \E o \in Ops : CloseRecord(o)
  BY <1>0, <1>7, CloseRecordEffect
<1>8. CASE CloseEnd
  BY <1>8 DEF CloseEnd
<1>9. CASE Quiet
  BY <1>0, <1>9 DEF Quiet
<1> QED
  BY <1>1, <1>2, <1>3, <1>4, <1>5, <1>6, <1>7, <1>8, <1>9, StepCases

\* A queued event is about a decided operation, so the gate and the sweep,
\* which decide undecided ones, do not touch what it tells.
LEMMA TellsStep ==
  ASSUME PromiseInv, [Next]_vars
  PROVE  EventsTellWinner'
<1> USE DEF EventsTellWinner, Tells
<1>0. /\ EventsTellWinner /\ queued \in Seq(Event) /\ batch \in Seq(Event)
      /\ Len(queued) \in Nat /\ Len(batch) \in Nat
      /\ winner \in [Ops -> Outcomes \cup {None}]
  BY PromiseTypes DEF PromiseInv
<1>a. /\ \A i \in 1 .. Len(queued) : queued[i].id \in Ops /\ winner[queued[i].id] # None
      /\ \A i \in 1 .. Len(batch) : batch[i].id \in Ops /\ winner[batch[i].id] # None
  BY <1>0, EventsAreTyped
<1>b. ASSUME winner' = winner, queued' = queued, batch' = batch
      PROVE  EventsTellWinner'
  BY <1>0, <1>b
<1>c. ASSUME \A i \in 1 .. Len(queued) : winner'[queued[i].id] = winner[queued[i].id],
             \A i \in 1 .. Len(batch) : winner'[batch[i].id] = winner[batch[i].id]
      PROVE  /\ \A i \in 1 .. Len(queued) : winner'[queued[i].id] = queued[i].outcome
             /\ \A i \in 1 .. Len(batch) : winner'[batch[i].id] = batch[i].outcome
  BY <1>0, <1>c
<1>1. CASE \E hasDeadline \in BOOLEAN : StartRegister(hasDeadline)
  BY <1>b, <1>1 DEF StartRegister, historyVars
<1>2. CASE \E t \in Threads, o \in Ops, outcome \in Submitted : SubmitGate(t, o, outcome)
  <2> PICK t \in Threads, o \in Ops, outcome \in Submitted : SubmitGate(t, o, outcome)
    BY <1>2
  <2>1. /\ winner[o] = None /\ winner' = [winner EXCEPT ![o] = outcome]
        /\ Len(queued') = Len(queued) + 1 /\ batch' = batch
        /\ \A i \in 1 .. Len(queued) : queued'[i] = queued[i]
        /\ queued'[Len(queued) + 1] = [id |-> o, outcome |-> outcome]
    BY GateEffect
  <2>2. winner'[o] = outcome /\ \A x \in Ops \ {o} : winner'[x] = winner[x]
    BY <1>0, <2>1
  <2>3. /\ \A i \in 1 .. Len(queued) : winner'[queued[i].id] = queued[i].outcome
        /\ \A i \in 1 .. Len(batch) : winner'[batch[i].id] = batch[i].outcome
    BY <1>a, <1>c, <2>1, <2>2
  <2>4. \A i \in 1 .. Len(queued') : winner'[queued'[i].id] = queued'[i].outcome
    <3> SUFFICES ASSUME NEW i \in 1 .. Len(queued')
                 PROVE  winner'[queued'[i].id] = queued'[i].outcome
      OBVIOUS
    <3>1. i \in 1 .. Len(queued) \/ i = Len(queued) + 1
      BY <1>0, <2>1
    <3> QED
      BY <2>1, <2>2, <2>3, <3>1
  <2> QED
    BY <2>1, <2>3, <2>4
<1>3. CASE Sweep
  <2>1. /\ \A o \in Overdue : winner[o] = None
        /\ winner' = [o \in Ops |-> IF o \in Overdue THEN "timed_out" ELSE winner[o]]
        /\ Len(queued') \in Nat /\ Len(queued') >= Len(queued) /\ batch' = batch
        /\ \A i \in 1 .. Len(queued) : queued'[i] = queued[i]
        /\ \A i \in Len(queued) + 1 .. Len(queued') :
             queued'[i].id \in Overdue /\ queued'[i].outcome = "timed_out"
    BY <1>3, SweepEffect
  <2>2. Overdue \subseteq Ops
    BY PromiseTypes DEF Overdue
  <2>3. /\ \A x \in Ops : winner[x] # None => winner'[x] = winner[x]
        /\ \A x \in Overdue : winner'[x] = "timed_out"
    BY <2>1, <2>2
  <2>4. /\ \A i \in 1 .. Len(queued) : winner'[queued[i].id] = queued[i].outcome
        /\ \A i \in 1 .. Len(batch) : winner'[batch[i].id] = batch[i].outcome
    BY <1>a, <1>c, <2>3
  <2>5. \A i \in 1 .. Len(queued') : winner'[queued'[i].id] = queued'[i].outcome
    <3> SUFFICES ASSUME NEW i \in 1 .. Len(queued')
                 PROVE  winner'[queued'[i].id] = queued'[i].outcome
      OBVIOUS
    <3>1. i \in 1 .. Len(queued) \/ i \in Len(queued) + 1 .. Len(queued')
      BY <1>0, <2>1
    <3> QED
      BY <2>1, <2>3, <2>4, <3>1
  <2> QED
    BY <2>1, <2>4, <2>5
<1>4. CASE DrainSwap
  BY <1>0, <1>4, EmptySeq DEF DrainSwap, historyVars
<1>5. CASE DrainEvent
  <2>1. /\ winner' = winner /\ queued' = queued
        /\ batch' = Tail(batch) \/ batch' = <<>>
    BY <1>5, DrainEffect
  <2>2. CASE batch' = <<>>
    <3>1. Len(batch') = 0
      BY <2>2
    <3> QED
      BY <1>0, <2>1, <3>1
  <2>3. CASE batch' = Tail(batch)
    <3>1. batch # <<>>
      BY <1>5 DEF DrainEvent
    <3>2. /\ Len(batch') = Len(batch) - 1
          /\ \A i \in 1 .. Len(batch) - 1 : batch'[i] = batch[i + 1]
      BY <1>0, <2>3, <3>1, PopEvent
    <3>3. \A i \in 1 .. Len(batch) - 1 : i + 1 \in 1 .. Len(batch)
      BY <1>0
    <3>4. \A i \in 1 .. Len(batch) - 1 : winner[batch[i + 1].id] = batch[i + 1].outcome
      BY <1>0, <3>3
    <3>5. \A i \in 1 .. Len(batch') : winner'[batch'[i].id] = batch'[i].outcome
      BY <2>1, <3>2, <3>4
    <3> QED
      BY <1>0, <2>1, <3>5
  <2> QED
    BY <2>1, <2>2, <2>3
<1>6. CASE CloseSnapshot
  BY <1>0, <1>6, EmptySeq DEF CloseSnapshot, historyVars
<1>7. CASE \E o \in Ops : CloseRecord(o)
  <2> PICK o \in Ops : CloseRecord(o)
    BY <1>7
  <2>1. /\ queued' = queued /\ batch' = batch
        /\ \/ winner' = winner
           \/ winner[o] = None /\ winner' = [winner EXCEPT ![o] = "closed"]
    BY CloseRecordEffect
  <2>2. \A x \in Ops : winner[x] # None => winner'[x] = winner[x]
    BY <1>0, <2>1
  <2> QED
    BY <1>a, <1>c, <2>1, <2>2
<1>8. CASE CloseEnd
  <2>1. winner' = winner /\ queued' = queued /\ Len(batch') = 0
    BY <1>8 DEF CloseEnd, sharedVars, historyVars
  <2> QED
    BY <1>0, <2>1
<1>9. CASE Quiet
  BY <1>b, <1>9 DEF Quiet
<1> QED
  BY <1>1, <1>2, <1>3, <1>4, <1>5, <1>6, <1>7, <1>8, <1>9, StepCases DEF PromiseInv

\* Has and Once of an empty queue, and of a queue that lost its head.
LEMMA NoEvents == Once(<<>>) /\ \A o : ~Has(<<>>, o)
BY DEF Once, Has

LEMMA TailEvents ==
  ASSUME NEW s \in Seq(Event), s # <<>>
  PROVE  /\ Once(s) => Once(Tail(s))
         /\ \A o : Has(Tail(s), o) => Has(s, o)
         /\ \A o : Has(s, o) => Head(s).id = o \/ Has(Tail(s), o)
<1>1. /\ Len(s) \in Nat /\ Len(s) > 0 /\ Len(Tail(s)) = Len(s) - 1
      /\ s[1] = Head(s)
      /\ \A i \in 1 .. Len(s) - 1 : Tail(s)[i] = s[i + 1]
  BY PopEvent
<1> DEFINE t == Tail(s)
<1>2. /\ Len(t) = Len(s) - 1
      /\ \A i \in 1 .. Len(t) : t[i] = s[i + 1] /\ i + 1 \in 1 .. Len(s)
  BY <1>1
<1> HIDE DEF t
<1>3. Once(s) => Once(t)
  <2> SUFFICES ASSUME Once(s), NEW i \in 1 .. Len(t), NEW j \in 1 .. Len(t), t[i].id = t[j].id
               PROVE  i = j
    BY DEF Once
  <2>1. i + 1 = j + 1
    BY <1>2 DEF Once
  <2> QED
    BY <1>1, <1>2, <2>1
<1>4. \A o : Has(t, o) => Has(s, o)
  BY <1>2 DEF Has
<1>5. ASSUME NEW o, Has(s, o) PROVE Head(s).id = o \/ Has(t, o)
  <2>1. PICK i \in 1 .. Len(s) : s[i].id = o
    BY <1>5 DEF Has
  <2>2. CASE i = 1
    BY <1>1, <2>1, <2>2
  <2>3. CASE i # 1
    <3>1. i - 1 \in 1 .. Len(t) /\ (i - 1) + 1 = i
      BY <1>1, <1>2, <2>1, <2>3
    <3>2. t[i - 1] = s[i]
      BY <1>2, <3>1
    <3> QED
      BY <2>1, <3>1, <3>2 DEF Has
  <2> QED
    BY <2>2, <2>3
<1> QED
  BY <1>3, <1>4, <1>5 DEF t

\* A decided operation does not get a second event.
LEMMA OnceStep ==
  ASSUME PromiseInv, [Next]_vars
  PROVE  EventsOnce'
<1>0. /\ EventsOnce /\ queued \in Seq(Event) /\ batch \in Seq(Event)
      /\ Len(queued) \in Nat /\ Len(batch) \in Nat
      /\ Once(queued) /\ Once(batch)
  BY PromiseTypes DEF PromiseInv, EventsOnce
<1>a. \A o \in Ops : Has(queued, o) \/ Has(batch, o) => winner[o] # None
  BY <1>0, EventsAreTyped DEF Has, PromiseInv, EventsTellWinner, Tells
<1>b. ASSUME queued' = queued, batch' = batch PROVE EventsOnce'
  BY <1>0, <1>b DEF EventsOnce, Once, Has
<1>1. CASE \E hasDeadline \in BOOLEAN : StartRegister(hasDeadline)
  BY <1>b, <1>1 DEF StartRegister
<1>2. CASE \E t \in Threads, o \in Ops, outcome \in Submitted : SubmitGate(t, o, outcome)
  <2> PICK t \in Threads, o \in Ops, outcome \in Submitted : SubmitGate(t, o, outcome)
    BY <1>2
  <2>1. /\ winner[o] = None /\ batch' = batch
        /\ Len(queued') = Len(queued) + 1
        /\ \A i \in 1 .. Len(queued) : queued'[i] = queued[i]
        /\ queued'[Len(queued) + 1] = [id |-> o, outcome |-> outcome]
    BY GateEffect
  <2>e. queued'[Len(queued) + 1].id = o
    BY <2>1
  <2>2. ~Has(queued, o) /\ ~Has(batch, o)
    BY <1>a, <2>1
  <2>3. \A i \in 1 .. Len(queued') : i \in 1 .. Len(queued) \/ i = Len(queued) + 1
    BY <1>0, <2>1
  <2>4. Once(queued)'
    <3> SUFFICES ASSUME NEW i \in 1 .. Len(queued'), NEW j \in 1 .. Len(queued'),
                        queued'[i].id = queued'[j].id
                 PROVE  i = j
      BY DEF Once
    <3>1. CASE i \in 1 .. Len(queued) /\ j \in 1 .. Len(queued)
      BY <1>0, <2>1, <3>1 DEF Once
    <3>2. CASE i = Len(queued) + 1 /\ j \in 1 .. Len(queued)
      BY <2>1, <2>e, <2>2, <3>2 DEF Has
    <3>3. CASE j = Len(queued) + 1 /\ i \in 1 .. Len(queued)
      BY <2>1, <2>e, <2>2, <3>3 DEF Has
    <3> QED
      BY <2>3, <3>1, <3>2, <3>3
  <2>5. \A x \in Ops : Has(queued, x)' => Has(queued, x) \/ x = o
    BY <2>1, <2>e, <2>3 DEF Has
  <2> QED
    BY <1>0, <2>1, <2>2, <2>4, <2>5 DEF EventsOnce, Has, Once
<1>3. CASE Sweep
  <2>1. /\ \A o \in Overdue : winner[o] = None
        /\ Len(queued') \in Nat /\ Len(queued') >= Len(queued)
        /\ batch = <<>> /\ batch' = <<>>
        /\ \A i \in 1 .. Len(queued) : queued'[i] = queued[i]
        /\ \A i \in Len(queued) + 1 .. Len(queued') : queued'[i].id \in Overdue
        /\ \A i, j \in Len(queued) + 1 .. Len(queued') :
             queued'[i].id = queued'[j].id => i = j
    BY <1>3, SweepEffect
  <2>2. Overdue \subseteq Ops
    BY PromiseTypes DEF Overdue
  <2>3. \A x \in Overdue : ~Has(queued, x)
    BY <1>a, <2>1, <2>2
  <2>4. \A i \in 1 .. Len(queued') :
          i \in 1 .. Len(queued) \/ i \in Len(queued) + 1 .. Len(queued')
    BY <1>0, <2>1
  <2>5. Once(queued)'
    <3> SUFFICES ASSUME NEW i \in 1 .. Len(queued'), NEW j \in 1 .. Len(queued'),
                        queued'[i].id = queued'[j].id
                 PROVE  i = j
      BY DEF Once
    <3>1. CASE i \in 1 .. Len(queued) /\ j \in 1 .. Len(queued)
      BY <1>0, <2>1, <3>1 DEF Once
    <3>2. CASE i \in Len(queued) + 1 .. Len(queued') /\ j \in Len(queued) + 1 .. Len(queued')
      BY <2>1, <3>2
    <3>3. CASE i \in 1 .. Len(queued) /\ j \in Len(queued) + 1 .. Len(queued')
      BY <2>1, <2>3, <3>3 DEF Has
    <3>4. CASE j \in 1 .. Len(queued) /\ i \in Len(queued) + 1 .. Len(queued')
      BY <2>1, <2>3, <3>4 DEF Has
    <3> QED
      BY <2>4, <3>1, <3>2, <3>3, <3>4
  <2>6. Once(batch)' /\ \A o \in Ops : ~Has(batch, o)'
    BY <2>1 DEF Once, Has
  <2> QED
    BY <2>5, <2>6 DEF EventsOnce
<1>4. CASE DrainSwap
  BY <1>0, <1>4, NoEvents DEF DrainSwap, EventsOnce, Once, Has
<1>5. CASE DrainEvent
  <2>1. queued' = queued /\ (batch' = Tail(batch) \/ batch' = <<>>) /\ batch # <<>>
    BY <1>5, DrainEffect DEF DrainEvent
  <2>2. Once(Tail(batch)) /\ \A o : Has(Tail(batch), o) => Has(batch, o)
    BY <1>0, <2>1, TailEvents
  <2>3. CASE batch' = <<>>
    BY <1>0, <2>1, <2>3 DEF EventsOnce, Once, Has
  <2>4. CASE batch' = Tail(batch)
    BY <1>0, <2>1, <2>2, <2>4 DEF EventsOnce, Once, Has
  <2> QED
    BY <2>1, <2>3, <2>4
<1>6. CASE CloseSnapshot
  BY <1>0, <1>6, NoEvents DEF CloseSnapshot, EventsOnce, Once, Has
<1>7. CASE \E o \in Ops : CloseRecord(o)
  BY <1>b, <1>7, CloseRecordEffect
<1>8. CASE CloseEnd
  BY <1>0, <1>8, NoEvents DEF CloseEnd, sharedVars, EventsOnce, Once, Has
<1>9. CASE Quiet
  BY <1>b, <1>9 DEF Quiet
<1> QED
  BY <1>1, <1>2, <1>3, <1>4, <1>5, <1>6, <1>7, <1>8, <1>9, StepCases DEF PromiseInv

\* As long as the runtime can run, an event leaves queue and batch only in the
\* step that settles its operation.
LEMMA HeldEventStep ==
  ASSUME PromiseInv, [Next]_vars
  PROVE  AcceptedHeld'
<1> SUFFICES ASSUME ~interrupted', NEW x \in Ops,
                    winner'[x] # None, promise'[x] = None
             PROVE  /\ x \in operations' \cup records'
                    /\ Has(queued', x) \/ Has(batch', x)
  BY DEF AcceptedHeld, Has
<1>0. /\ queued \in Seq(Event) /\ batch \in Seq(Event)
      /\ Len(queued) \in Nat /\ Len(batch) \in Nat
      /\ winner \in [Ops -> Outcomes \cup {None}]
      /\ promise \in [Ops -> Outcomes \cup {None}]
  BY PromiseTypes
<1>a. ~interrupted /\ winner[x] # None /\ promise[x] = None =>
        x \in operations \cup records /\ (Has(queued, x) \/ Has(batch, x))
  BY DEF PromiseInv, AcceptedHeld
<1>b. ASSUME winner' = winner, promise' = promise, queued' = queued, batch' = batch,
             operations \cup records \subseteq operations' \cup records', ~interrupted
      PROVE  /\ x \in operations' \cup records'
             /\ Has(queued', x) \/ Has(batch', x)
  BY <1>a, <1>b
<1>1. CASE \E hasDeadline \in BOOLEAN : StartRegister(hasDeadline)
  BY <1>b, <1>1 DEF StartRegister, historyVars
<1>2. CASE \E t \in Threads, o \in Ops, outcome \in Submitted : SubmitGate(t, o, outcome)
  <2> PICK t \in Threads, o \in Ops, outcome \in Submitted : SubmitGate(t, o, outcome)
    BY <1>2
  <2>1. /\ o \in operations /\ winner' = [winner EXCEPT ![o] = outcome]
        /\ Len(queued') = Len(queued) + 1
        /\ \A i \in 1 .. Len(queued) : queued'[i] = queued[i]
        /\ queued'[Len(queued) + 1] = [id |-> o, outcome |-> outcome]
        /\ UNCHANGED <<operations, records, batch, promise, interrupted>>
    BY GateEffect
  <2>2. Has(queued, x) => Has(queued', x)
    BY <1>0, <2>1 DEF Has
  <2>3. CASE x = o
    <3>1. Len(queued) + 1 \in 1 .. Len(queued') /\ queued'[Len(queued) + 1].id = x
      BY <1>0, <2>1, <2>3
    <3> QED
      BY <2>1, <2>3, <3>1 DEF Has
  <2>4. CASE x # o
    <3>1. winner'[x] = winner[x]
      BY <1>0, <2>1, <2>4
    <3> QED
      BY <1>a, <2>1, <2>2, <3>1
  <2> QED
    BY <2>3, <2>4
<1>3. CASE Sweep
  <2>1. /\ Overdue \subseteq operations
        /\ winner' = [o \in Ops |-> IF o \in Overdue THEN "timed_out" ELSE winner[o]]
        /\ Len(queued') \in Nat /\ Len(queued') >= Len(queued)
        /\ \A i \in 1 .. Len(queued) : queued'[i] = queued[i]
        /\ \A o \in Overdue : \E i \in 1 .. Len(queued') : queued'[i].id = o
        /\ UNCHANGED <<operations, records, batch, promise, interrupted>>
    BY <1>3, SweepEffect
  <2>2. Has(queued, x) => Has(queued', x)
    BY <1>0, <2>1 DEF Has
  <2>3. CASE x \in Overdue
    BY <2>1, <2>3 DEF Has
  <2>4. CASE x \notin Overdue
    BY <1>a, <2>1, <2>2, <2>4
  <2> QED
    BY <2>3, <2>4
<1>4. CASE DrainSwap
  <2>1. /\ owner = "swap" /\ batch' = queued
        /\ UNCHANGED <<operations, records, winner, promise, interrupted>>
    BY <1>4 DEF DrainSwap, historyVars
  <2>2. batch = <<>>
    BY <2>1 DEF PromiseInv, BatchOnlyInLoop
  <2> QED
    BY <1>a, <2>1, <2>2, NoEvents
<1>5. CASE DrainEvent
  <2> DEFINE o == Head(batch).id
  <2>1. owner = "settling" /\ batch # <<>> /\ records = {}
    BY <1>5 DEF DrainEvent, PromiseInv, HeldInv, RecordsOnlyInClose
  <2>2. /\ o \in Ops /\ winner[o] # None
        /\ o \in operations =>
             operations' = operations \ {o} /\ promise' = [promise EXCEPT ![o] = winner[o]]
        /\ o \notin operations => UNCHANGED <<operations, promise>>
        /\ UNCHANGED <<queued, records, winner>>
        /\ ~interrupted /\ batch' = Tail(batch)
    BY <1>5, DrainEffect
  <2> HIDE DEF o
  <2>3. promise[x] = None
    BY <1>0, <2>2
  <2>4. x \in operations /\ (Has(queued, x) \/ Has(batch, x))
    BY <1>a, <2>1, <2>2, <2>3
  <2>5. x # o
    BY <1>0, <2>2, <2>4
  <2>6. Has(batch, x) => Has(Tail(batch), x)
    BY <1>0, <2>1, <2>5, TailEvents DEF o
  <2> QED
    BY <2>2, <2>4, <2>5, <2>6
<1>6. CASE CloseSnapshot
  <2>1. /\ owner = "closing" /\ batch' = queued /\ records' = operations
        /\ UNCHANGED <<winner, promise, interrupted>>
    BY <1>6 DEF CloseSnapshot, historyVars
  <2>2. batch = <<>> /\ records = {}
    BY <2>1 DEF PromiseInv, BatchOnlyInLoop, HeldInv, RecordsOnlyInClose
  <2> QED
    BY <1>a, <2>1, <2>2, NoEvents
<1>7. CASE \E o \in Ops : CloseRecord(o)
  <2> PICK o \in Ops : CloseRecord(o)
    BY <1>7
  <2>1. /\ ~interrupted /\ promise'[o] # None
        /\ records' = records \ {o}
        /\ UNCHANGED <<operations, queued, batch>>
        /\ \A y \in Ops \ {o} : winner'[y] = winner[y] /\ promise'[y] = promise[y]
    BY <1>0, CloseRecordEffect, OutcomeFacts
  <2> QED
    BY <1>a, <2>1
<1>8. CASE CloseEnd
  <2>1. /\ owner = "releasing" /\ records = {}
        /\ UNCHANGED <<winner, promise, interrupted>>
    BY <1>8 DEF CloseEnd, historyVars
  <2>2. operations = {}
    BY <2>1 DEF PromiseInv, HeldInv, ClosedIsFinal, ClosedIsEmpty
  <2> QED
    BY <1>a, <2>1, <2>2
<1>9. CASE Quiet
  BY <1>b, <1>9 DEF Quiet
<1> QED
  BY <1>1, <1>2, <1>3, <1>4, <1>5, <1>6, <1>7, <1>8, <1>9, StepCases DEF PromiseInv

-----------------------------------------------------------------------------
(* PromiseInv is inductive, and what follows from it. *)

LEMMA PromiseInit ==
  ASSUME Init
  PROVE  PromiseInv
<1>1. HeldInv
  <2>1. Started = {}
    BY DEF Init, Started
  <2> QED
    BY <2>1, TypeInit DEF Init, HeldInv, RecordsOnlyInClose, ClosedIsFinal,
       ClosedIsEmpty, CapabilityHeldOnce
<1>2. FreshUntouched /\ OpenUndecided /\ HeldUnsettled /\ AcceptedHeld /\ BatchOnlyInLoop
  BY DEF Init, FreshUntouched, OpenUndecided, HeldUnsettled, AcceptedHeld, BatchOnlyInLoop
<1>3. EventsTellWinner /\ EventsOnce
  BY DEF Init, EventsTellWinner, Tells, EventsOnce, Once, Has
<1> QED
  BY <1>1, <1>2, <1>3 DEF PromiseInv

LEMMA PromiseInvariant == Spec => []PromiseInv
<1>1. Init => PromiseInv
  BY PromiseInit
<1>2. PromiseInv /\ [Next]_vars => PromiseInv'
  <2> SUFFICES ASSUME PromiseInv, [Next]_vars PROVE PromiseInv'
    OBVIOUS
  <2>1. HeldInv'
    BY TypeStep, StartingStep, CloseStep, HeldStep DEF PromiseInv, HeldInv, TypeInv
  <2> QED
    BY <2>1, FreshStep, OpenStep, UnsettledStep, TellsStep, OnceStep,
       HeldEventStep, BatchStep DEF PromiseInv
<1> QED
  BY <1>1, <1>2, PTL DEF Spec

\* An accepted completion of a runtime that can run has exactly one event in
\* queue and batch, with the outcome the gate accepted: AcceptedStaysQueued of
\* the run host_async, for any number of operations and workers.
THEOREM AcceptedNeverLost == Spec => []AcceptedStaysQueued
<1>1. PromiseInv => AcceptedStaysQueued
  <2> SUFFICES ASSUME PromiseInv, ~interrupted, NEW o \in Ops,
                      winner[o] # None, promise[o] = None
               PROVE  \E i \in DOMAIN InFlight :
                        /\ InFlight[i] = [id |-> o, outcome |-> winner[o]]
                        /\ \A j \in DOMAIN InFlight : InFlight[j].id = o => j = i
    BY DEF AcceptedStaysQueued, Settled
  <2> DEFINE all == batch \o queued
  <2>0. /\ queued \in Seq(Event) /\ batch \in Seq(Event)
        /\ Len(queued) \in Nat /\ Len(batch) \in Nat
        /\ Once(queued) /\ Once(batch) /\ ~(Has(queued, o) /\ Has(batch, o))
        /\ Has(queued, o) \/ Has(batch, o)
        /\ \A i \in 1 .. Len(queued) : winner[queued[i].id] = queued[i].outcome
        /\ \A i \in 1 .. Len(batch) : winner[batch[i].id] = batch[i].outcome
    BY PromiseTypes DEF PromiseInv, EventsOnce, AcceptedHeld, EventsTellWinner, Tells
  <2>1. /\ all \in Seq(Event) /\ Len(all) = Len(batch) + Len(queued)
        /\ \A i \in 1 .. Len(all) :
             all[i] = IF i <= Len(batch) THEN batch[i] ELSE queued[i - Len(batch)]
    BY <2>0, ConcatProperties
  <2>2. InFlight = all /\ DOMAIN all = 1 .. Len(all)
    BY <2>1 DEF InFlight
  <2> HIDE DEF all
  <2>3. ASSUME NEW j \in 1 .. Len(all)
        PROVE  \/ j \in 1 .. Len(batch) /\ all[j] = batch[j]
               \/ /\ ~(j <= Len(batch)) /\ j - Len(batch) \in 1 .. Len(queued)
                  /\ all[j] = queued[j - Len(batch)]
    <3>1. CASE j <= Len(batch)
      BY <2>0, <2>1, <3>1
    <3>2. CASE ~(j <= Len(batch))
      <4>1. j - Len(batch) \in 1 .. Len(queued)
        BY <2>0, <2>1, <3>2
      <4> QED
        BY <2>0, <2>1, <3>2, <4>1
    <3> QED
      BY <3>1, <3>2
  <2>4. \A e \in Event : e.id = o /\ e.outcome = winner[o] => e = [id |-> o, outcome |-> winner[o]]
    BY DEF Event
  <2>5. CASE Has(batch, o)
    <3>1. PICK i \in 1 .. Len(batch) : batch[i].id = o
      BY <2>5 DEF Has
    <3>2. i \in 1 .. Len(all) /\ all[i] = batch[i] /\ batch[i] \in Event
      BY <2>0, <2>1, ElementOfSeq
    <3>3. all[i] = [id |-> o, outcome |-> winner[o]]
      BY <2>0, <2>4, <3>1, <3>2
    <3>4. ASSUME NEW j \in 1 .. Len(all), all[j].id = o
          PROVE  j = i
      <4>1. j \in 1 .. Len(batch) /\ batch[j].id = o
        BY <2>0, <2>3, <2>5, <3>4 DEF Has
      <4> QED
        BY <2>0, <3>1, <4>1 DEF Once
    <3> QED
      BY <2>2, <3>2, <3>3, <3>4
  <2>6. CASE Has(queued, o)
    <3>1. PICK k \in 1 .. Len(queued) : queued[k].id = o
      BY <2>6 DEF Has
    <3> DEFINE i == Len(batch) + k
    <3>2. i \in 1 .. Len(all) /\ ~(i <= Len(batch)) /\ i - Len(batch) = k
      BY <2>0, <2>1, <3>1
    <3>3. all[i] = queued[k] /\ queued[k] \in Event
      BY <2>0, <2>1, <3>2, ElementOfSeq
    <3>4. all[i] = [id |-> o, outcome |-> winner[o]]
      BY <2>0, <2>4, <3>1, <3>3
    <3> HIDE DEF i
    <3>5. ASSUME NEW j \in 1 .. Len(all), all[j].id = o
          PROVE  j = i
      <4>2. /\ ~(j <= Len(batch)) /\ j - Len(batch) \in 1 .. Len(queued)
            /\ queued[j - Len(batch)].id = o
        BY <2>0, <2>3, <2>6, <3>5 DEF Has
      <4>3. j - Len(batch) = k
        BY <2>0, <3>1, <4>2 DEF Once
      <4> QED
        BY <2>0, <3>1, <4>3 DEF i
    <3> QED
      BY <2>2, <3>2, <3>4, <3>5
  <2> QED
    BY <2>0, <2>5, <2>6
<1> QED
  BY <1>1, PromiseInvariant, PTL

-----------------------------------------------------------------------------
(* Refinement. *)

\* Init of HostAsync is Init of FirstTerminal.
LEMMA RefinesInit == Init => Promised!Init
BY DEF Init, Promised!Init

\* The gate is Accept, a sweep AcceptAll, a settled drain event Settle, and a
\* record of close Settle, Accept or AcceptAndSettle; nothing else is visible.
LEMMA RefinesStep ==
  ASSUME PromiseInv, [Next]_vars
  PROVE  [Promised!Next]_(Promised!vars)
<1> USE DEF Promised!Next, Promised!vars
<1>0. /\ winner \in [Ops -> Outcomes \cup {None}]
      /\ promise \in [Ops -> Outcomes \cup {None}]
      /\ "timed_out" \in Outcomes /\ "closed" \in Outcomes
  BY PromiseTypes, OutcomeFacts
<1>b. ASSUME winner' = winner, promise' = promise PROVE [Promised!Next]_(Promised!vars)
  BY <1>b
<1>1. CASE \E hasDeadline \in BOOLEAN : StartRegister(hasDeadline)
  BY <1>b, <1>1 DEF StartRegister, historyVars
<1>2. CASE \E t \in Threads, o \in Ops, outcome \in Submitted : SubmitGate(t, o, outcome)
  <2> PICK t \in Threads, o \in Ops, outcome \in Submitted : SubmitGate(t, o, outcome)
    BY <1>2
  <2>1. /\ winner[o] = None /\ outcome \in Outcomes /\ promise' = promise
        /\ winner' = [winner EXCEPT ![o] = outcome]
    BY GateEffect
  <2>2. Promised!Accept(o, outcome)
    BY <2>1 DEF Promised!Accept
  <2> QED
    BY <2>1, <2>2
<1>3. CASE Sweep
  <2>1. /\ \A o \in Overdue : winner[o] = None
        /\ winner' = [o \in Ops |-> IF o \in Overdue THEN "timed_out" ELSE winner[o]]
        /\ promise' = promise
    BY <1>3, SweepEffect
  <2>2. Promised!AcceptAll(Overdue, "timed_out")
    BY <2>1 DEF Promised!AcceptAll
  <2>3. Overdue \in SUBSET Ops
    BY PromiseTypes DEF Overdue
  <2> QED
    BY <1>0, <2>2, <2>3
<1>4. CASE DrainSwap
  BY <1>b, <1>4 DEF DrainSwap, historyVars
<1>5. CASE DrainEvent
  <2> DEFINE o == Head(batch).id
  <2>1. /\ o \in Ops /\ winner[o] # None
        /\ o \in operations =>
             /\ promise[o] = None
             /\ promise' = IF interrupted THEN promise ELSE [promise EXCEPT ![o] = winner[o]]
        /\ o \notin operations => promise' = promise
        /\ winner' = winner
    BY <1>5, DrainEffect
  <2> HIDE DEF o
  <2>2. CASE o \in operations /\ ~interrupted
    <3>1. Promised!Settle(o)
      BY <2>1, <2>2 DEF Promised!Settle
    <3> QED
      BY <2>1, <3>1
  <2>3. CASE ~(o \in operations /\ ~interrupted)
    BY <1>b, <2>1, <2>3
  <2> QED
    BY <2>2, <2>3
<1>6. CASE CloseSnapshot
  BY <1>b, <1>6 DEF CloseSnapshot, historyVars
<1>7. CASE \E o \in Ops : CloseRecord(o)
  <2> PICK o \in Ops : CloseRecord(o)
    BY <1>7
  <2>1. promise[o] = None
    BY CloseRecordEffect
  <2>2. CASE /\ winner[o] # None /\ winner' = winner
             /\ promise' = IF interrupted THEN promise ELSE [promise EXCEPT ![o] = winner[o]]
    <3>1. CASE interrupted
      BY <1>b, <2>2, <3>1
    <3>2. CASE ~interrupted
      <4>1. Promised!Settle(o)
        BY <2>1, <2>2, <3>2 DEF Promised!Settle
      <4> QED
        BY <4>1
    <3> QED
      BY <3>1, <3>2
  <2>3. CASE /\ winner[o] = None /\ winner' = [winner EXCEPT ![o] = "closed"]
             /\ promise' = IF interrupted THEN promise ELSE [promise EXCEPT ![o] = "closed"]
    <3>1. CASE interrupted
      <4>1. Promised!Accept(o, "closed")
        BY <2>3, <3>1 DEF Promised!Accept
      <4> QED
        BY <1>0, <4>1
    <3>2. CASE ~interrupted
      <4>1. Promised!AcceptAndSettle(o, "closed")
        BY <2>1, <2>3, <3>2 DEF Promised!AcceptAndSettle
      <4> QED
        BY <1>0, <4>1
    <3> QED
      BY <3>1, <3>2
  <2>4. CASE winner' = winner /\ promise' = promise
    BY <1>b, <2>4
  <2> QED
    BY <2>2, <2>3, <2>4, CloseRecordEffect
<1>8. CASE CloseEnd
  BY <1>b, <1>8 DEF CloseEnd, historyVars
<1>9. CASE Quiet
  BY <1>b, <1>9 DEF Quiet
<1> QED
  BY <1>1, <1>2, <1>3, <1>4, <1>5, <1>6, <1>7, <1>8, <1>9, StepCases

\* Of all the terminal events that compete for an operation one is accepted, and
\* its Promise is settled with that one or not at all: FirstTerminalWins of the
\* run host_async_live, for any number of operations and workers.
THEOREM ImplementsFirstTerminal == Spec => FirstTerminalWins
<1>1. Init => Promised!Init
  BY RefinesInit
<1>2. PromiseInv /\ [Next]_vars => [Promised!Next]_(Promised!vars)
  BY RefinesStep
<1> QED
  BY <1>1, <1>2, PromiseInvariant, PTL DEF Spec, FirstTerminalWins, Promised!Spec

-----------------------------------------------------------------------------
(* Close, and the cancel tokens. *)

\* On a runtime that can run, nobody frees a pair without settling its Promise.
FreedIsSettled == ~interrupted => \A o \in Ops : released[o] = 1 => promise[o] # None

\* A thread about to mark a token has won with an outcome that cancels.
MarksCancelling ==
  \A t \in Threads :
    task[t] # None /\ task[t].step = "mark" => winner[task[t].op] \in Cancelling

CloseInv ==
  /\ PromiseInv
  /\ FreedIsSettled /\ MarksCancelling /\ TokenTellsTheWinner

LEMMA FreedStep ==
  ASSUME CloseInv, [Next]_vars
  PROVE  FreedIsSettled'
<1> SUFFICES ASSUME ~interrupted', NEW x \in Ops, released'[x] = 1
             PROVE  promise'[x] # None
  BY DEF FreedIsSettled
<1>0. /\ PromiseInv
      /\ promise \in [Ops -> Outcomes \cup {None}] /\ released \in [Ops -> Nat]
  BY PromiseTypes DEF CloseInv, TypeOK
<1>a. ~interrupted /\ released[x] = 1 => promise[x] # None
  BY DEF CloseInv, FreedIsSettled
<1>b. ASSUME released' = released, promise' = promise, ~interrupted
      PROVE  promise'[x] # None
  BY <1>a, <1>b
<1>1. CASE \E hasDeadline \in BOOLEAN : StartRegister(hasDeadline)
  BY <1>b, <1>1 DEF StartRegister
<1>2. CASE \E t \in Threads, o \in Ops, outcome \in Submitted : SubmitGate(t, o, outcome)
  BY <1>b, <1>2 DEF SubmitGate
<1>3. CASE Sweep
  BY <1>b, <1>3 DEF Sweep, DrainBegin, CloseBegin
<1>4. CASE DrainSwap
  BY <1>b, <1>4 DEF DrainSwap
<1>5. CASE DrainEvent
  <2> DEFINE o == Head(batch).id
  <2>1. /\ o \in Ops /\ winner[o] # None /\ ~interrupted
        /\ o \in operations => promise' = [promise EXCEPT ![o] = winner[o]]
        /\ o \notin operations => promise' = promise
    BY <1>0, <1>5, DrainEffect
  <2>2. /\ o \in operations => released' = [released EXCEPT ![o] = @ + 1]
        /\ o \notin operations => released' = released
    BY <1>5 DEF DrainEvent, SettleRecord
  <2> HIDE DEF o
  <2> QED
    BY <1>0, <1>a, <2>1, <2>2
<1>6. CASE CloseSnapshot
  BY <1>b, <1>6 DEF CloseSnapshot
<1>7. CASE \E o \in Ops : CloseRecord(o)
  <2> PICK o \in Ops : CloseRecord(o)
    BY <1>7
  <2>1. /\ ~interrupted /\ promise'[o] # None
        /\ \A y \in Ops \ {o} : promise'[y] = promise[y]
    BY <1>0, CloseRecordEffect, OutcomeFacts
  <2>2. released' = [released EXCEPT ![o] = @ + 1]
    BY CloseRecordSettles
  <2> QED
    BY <1>0, <1>a, <2>1, <2>2
<1>8. CASE CloseEnd
  BY <1>b, <1>8 DEF CloseEnd
<1>9. CASE Quiet
  BY <1>b, <1>9 DEF Quiet
<1> QED
  BY <1>1, <1>2, <1>3, <1>4, <1>5, <1>6, <1>7, <1>8, <1>9, StepCases

\* A decided operation keeps its winner.
LEMMA WinnerStays ==
  ASSUME PromiseInv, [Next]_vars, NEW x \in Ops, winner[x] # None
  PROVE  winner'[x] = winner[x]
<1>0. /\ winner \in [Ops -> Outcomes \cup {None}]
      /\ promise \in [Ops -> Outcomes \cup {None}]
  BY PromiseTypes
<1>1. [Promised!Next]_(Promised!vars)
  BY RefinesStep
<1> QED
  BY <1>0, <1>1 DEF Promised!Next, Promised!vars, Promised!Accept, Promised!Settle,
     Promised!AcceptAndSettle, Promised!AcceptAll

LEMMA MarkStep ==
  ASSUME CloseInv, [Next]_vars
  PROVE  MarksCancelling'
<1> SUFFICES ASSUME NEW t \in Threads, task'[t] # None, task'[t].step = "mark"
             PROVE  winner'[task'[t].op] \in Cancelling
  BY DEF MarksCancelling
<1>0. /\ PromiseInv
      /\ task \in [Threads -> {None} \cup [op : Ops, step : {"mark", "notify"}]]
      /\ winner \in [Ops -> Outcomes \cup {None}]
  BY PromiseTypes DEF CloseInv, TypeOK
<1>a. ASSUME task'[t] = task[t] PROVE winner'[task'[t].op] \in Cancelling
  <2>1. winner[task[t].op] \in Cancelling
    BY <1>a DEF CloseInv, MarksCancelling
  <2>2. task[t].op \in Ops
    BY <1>0, <1>a
  <2>3. winner[task[t].op] # None
    BY <2>1, OutcomeFacts DEF Cancelling
  <2> QED
    BY <1>0, <1>a, <2>1, <2>2, <2>3, WinnerStays
<1>1. CASE \E u \in Threads, o \in Ops, outcome \in Submitted : SubmitGate(u, o, outcome)
  <2> PICK u \in Threads, o \in Ops, outcome \in Submitted : SubmitGate(u, o, outcome)
    BY <1>1
  <2>1. /\ task' = [task EXCEPT ![u] =
             [op |-> o, step |-> IF outcome \in Cancelling THEN "mark" ELSE "notify"]]
        /\ winner' = [winner EXCEPT ![o] = outcome]
    BY DEF SubmitGate
  <2>2. CASE t = u
    BY <1>0, <2>1, <2>2
  <2>3. CASE t # u
    BY <1>0, <1>a, <2>1, <2>3
  <2> QED
    BY <2>2, <2>3
<1>2. CASE \E u \in Threads : ThreadStep(u)
  <2> PICK u \in Threads : ThreadStep(u)
    BY <1>2
  <2>1. CASE t = u
    <3>1. \/ task' = [task EXCEPT ![u].step = "notify"] /\ task[u] # None
          \/ task' = [task EXCEPT ![u] = None]
      BY DEF ThreadStep, SubmitMark, SubmitNotify
    <3>2. CASE task' = [task EXCEPT ![u] = None]
      BY <1>0, <2>1, <3>2
    <3>3. CASE task' = [task EXCEPT ![u].step = "notify"] /\ task[u] # None
      <4>1. task[u] \in [op : Ops, step : {"mark", "notify"}]
        BY <1>0, <3>3
      <4>2. task'[t] = [task[t] EXCEPT !.step = "notify"]
        BY <1>0, <2>1, <3>3
      <4>3. task'[t].step = "notify"
        BY <2>1, <4>1, <4>2
      <4> QED
        BY <4>3
    <3> QED
      BY <3>1, <3>2, <3>3
  <2>2. CASE t # u
    BY <1>0, <1>a, <2>2 DEF ThreadStep, SubmitMark, SubmitNotify
  <2> QED
    BY <2>1, <2>2
<1>3. CASE task' = task
  BY <1>a, <1>3
<1>4. \/ \E u \in Threads, o \in Ops, outcome \in Submitted : SubmitGate(u, o, outcome)
      \/ \E u \in Threads : ThreadStep(u)
      \/ task' = task
  BY DEF Next, vars, DeadlinePasses, Interrupt, StartRegister, DrainBegin, CloseBegin,
     OwnerStep, StartReturn, DrainSwap, DrainEvent, DrainEnd, CloseSnapshot,
     CloseRecord, CloseEnd
<1> QED
  BY <1>1, <1>2, <1>3, <1>4

\* A token is marked by the winner of the operation, or by close together with
\* the decision that close won.
LEMMA TokenStep ==
  ASSUME CloseInv, [Next]_vars
  PROVE  TokenTellsTheWinner'
<1> SUFFICES ASSUME NEW x \in Ops, token'[x], ~interrupted'
             PROVE  winner'[x] \in Cancelling
  BY DEF TokenTellsTheWinner
<1>0. /\ PromiseInv /\ token \in [Ops -> BOOLEAN]
      /\ task \in [Threads -> {None} \cup [op : Ops, step : {"mark", "notify"}]]
      /\ winner \in [Ops -> Outcomes \cup {None}]
      /\ "timed_out" \in Cancelling /\ "closed" \in Cancelling
  BY PromiseTypes DEF CloseInv, TypeOK, Cancelling, Outcomes, Submitted
<1>1. interrupted => interrupted'
  BY DEF Next, vars, DeadlinePasses, Interrupt, StartRegister, SubmitGate, ThreadStep,
     SubmitMark, SubmitNotify, DrainBegin, CloseBegin, OwnerStep, StartReturn,
     DrainSwap, DrainEvent, DrainEnd, CloseSnapshot, CloseRecord, CloseEnd
<1>a. ASSUME token[x] PROVE winner'[x] \in Cancelling
  <2>1. winner[x] \in Cancelling
    BY <1>1, <1>a DEF CloseInv, TokenTellsTheWinner
  <2> QED
    BY <1>0, <2>1, WinnerStays, OutcomeFacts DEF Cancelling
<1>2. CASE Sweep
  <2>1. /\ token' = [o \in Ops |-> token[o] \/ o \in Overdue]
        /\ winner' = [o \in Ops |-> IF o \in Overdue THEN "timed_out" ELSE winner[o]]
    BY <1>2 DEF Sweep, DrainBegin, CloseBegin, EnqueueDueTimeouts
  <2> QED
    BY <1>0, <1>a, <2>1
<1>3. CASE \E t \in Threads : SubmitMark(t)
  <2> PICK t \in Threads : SubmitMark(t)
    BY <1>3
  <2>1. /\ task[t] # None /\ task[t].step = "mark"
        /\ token' = [token EXCEPT ![task[t].op] = TRUE]
        /\ winner' = winner
    BY DEF SubmitMark, historyVars
  <2>2. winner[task[t].op] \in Cancelling
    BY <2>1 DEF CloseInv, MarksCancelling
  <2> QED
    BY <1>0, <1>a, <2>1, <2>2
<1>4. CASE \E o \in Ops : CloseRecord(o)
  <2> PICK o \in Ops : CloseRecord(o)
    BY <1>4
  <2>1. CASE token' = token
    BY <1>a, <2>1
  <2>2. CASE TerminalEvents(o) = {}
    <3>1. /\ token' = [token EXCEPT ![o] = TRUE]
          /\ winner' = [winner EXCEPT ![o] = IF @ = None THEN "closed" ELSE @]
      BY <2>2 DEF CloseRecord
    <3>2. ~Has(batch, o) /\ ~Has(queued, o)
      <4>1. queued = <<>> /\ DOMAIN batch = 1 .. Len(batch)
        BY <1>0, PromiseTypes, CloseRecordEffect
      <4> QED
        BY <2>2, <4>1 DEF TerminalEvents, Has
    <3>3. winner[o] = None
      <4>1. ~interrupted /\ promise[o] = None
        BY <1>0, <1>1, CloseRecordEffect
      <4> QED
        BY <1>0, <3>2, <4>1 DEF PromiseInv, AcceptedHeld
    <3>4. winner'[o] = "closed"
      BY <1>0, <3>1, <3>3
    <3> QED
      BY <1>0, <1>a, <3>1, <3>4
  <2> QED
    BY <2>1, <2>2 DEF CloseRecord
<1>5. CASE token' = token
  BY <1>a, <1>5
<1>6. \/ Sweep \/ (\E t \in Threads : SubmitMark(t)) \/ (\E o \in Ops : CloseRecord(o))
      \/ token' = token
  BY DEF Next, vars, Sweep, DeadlinePasses, Interrupt, StartRegister, SubmitGate,
     ThreadStep, SubmitNotify, OwnerStep, StartReturn, DrainSwap, DrainEvent, DrainEnd,
     CloseSnapshot, CloseEnd
<1> QED
  BY <1>2, <1>3, <1>4, <1>5, <1>6

LEMMA CloseInvariant == Spec => []CloseInv
<1>1. Init => CloseInv
  <2> SUFFICES ASSUME Init PROVE CloseInv
    OBVIOUS
  <2>1. \A o \in Ops : released[o] = 0 /\ token[o] = FALSE
    BY DEF Init
  <2>2. \A t \in Threads : task[t] = None
    BY DEF Init
  <2> QED
    BY <2>1, <2>2, PromiseInit
       DEF CloseInv, FreedIsSettled, MarksCancelling, TokenTellsTheWinner
<1>2. CloseInv /\ PromiseInv' /\ [Next]_vars => CloseInv'
  BY FreedStep, MarkStep, TokenStep DEF CloseInv
<1> QED
  BY <1>1, <1>2, PromiseInvariant, PTL DEF Spec

\* After close every pair was freed once and, unless the runtime is poisoned,
\* every Promise settled: CloseReleasesEverything of the run host_async, for any
\* number of operations and workers.
THEOREM CloseReleasesAll == Spec => []CloseReleasesEverything
<1>1. CloseInv => CloseReleasesEverything
  <2> SUFFICES ASSUME CloseInv, owner = "closed", NEW o \in Started
               PROVE  released[o] = 1 /\ (~interrupted => promise[o] # None)
    BY DEF CloseReleasesEverything, Settled
  <2>1. HeldInv /\ nextId \in 1 .. MaxOps + 1
    BY DEF CloseInv, PromiseInv, HeldInv, TypeInv, TypeOK
  <2>2. records = {} /\ operations = {}
    BY <2>1 DEF HeldInv, RecordsOnlyInClose, ClosedIsFinal, ClosedIsEmpty
  <2>3. o \in Ops
    BY <2>1, HostAsyncAssumption DEF Started, Ops
  <2>4. released[o] = 1
    BY <2>1, <2>2, <2>3 DEF HeldInv, CapabilityHeldOnce
  <2> QED
    BY <2>3, <2>4 DEF CloseInv, FreedIsSettled
<1> QED
  BY <1>1, CloseInvariant, PTL

\* A worker whose token is cancelled did lose to a cancellation, a timeout or
\* the close: TokenTellsTheWinner of the run host_async, for any number of
\* operations and workers.
THEOREM TokensTellTheWinner == Spec => []TokenTellsTheWinner
<1>1. CloseInv => TokenTellsTheWinner
  BY DEF CloseInv
<1> QED
  BY <1>1, CloseInvariant, PTL

-----------------------------------------------------------------------------
(* The order of settlement. *)

\* While the session is open and can run, the accepted operations are those that
\* are settled and then, one by one, those of the events in batch and queue.
OrderKept ==
  ~interrupted /\ ~closed =>
    /\ Len(InFlight) <= Len(order)
    /\ \A i \in 1 .. Len(order) - Len(InFlight) : promise[order[i]] # None
    /\ \A i \in 1 .. Len(InFlight) :
         /\ order[Len(order) - Len(InFlight) + i] = InFlight[i].id
         /\ InFlight[i].id \in operations

LEMMA OrderTypes ==
  ASSUME PromiseInv
  PROVE  /\ InFlight \in Seq(Event) /\ order \in Seq(Ops)
         /\ Len(InFlight) \in Nat /\ Len(order) \in Nat
         /\ Len(InFlight) = Len(batch) + Len(queued)
         /\ \A i \in 1 .. Len(batch) : InFlight[i] = batch[i]
         /\ \A i \in 1 .. Len(queued) : InFlight[Len(batch) + i] = queued[i]
<1>1. batch \in Seq(Event) /\ queued \in Seq(Event) /\ order \in Seq(Ops)
  BY PromiseTypes DEF TypeOK
<1> QED BY <1>1 DEF InFlight

LEMMA ConcatParts ==
  ASSUME NEW S, NEW s \in Seq(S), NEW t \in Seq(S)
  PROVE  /\ Len(s \o t) = Len(s) + Len(t)
         /\ \A i \in 1 .. Len(s) : (s \o t)[i] = s[i]
         /\ \A i \in 1 .. Len(t) : (s \o t)[Len(s) + i] = t[i]
OBVIOUS

LEMMA EventConcat ==
  \A s, t \in Seq(Event) :
    /\ Len(s \o t) = Len(s) + Len(t)
    /\ \A i \in 1 .. Len(s) : (s \o t)[i] = s[i]
    /\ \A i \in 1 .. Len(t) : (s \o t)[Len(s) + i] = t[i]
BY ConcatParts

\* Accepted events are appended to the queue and to the history alike.
LEMMA OrderExtends ==
  ASSUME PromiseInv, OrderKept, NEW s \in Seq(Event), NEW f \in Seq(Ops),
         Len(s) = Len(f), \A i \in 1 .. Len(f) : s[i].id = f[i] /\ f[i] \in operations,
         queued' = queued \o s, order' = order \o f,
         UNCHANGED <<batch, operations, promise, interrupted, closed>>
  PROVE  OrderKept'
<1>1. /\ InFlight \in Seq(Event) /\ order \in Seq(Ops)
      /\ Len(InFlight) \in Nat /\ Len(order) \in Nat /\ Len(f) \in Nat
  BY OrderTypes
<1>2. InFlight' = InFlight \o s
  <2>1. batch \in Seq(Event) /\ queued \in Seq(Event)
    BY PromiseTypes
  <2>2. (batch \o queued) \o s = batch \o (queued \o s)
    BY <2>1, ConcatAssociative
  <2> QED BY <2>2 DEF InFlight
<1>3. /\ Len(InFlight') = Len(InFlight) + Len(f)
      /\ Len(order') = Len(order) + Len(f)
      /\ \A i \in 1 .. Len(InFlight) : InFlight'[i] = InFlight[i]
      /\ \A i \in 1 .. Len(order) : order'[i] = order[i]
      /\ \A i \in 1 .. Len(f) : InFlight'[Len(InFlight) + i] = s[i]
      /\ \A i \in 1 .. Len(f) : order'[Len(order) + i] = f[i]
  <2>1. order' = order \o f
    OBVIOUS
  <2>2. /\ Len(InFlight \o s) = Len(InFlight) + Len(s)
        /\ \A i \in 1 .. Len(InFlight) : (InFlight \o s)[i] = InFlight[i]
        /\ \A i \in 1 .. Len(s) : (InFlight \o s)[Len(InFlight) + i] = s[i]
    BY <1>1, EventConcat
  <2>3. /\ Len(order \o f) = Len(order) + Len(f)
        /\ \A i \in 1 .. Len(order) : (order \o f)[i] = order[i]
        /\ \A i \in 1 .. Len(f) : (order \o f)[Len(order) + i] = f[i]
    BY <1>1, ConcatParts
  <2> QED BY <1>2, <2>1, <2>2, <2>3
<1> SUFFICES ASSUME ~interrupted, ~closed
             PROVE  /\ Len(InFlight') <= Len(order')
                    /\ \A i \in 1 .. Len(order') - Len(InFlight') : promise'[order'[i]] # None
                    /\ \A i \in 1 .. Len(InFlight') :
                         /\ order'[Len(order') - Len(InFlight') + i] = InFlight'[i].id
                         /\ InFlight'[i].id \in operations'
  BY DEF OrderKept
<1>4. /\ Len(InFlight) <= Len(order)
      /\ \A i \in 1 .. Len(order) - Len(InFlight) : promise[order[i]] # None
      /\ \A i \in 1 .. Len(InFlight) :
           /\ order[Len(order) - Len(InFlight) + i] = InFlight[i].id
           /\ InFlight[i].id \in operations
  BY DEF OrderKept
<1>5. Len(order') - Len(InFlight') = Len(order) - Len(InFlight)
  BY <1>1, <1>3
<1>6. ASSUME NEW i \in 1 .. Len(InFlight')
      PROVE  /\ order'[Len(order') - Len(InFlight') + i] = InFlight'[i].id
             /\ InFlight'[i].id \in operations
  <2> DEFINE m == Len(order) - Len(InFlight)
  <2>1. CASE i \in 1 .. Len(InFlight)
    <3>1. m + i \in 1 .. Len(order)
      BY <1>1, <1>4, <2>1
    <3>2. InFlight'[i] = InFlight[i] /\ order'[m + i] = order[m + i]
      BY <1>3, <2>1, <3>1
    <3>3. order[m + i] = InFlight[i].id /\ InFlight[i].id \in operations
      BY <1>4, <2>1
    <3> QED BY <1>5, <3>2, <3>3
  <2>2. CASE i \notin 1 .. Len(InFlight)
    <3> DEFINE k == i - Len(InFlight)
    <3>1. k \in 1 .. Len(f) /\ i = Len(InFlight) + k /\ m + i = Len(order) + k
      BY <1>1, <1>3, <2>2
    <3> HIDE DEF k
    <3>2. InFlight'[i] = s[k] /\ order'[m + i] = f[k]
      BY <1>3, <3>1
    <3> QED BY <1>5, <3>1, <3>2
  <2> QED BY <2>1, <2>2
<1>7. ASSUME NEW i \in 1 .. Len(order') - Len(InFlight')
      PROVE  promise'[order'[i]] # None
  <2>1. i \in 1 .. Len(order) - Len(InFlight) /\ i \in 1 .. Len(order)
    BY <1>1, <1>4, <1>5
  <2>2. order'[i] = order[i]
    BY <1>3, <2>1
  <2> QED BY <1>4, <2>1, <2>2
<1>8. Len(InFlight') <= Len(order')
  BY <1>1, <1>3, <1>4
<1> QED BY <1>6, <1>7, <1>8

LEMMA OrderStep ==
  ASSUME PromiseInv, OrderKept, [Next]_vars
  PROVE  OrderKept'
<1>1. CASE \E hasDeadline \in BOOLEAN : StartRegister(hasDeadline)
  <2>1. operations \subseteq operations'
        /\ UNCHANGED <<queued, batch, order, promise, interrupted, closed>>
    BY <1>1 DEF StartRegister, historyVars
  <2> QED BY <2>1 DEF OrderKept, InFlight
<1>2. CASE \E t \in Threads, o \in Ops, outcome \in Submitted : SubmitGate(t, o, outcome)
  <2> PICK t \in Threads, o \in Ops, outcome \in Submitted : SubmitGate(t, o, outcome)
    BY <1>2
  <2> DEFINE event == [id |-> o, outcome |-> outcome]
  <2>1. event \in Event /\ event.id = o
    BY OutcomeFacts DEF Event
  <2>2. /\ queued' = Append(queued, event) /\ order' = Append(order, o)
        /\ o \in operations
        /\ UNCHANGED <<batch, operations, promise, interrupted, closed>>
    BY DEF SubmitGate, GateOpen
  <2> HIDE DEF event
  <2>3. queued' = queued \o <<event>> /\ order' = order \o <<o>>
    BY <2>1, <2>2, PromiseTypes, OrderTypes, AppendIsConcat
  <2>4. /\ <<event>> \in Seq(Event) /\ <<o>> \in Seq(Ops)
        /\ Len(<<event>>) = Len(<<o>>)
        /\ \A i \in 1 .. Len(<<o>>) : <<event>>[i].id = <<o>>[i] /\ <<o>>[i] \in operations
    BY <2>1, <2>2
  <2> QED BY <2>2, <2>3, <2>4, OrderExtends
<1>3. CASE Sweep
  <2>1. UNCHANGED <<batch, operations, promise, interrupted, closed>>
        /\ operations \subseteq Ops
    BY <1>3, PromiseTypes DEF Sweep, DrainBegin, CloseBegin
  <2>2. PICK f \in Enumerations(Overdue) :
          /\ queued' = queued \o [i \in DOMAIN f |-> [id |-> f[i], outcome |-> "timed_out"]]
          /\ order' = order \o f
    BY <1>3 DEF Sweep, DrainBegin, CloseBegin, EnqueueDueTimeouts
  <2> DEFINE s == [i \in DOMAIN f |-> [id |-> f[i], outcome |-> "timed_out"]]
  <2>3. f \in Seq(Overdue) /\ f \in Seq(Ops) /\ Len(f) \in Nat /\ DOMAIN f = 1 .. Len(f)
    BY <2>1, EnumerationIsSequence
  <2>4. \A i \in 1 .. Len(f) :
          /\ f[i] \in Ops /\ f[i] \in operations
          /\ s[i] = [id |-> f[i], outcome |-> "timed_out"] /\ s[i] \in Event
    BY <2>3, OutcomeFacts DEF Overdue, Event
  <2>5. s \in Seq(Event) /\ Len(s) = Len(f)
    <3>1. s \in [1 .. Len(f) -> Event]
      BY <2>3, <2>4
    <3> HIDE DEF s
    <3> QED BY <2>3, <3>1
  <2>6. queued' = queued \o s
    BY <2>2
  <2>7. \A i \in 1 .. Len(f) : s[i].id = f[i] /\ f[i] \in operations
    BY <2>4
  <2> HIDE DEF s
  <2> QED BY <2>1, <2>2, <2>3, <2>5, <2>6, <2>7, OrderExtends
<1>4. CASE DrainSwap
  <2>1. batch = <<>>
    BY <1>4 DEF DrainSwap, PromiseInv, BatchOnlyInLoop
  <2>2. batch' = queued /\ queued' = <<>>
        /\ UNCHANGED <<operations, order, promise, interrupted, closed>>
    BY <1>4 DEF DrainSwap, historyVars
  <2>3. InFlight' = InFlight
    BY <2>1, <2>2, PromiseTypes, ConcatEmptySeq DEF InFlight
  <2> QED BY <2>2, <2>3 DEF OrderKept
<1>5. CASE DrainEvent
  <2> SUFFICES ASSUME ~interrupted', ~closed'
               PROVE  /\ Len(InFlight') <= Len(order')
                      /\ \A i \in 1 .. Len(order') - Len(InFlight') :
                           promise'[order'[i]] # None
                      /\ \A i \in 1 .. Len(InFlight') :
                           /\ order'[Len(order') - Len(InFlight') + i] = InFlight'[i].id
                           /\ InFlight'[i].id \in operations'
    BY DEF OrderKept
  <2> DEFINE o == Head(batch).id
             m == Len(order) - Len(InFlight)
  <2>1. /\ batch # <<>> /\ order' = order /\ queued' = queued
        /\ ~interrupted /\ ~closed
    BY <1>5 DEF DrainEvent, historyVars
  <2>2. /\ Len(InFlight) <= Len(order)
        /\ \A i \in 1 .. m : promise[order[i]] # None
        /\ \A i \in 1 .. Len(InFlight) :
             order[m + i] = InFlight[i].id /\ InFlight[i].id \in operations
    BY <2>1 DEF OrderKept
  <2>3. /\ Len(batch) \in Nat \ {0} /\ Len(queued) \in Nat
        /\ batch[1] = Head(batch) /\ Tail(batch) \in Seq(Event)
    BY <2>1, PromiseTypes, PopEvent
  <2>4. InFlight[1].id = o /\ 1 \in 1 .. Len(InFlight) /\ o \in operations
    BY <2>2, <2>3, OrderTypes
  <2>5. /\ winner[o] # None /\ o \in Ops
        /\ operations' = operations \ {o}
        /\ promise' = [promise EXCEPT ![o] = winner[o]]
        /\ batch' = Tail(batch)
    BY <1>5, <2>1, <2>4, DrainEffect
  <2>6. InFlight' = Tail(InFlight)
    BY <2>1, <2>3, <2>5, PromiseTypes DEF InFlight
  <2>7. /\ Len(InFlight') = Len(InFlight) - 1
        /\ \A i \in 1 .. Len(InFlight') : InFlight'[i] = InFlight[i + 1]
    BY <2>4, <2>6, OrderTypes, PopEvent
  <2>8. \A i \in 2 .. Len(InFlight) : InFlight[i].id # o
    <3> SUFFICES ASSUME NEW i \in 2 .. Len(InFlight), InFlight[i].id = o
                 PROVE  FALSE
      OBVIOUS
    <3>1. CASE i \in 1 .. Len(batch)
      <4>1. batch[i].id = batch[1].id /\ 1 \in 1 .. Len(batch)
        BY <2>3, <3>1, OrderTypes
      <4> QED BY <3>1, <4>1 DEF PromiseInv, EventsOnce, Once
    <3>2. CASE i \notin 1 .. Len(batch)
      <4> DEFINE k == i - Len(batch)
      <4>1. k \in 1 .. Len(queued) /\ i = Len(batch) + k
        BY <2>3, <3>2, OrderTypes
      <4> HIDE DEF k
      <4>2. queued[k].id = o
        BY <4>1, OrderTypes
      <4>3. Has(queued, o) /\ Has(batch, o)
        BY <2>3, <4>1, <4>2 DEF Has
      <4> QED BY <2>5, <4>3 DEF PromiseInv, EventsOnce
    <3> QED BY <3>1, <3>2
  <2> HIDE DEF o
  <2>9. Len(InFlight') <= Len(order') /\ Len(order') - Len(InFlight') = m + 1
        /\ m \in Nat /\ Len(InFlight) \in Nat
    BY <2>1, <2>2, <2>7, OrderTypes
  <2>10. ASSUME NEW i \in 1 .. m + 1
         PROVE  promise'[order'[i]] # None
    <3>1. i \in 1 .. Len(order) /\ order[i] \in Ops
      <4>1. i \in 1 .. Len(order)
        BY <2>2, <2>4, <2>9, OrderTypes
      <4> QED BY <4>1, OrderTypes
    <3>2. promise \in [Ops -> Outcomes \cup {None}]
      BY PromiseTypes
    <3>3. CASE i = m + 1
      <4>1. order[i] = o
        BY <2>2, <2>4, <3>3
      <4> QED BY <2>1, <2>5, <3>2, <4>1
    <3>4. CASE i # m + 1
      <4>1. i \in 1 .. m
        BY <2>9, <3>4
      <4> QED BY <2>1, <2>2, <2>5, <3>1, <3>2, <4>1
    <3> QED BY <3>3, <3>4
  <2>11. ASSUME NEW i \in 1 .. Len(InFlight')
         PROVE  /\ order'[m + 1 + i] = InFlight'[i].id
                /\ InFlight'[i].id \in operations'
    <3>1. i + 1 \in 2 .. Len(InFlight) /\ m + (i + 1) = m + 1 + i
      BY <2>7, <2>9
    <3>2. InFlight'[i] = InFlight[i + 1]
      BY <2>7
    <3>3. order[m + (i + 1)] = InFlight[i + 1].id /\ InFlight[i + 1].id \in operations
      BY <2>2, <2>9, <3>1
    <3>4. InFlight[i + 1].id # o
      BY <2>8, <3>1
    <3> QED BY <2>1, <2>5, <3>1, <3>2, <3>3, <3>4
  <2> HIDE DEF m
  <2> QED BY <2>9, <2>10, <2>11
<1>6. CASE CloseSnapshot
  BY <1>6 DEF CloseSnapshot, OrderKept
<1>7. CASE (\E o \in Ops : CloseRecord(o)) \/ CloseEnd
  <2>1. closed /\ closed' = closed
    BY <1>7 DEF CloseRecord, CloseEnd, sharedVars, PromiseInv, HeldInv, ClosedIsFinal
  <2> QED BY <2>1 DEF OrderKept
<1>8. CASE Quiet
  <2>1. /\ UNCHANGED <<operations, queued, batch, closed, promise, order>>
        /\ interrupted => interrupted'
    BY <1>8 DEF Quiet
  <2> QED BY <2>1 DEF OrderKept, InFlight
<1> QED
  BY <1>1, <1>2, <1>3, <1>4, <1>5, <1>6, <1>7, <1>8, StepCases

LEMMA OrderInvariant == Spec => [](PromiseInv /\ OrderKept)
<1>1. Init => OrderKept
  BY DEF Init, OrderKept, InFlight
<1>2. PromiseInv /\ OrderKept /\ [Next]_vars => OrderKept'
  BY OrderStep
<1> QED
  BY <1>1, <1>2, PromiseInvariant, PTL DEF Spec

\* Promises are settled in the order in which the gate accepted their events, as
\* long as the session is neither closing nor poisoned: SettledInOrder of the run
\* host_async, for any number of operations and workers.
THEOREM SettlesInOrder == Spec => []SettledInOrder
<1>1. PromiseInv /\ OrderKept => SettledInOrder
  <2> SUFFICES ASSUME PromiseInv, OrderKept, ~interrupted,
                      owner \notin {"releasing", "closed"},
                      NEW i \in DOMAIN order, NEW j \in DOMAIN order,
                      i < j, promise[order[j]] # None
               PROVE  promise[order[i]] # None
    BY DEF SettledInOrder, Settled
  <2> DEFINE m == Len(order) - Len(InFlight)
  <2>1. ~closed
    BY DEF PromiseInv, HeldInv, ClosedIsFinal
  <2>2. /\ Len(InFlight) <= Len(order)
        /\ \A k \in 1 .. m : promise[order[k]] # None
        /\ \A k \in 1 .. Len(InFlight) :
             order[m + k] = InFlight[k].id /\ InFlight[k].id \in operations
    BY <2>1 DEF OrderKept
  <2>3. i \in 1 .. Len(order) /\ j \in 1 .. Len(order)
        /\ Len(order) \in Nat /\ Len(InFlight) \in Nat
    BY OrderTypes
  <2>4. j <= m
    <3> SUFFICES ASSUME ~(j <= m)
                 PROVE  FALSE
      OBVIOUS
    <3>1. j - m \in 1 .. Len(InFlight) /\ m + (j - m) = j
      BY <2>3
    <3>2. order[j] \in operations
      BY <2>2, <3>1
    <3> QED BY <3>2 DEF PromiseInv, HeldUnsettled
  <2>5. i \in 1 .. m
    BY <2>3, <2>4
  <2> QED BY <2>2, <2>5
<1> QED
  BY <1>1, OrderInvariant, PTL
=============================================================================
