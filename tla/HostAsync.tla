------------------------------ MODULE HostAsync ------------------------------
(***************************************************************************)
(* The host async boundary of a RuntimeSession (src/runtime_host_async.v): *)
(* the owner lane starts operations, worker threads submit completions     *)
(* through their ports, and only the owner settles the Promises.           *)
(*                                                                         *)
(* Every code section that holds state.guard is one action.  What a        *)
(* thread does between two such sections (marking the cancel token,        *)
(* calling ready_fn, the settle loop of the owner) is an action of its     *)
(* own, so other threads interleave there.  The text and bytes of a        *)
(* completion are left out: an event is its operation and its outcome.     *)
(***************************************************************************)
EXTENDS Integers, Sequences, FiniteSets

CONSTANTS
  MaxOps,       \* bound: operations started in one behaviour
  Workers,      \* background threads, each may hold every port
  Owner,        \* the thread that owns the session lane
  None          \* no terminal event, no thread activity

ASSUME HostAsyncAssumption ==
  /\ MaxOps \in Nat
  /\ Owner \notin Workers

Ops == 1 .. MaxOps
Threads == Workers \cup {Owner}

\* RuntimeHostAsyncOutcome.  Submitted is what a port offers; timed_out and
\* cancelled (and closed, at close) also mark the worker's cancel token.
Submitted == {"resolve", "reject", "cancelled", "timed_out"}
Outcomes == Submitted \cup {"closed"}
Cancelling == Outcomes \ {"resolve", "reject"}

ASSUME NoneAssumption == None \notin Outcomes

Event == [id : Ops, outcome : Outcomes]
OwnerSteps == {"idle", "starting", "swap", "settling", "closing", "releasing", "closed"}

VARIABLES
  nextId,       \* state.next_id
  operations,   \* keys of state.operations
  terminal,     \* keys of state.terminal
  queued,       \* state.queued
  closed,       \* state.closed
  timed,        \* operations started with a deadline
  due,          \* those whose deadline_ms has passed
  token,        \* cancel token of each operation: cancelled?
  ports,        \* operations whose completion port was handed out
  owner,        \* where the owner is
  batch,        \* events the owner swapped out, in a drain or in close
  records,      \* records the owner took out of the map in close
  task,         \* what each thread still has to do for its last submit
  notified,     \* the host was told to call deliver_wakeup(0)
  interrupted,  \* the runtime is poisoned: every ctx.call fails
  promise,      \* what each Promise was settled with
  released,     \* how often each resolve/reject pair was freed
  winner,       \* history: the terminal event the gate accepted
  order         \* history: operations in the order the gate accepted them

sharedVars == <<nextId, operations, terminal, queued, closed>>
deadlineVars == <<timed, due>>
historyVars == <<winner, order>>
vars == <<sharedVars, deadlineVars, token, ports, owner, batch, records, task,
          notified, interrupted, promise, released, historyVars>>

Init ==
  /\ nextId = 1
  /\ operations = {}
  /\ terminal = {}
  /\ queued = <<>>
  /\ closed = FALSE
  /\ timed = {}
  /\ due = {}
  /\ token = [o \in Ops |-> FALSE]
  /\ ports = {}
  /\ owner = "idle"
  /\ batch = <<>>
  /\ records = {}
  /\ task = [t \in Threads |-> None]
  /\ notified = FALSE
  /\ interrupted = FALSE
  /\ promise = [o \in Ops |-> None]
  /\ released = [o \in Ops |-> 0]
  /\ winner = [o \in Ops |-> None]
  /\ order = <<>>

-----------------------------------------------------------------------------
(* Environment: time and the interrupt flag. *)

DeadlinePasses(o) ==
  /\ o \in timed \ due
  /\ due' = due \cup {o}
  /\ UNCHANGED <<sharedVars, timed, token, ports, owner, batch, records, task,
                 notified, interrupted, promise, released, historyVars>>

\* session.cancel() from any thread, or a deadline met inside a turn: sticky.
Interrupt ==
  /\ ~interrupted
  /\ interrupted' = TRUE
  /\ UNCHANGED <<sharedVars, deadlineVars, token, ports, owner, batch, records,
                 task, notified, promise, released, historyVars>>

-----------------------------------------------------------------------------
(* Starting an operation: the record is registered under the lock, then    *)
(* the cancel closure is built by a call into JS that fails on a poisoned   *)
(* runtime and leaves the record behind without anybody holding its port.  *)

OwnerFree == owner = "idle" /\ task[Owner] = None

StartRegister(hasDeadline) ==
  /\ OwnerFree
  /\ nextId \in Ops
  /\ ~closed /\ ~interrupted
  /\ operations' = operations \cup {nextId}
  /\ nextId' = nextId + 1
  /\ timed' = IF hasDeadline THEN timed \cup {nextId} ELSE timed
  /\ owner' = "starting"
  /\ UNCHANGED <<terminal, queued, closed, due, token, ports, batch, records,
                 task, notified, interrupted, promise, released, historyVars>>

StartReturn ==
  /\ owner = "starting"
  /\ owner' = "idle"
  /\ ports' = IF interrupted THEN ports ELSE ports \cup {nextId - 1}
  /\ UNCHANGED <<sharedVars, deadlineVars, token, batch, records, task,
                 notified, interrupted, promise, released, historyVars>>

-----------------------------------------------------------------------------
(* RuntimeHostAsyncCompletionPort.submit.  A refused submit returns false  *)
(* and changes nothing: it is a stuttering step.                           *)

\* Mutant of GateOpen: the check of state.terminal is missing.
GateWithoutTerminal(o) == ~closed /\ o \in operations

\* Mutant of GateOpen: only the terminal mark is looked at.
GateOnlyTerminal(o) == o \notin terminal

GateOpen(o) == ~closed /\ o \in operations /\ o \notin terminal

SubmitGate(t, o, outcome) ==
  /\ o \in ports
  /\ task[t] = None
  /\ t = Owner => owner = "idle" /\ outcome = "cancelled"
  /\ GateOpen(o)
  /\ terminal' = terminal \cup {o}
  /\ queued' = Append(queued, [id |-> o, outcome |-> outcome])
  /\ task' = [task EXCEPT ![t] =
       [op |-> o, step |-> IF outcome \in Cancelling THEN "mark" ELSE "notify"]]
  /\ winner' = [winner EXCEPT ![o] = outcome]
  /\ order' = Append(order, o)
  /\ UNCHANGED <<nextId, operations, closed, deadlineVars, token, ports, owner,
                 batch, records, notified, interrupted, promise, released>>

SubmitMark(t) ==
  /\ task[t] # None /\ task[t].step = "mark"
  /\ token' = [token EXCEPT ![task[t].op] = TRUE]
  /\ task' = [task EXCEPT ![t].step = "notify"]
  /\ UNCHANGED <<sharedVars, deadlineVars, ports, owner, batch, records,
                 notified, interrupted, promise, released, historyVars>>

SubmitNotify(t) ==
  /\ task[t] # None /\ task[t].step = "notify"
  /\ notified' = TRUE
  /\ task' = [task EXCEPT ![t] = None]
  /\ UNCHANGED <<sharedVars, deadlineVars, token, ports, owner, batch, records,
                 interrupted, promise, released, historyVars>>

-----------------------------------------------------------------------------
(* enqueue_due_host_async_timeouts: one locked sweep that accepts a timeout *)
(* for every overdue operation without a terminal event, in map order.     *)

\* Mutant of Overdue: the sweep does not look at state.terminal.
OverdueOrTerminal == operations \cap due

Overdue == (operations \cap due) \ terminal

Enumerations(S) ==
  {f \in [1 .. Cardinality(S) -> S] : \A x \in S : \E i \in DOMAIN f : f[i] = x}

\* Mutant of EnqueueDueTimeouts: timeouts jump the queue.
EnqueueDueTimeoutsFirst ==
  /\ \E f \in Enumerations(Overdue) :
       /\ queued' = [i \in DOMAIN f |-> [id |-> f[i], outcome |-> "timed_out"]] \o queued
       /\ order' = order \o f
  /\ terminal' = terminal \cup Overdue
  /\ token' = [o \in Ops |-> token[o] \/ o \in Overdue]
  /\ winner' = [o \in Ops |-> IF o \in Overdue THEN "timed_out" ELSE winner[o]]

EnqueueDueTimeouts ==
  /\ \E f \in Enumerations(Overdue) :
       /\ queued' = queued \o [i \in DOMAIN f |-> [id |-> f[i], outcome |-> "timed_out"]]
       /\ order' = order \o f
  /\ terminal' = terminal \cup Overdue
  /\ token' = [o \in Ops |-> token[o] \/ o \in Overdue]
  /\ winner' = [o \in Ops |-> IF o \in Overdue THEN "timed_out" ELSE winner[o]]

-----------------------------------------------------------------------------
(* drain_host_async_events: sweep, swap the queue out, settle one by one.  *)

DrainBegin ==
  /\ OwnerFree /\ ~closed
  /\ EnqueueDueTimeouts
  /\ notified' = FALSE
  /\ owner' = "swap"
  /\ UNCHANGED <<nextId, operations, closed, deadlineVars, ports, batch,
                 records, task, interrupted, promise, released>>

DrainSwap ==
  /\ owner = "swap"
  /\ batch' = queued
  /\ queued' = <<>>
  /\ owner' = "settling"
  /\ UNCHANGED <<nextId, operations, terminal, closed, deadlineVars, token,
                 ports, records, task, notified, interrupted, promise,
                 released, historyVars>>

\* Mutant of SettleRecord: the failing path returns without freeing the pair.
SettleRecordLeaks(o, outcome) ==
  /\ promise' = IF interrupted THEN promise ELSE [promise EXCEPT ![o] = outcome]
  /\ released' = IF interrupted THEN released ELSE [released EXCEPT ![o] = @ + 1]

\* settle_context_host_async_record: the Promise is settled unless the call
\* fails, and the resolve/reject pair is freed on both paths.
SettleRecord(o, outcome) ==
  /\ promise' = IF interrupted THEN promise ELSE [promise EXCEPT ![o] = outcome]
  /\ released' = [released EXCEPT ![o] = @ + 1]

\* One round of the loop.  A failing settlement leaves the loop through the
\* `!` and with it every event that was swapped out and not reached yet.
DrainEvent ==
  /\ owner = "settling" /\ batch # <<>>
  /\ LET event == Head(batch)
     IN  IF event.id \in operations
         THEN /\ operations' = operations \ {event.id}
              /\ terminal' = terminal \ {event.id}
              /\ SettleRecord(event.id, event.outcome)
              /\ batch' = IF interrupted THEN <<>> ELSE Tail(batch)
              /\ owner' = IF interrupted THEN "idle" ELSE owner
         ELSE /\ batch' = Tail(batch)
              /\ UNCHANGED <<operations, terminal, owner, promise, released>>
  /\ UNCHANGED <<nextId, queued, closed, deadlineVars, token, ports, records,
                 task, notified, interrupted, historyVars>>

\* Mutant of DrainEnd: a notification that arrived during the drain is cleared.
DrainEndForgets ==
  /\ owner = "settling" /\ batch = <<>>
  /\ owner' = "idle"
  /\ notified' = FALSE
  /\ UNCHANGED <<sharedVars, deadlineVars, token, ports, batch, records, task,
                 interrupted, promise, released, historyVars>>

DrainEnd ==
  /\ owner = "settling" /\ batch = <<>>
  /\ owner' = "idle"
  /\ UNCHANGED <<sharedVars, deadlineVars, token, ports, batch, records, task,
                 notified, interrupted, promise, released, historyVars>>

-----------------------------------------------------------------------------
(* close_host_async_operations: sweep, take everything out of the maps     *)
(* under the lock, then settle each record with its queued completion or   *)
(* with `closed`.                                                          *)

CloseBegin ==
  /\ OwnerFree /\ ~closed
  /\ EnqueueDueTimeouts
  /\ owner' = "closing"
  /\ UNCHANGED <<nextId, operations, closed, deadlineVars, ports, batch,
                 records, task, notified, interrupted, promise, released>>

\* Mutant of CloseSnapshot: operations that are already terminal are skipped.
CloseSnapshotSkips ==
  /\ owner = "closing"
  /\ closed' = TRUE
  /\ records' = operations \ terminal
  /\ batch' = queued
  /\ operations' = {}
  /\ queued' = <<>>
  /\ terminal' = {}
  /\ owner' = "releasing"
  /\ UNCHANGED <<nextId, deadlineVars, token, ports, task, notified,
                 interrupted, promise, released, historyVars>>

CloseSnapshot ==
  /\ owner = "closing"
  /\ closed' = TRUE
  /\ records' = operations
  /\ batch' = queued
  /\ operations' = {}
  /\ queued' = <<>>
  /\ terminal' = {}
  /\ owner' = "releasing"
  /\ UNCHANGED <<nextId, deadlineVars, token, ports, task, notified,
                 interrupted, promise, released, historyVars>>

\* Mutant of TerminalEvents: the queued completions are not consulted.
NoTerminalEvents(o) == {i \in DOMAIN batch : FALSE}

\* terminal_events[o]: the queued event of an operation, if there is one.
TerminalEvents(o) == {i \in DOMAIN batch : batch[i].id = o}

CloseRecord(o) ==
  /\ owner = "releasing" /\ o \in records
  /\ records' = records \ {o}
  /\ IF TerminalEvents(o) # {}
     THEN /\ \E i \in TerminalEvents(o) : SettleRecord(o, batch[i].outcome)
          /\ UNCHANGED <<token, historyVars>>
     ELSE /\ SettleRecord(o, "closed")
          /\ token' = [token EXCEPT ![o] = TRUE]
          /\ winner' = [winner EXCEPT ![o] = IF @ = None THEN "closed" ELSE @]
          /\ UNCHANGED order
  /\ UNCHANGED <<sharedVars, deadlineVars, ports, owner, batch, task, notified,
                 interrupted>>

CloseEnd ==
  /\ owner = "releasing" /\ records = {}
  /\ owner' = "closed"
  /\ batch' = <<>>
  /\ UNCHANGED <<sharedVars, deadlineVars, token, ports, records, task,
                 notified, interrupted, promise, released, historyVars>>

-----------------------------------------------------------------------------
OwnerStep ==
  \/ StartReturn \/ DrainSwap \/ DrainEvent \/ DrainEnd
  \/ CloseSnapshot \/ (\E o \in Ops : CloseRecord(o)) \/ CloseEnd

ThreadStep(t) == SubmitMark(t) \/ SubmitNotify(t)

Next ==
  \/ \E o \in Ops : DeadlinePasses(o)
  \/ Interrupt
  \/ \E hasDeadline \in BOOLEAN : StartRegister(hasDeadline)
  \/ \E t \in Threads, o \in Ops, outcome \in Submitted : SubmitGate(t, o, outcome)
  \/ \E t \in Threads : ThreadStep(t)
  \/ DrainBegin
  \/ CloseBegin
  \/ OwnerStep

\* The host honours async_ready_fn and the deadline wakeup: it delivers as
\* long as there is something to deliver.  Threads finish the call they are
\* in.  Nobody is obliged to submit, to interrupt or to close.
HostDelivers == (notified \/ Overdue # {}) /\ DrainBegin

Fairness ==
  /\ WF_vars(OwnerStep)
  /\ WF_vars(HostDelivers)
  /\ \A t \in Threads : WF_vars(ThreadStep(t))

Spec == Init /\ [][Next]_vars
FairSpec == Spec /\ Fairness

-----------------------------------------------------------------------------
Started == 1 .. nextId - 1
Settled(o) == promise[o] # None

TypeOK ==
  /\ nextId \in 1 .. MaxOps + 1
  /\ operations \subseteq Ops
  /\ terminal \subseteq Ops
  /\ queued \in Seq(Event)
  /\ closed \in BOOLEAN
  /\ timed \subseteq Ops /\ due \subseteq timed
  /\ token \in [Ops -> BOOLEAN]
  /\ ports \subseteq Ops
  /\ owner \in OwnerSteps
  /\ batch \in Seq(Event)
  /\ records \subseteq Ops
  /\ task \in [Threads -> {None} \cup [op : Ops, step : {"mark", "notify"}]]
  /\ notified \in BOOLEAN
  /\ interrupted \in BOOLEAN
  /\ promise \in [Ops -> Outcomes \cup {None}]
  /\ released \in [Ops -> Nat]
  /\ winner \in [Ops -> Outcomes \cup {None}]
  /\ order \in Seq(Ops)

\* The resolve/reject pair of a started operation is in exactly one place:
\* still in the map, taken out by close, or freed once.  Two frees or a pair
\* nobody holds would corrupt or leak QuickJS values, on the failing paths
\* too (runtime_host_async.v:353-362,388,414-434).
CapabilityHeldOnce ==
  \A o \in Ops :
    IF o \in Started
    THEN \/ o \in operations /\ o \notin records /\ released[o] = 0
         \/ o \notin operations /\ o \in records /\ released[o] = 0
         \/ o \notin operations /\ o \notin records /\ released[o] = 1
    ELSE o \notin operations /\ o \notin records /\ released[o] = 0

InFlight == batch \o queued

\* An accepted completion is never lost: until the Promise is settled its
\* event is in the queue or in the owner's hands, with the outcome the gate
\* accepted, and there is exactly one.  Only a poisoned runtime may drop the
\* rest of a batch (runtime_host_async.v:143-147,378-393,414-432).
AcceptedStaysQueued ==
  ~interrupted =>
    \A o \in Ops :
      winner[o] # None /\ ~Settled(o) =>
        \E i \in DOMAIN InFlight :
          /\ InFlight[i] = [id |-> o, outcome |-> winner[o]]
          /\ \A j \in DOMAIN InFlight : InFlight[j].id = o => j = i

\* Promises are settled in the order in which their terminal events were
\* accepted, as long as the session is neither closing nor poisoned: the swap
\* and the sweep keep the queue's order (runtime_host_async.v:317,378-393).
SettledInOrder ==
  ~interrupted /\ owner \notin {"releasing", "closed"} =>
    \A i, j \in DOMAIN order : i < j /\ Settled(order[j]) => Settled(order[i])

\* A worker's token is cancelled only when cancellation, timeout or close won
\* the operation (the comment at runtime_host_async.v:50-51), if the runtime
\* is not poisoned.
TokenTellsTheWinner ==
  \A o \in Ops : token[o] /\ ~interrupted => winner[o] \in Cancelling

\* GUARANTEES.md, Async Host Boundary: "An operation with no earlier terminal
\* event is rejected and its cancellation token is marked cancelled; an already
\* queued completion keeps its winning outcome."  Read without exception for a
\* poisoned session.
QueuedCompletionKeepsOutcome ==
  \A o \in Ops : token[o] => winner[o] \in Cancelling

\* Closing releases every pending capability, whatever the interleaving with
\* late submits, and settles every Promise of a runtime that can still run
\* (GUARANTEES.md, Async Host Boundary).
CloseReleasesEverything ==
  owner = "closed" =>
    \A o \in Started : released[o] = 1 /\ (~interrupted => Settled(o))

\* Of all terminal events exactly one is accepted and settles the Promise.
Promised == INSTANCE FirstTerminal WITH winner <- winner, promise <- promise
FirstTerminalWins == Promised!Spec

\* After close no submit is accepted: no port reaches the queue of a session
\* whose context is gone (runtime_host_async.v:139).
NothingAfterClose ==
  [][closed => /\ queued' = queued /\ operations' = operations /\ closed']_vars

\* A worker that wins, a cancel or a timeout that wins: the Promise is settled
\* in the end, although the owner may be draining or sweeping while the worker
\* is between its unlock and its ready_fn call.
AcceptedIsSettled ==
  \A o \in Ops : winner[o] # None ~> Settled(o) \/ interrupted
=============================================================================
