--------------------------- MODULE HostAsyncProofs ---------------------------
(***************************************************************************)
(* Proofs about HostAsync, for any number of operations and any set of     *)
(* workers: types, the Promise capabilities, the refusal after close, and  *)
(* that HostAsync implements FirstTerminal.                                *)
(***************************************************************************)
EXTENDS HostAsync, FiniteSetTheorems, SequenceTheorems, TLAPS

-----------------------------------------------------------------------------
(* The sweep is the only step that enqueues more than one event.           *)

\* The overdue operations can be enumerated by a sequence of Ops.
LEMMA EnumerationIsSequence ==
  ASSUME NEW f \in Enumerations(Overdue), operations \subseteq Ops
  PROVE  /\ f \in Seq(Overdue) /\ f \in Seq(Ops) /\ Len(f) \in Nat
         /\ \A i, j \in 1 .. Len(f) : f[i] = f[j] => i = j
<1>1. IsFiniteSet(Overdue)
  <2>1. IsFiniteSet(1 .. MaxOps)
    BY HostAsyncAssumption, FS_Interval
  <2>2. Overdue \in SUBSET (1 .. MaxOps)
    BY DEF Overdue, Ops
  <2> QED
    BY <2>1, <2>2, FS_Subset
<1>2. Cardinality(Overdue) \in Nat
  BY <1>1, FS_CardinalityType
<1>3. f \in [1 .. Cardinality(Overdue) -> Overdue]
  BY DEF Enumerations
<1>4. f \in Seq(Overdue)
  BY <1>2, <1>3
<1>5. Overdue \subseteq Ops
  BY DEF Overdue
<1>6. f \in [1 .. Cardinality(Overdue) -> Ops]
  BY <1>3, <1>5
<1>7. Cardinality(1 .. Cardinality(Overdue)) = Cardinality(Overdue)
  BY <1>2, FS_Interval
<1>8. f \in Surjection(1 .. Cardinality(Overdue), Overdue)
  BY <1>3 DEF Enumerations, Surjection
<1>9. f \in Injection(1 .. Cardinality(Overdue), Overdue)
  <2>1. IsFiniteSet(1 .. Cardinality(Overdue))
    BY <1>2, FS_Interval
  <2> QED
    BY <1>7, <1>8, <2>1, FS_SurjSameCardinalityImpliesInj
<1>10. \A i, j \in 1 .. Cardinality(Overdue) : f[i] = f[j] => i = j
  BY <1>3, <1>9 DEF Injection, IsInjective
<1> QED
  BY <1>2, <1>3, <1>4, <1>6, <1>10

\* What the sweep does to the queue: the old events stay where they are, and
\* behind them comes one timed_out event for each overdue operation.
LEMMA SweepQueue ==
  ASSUME operations \subseteq Ops, queued \in Seq(Event), order \in Seq(Ops),
         EnqueueDueTimeouts
  PROVE  /\ queued' \in Seq(Event)
         /\ order' \in Seq(Ops)
         /\ Len(queued') >= Len(queued)
         /\ \A i \in 1 .. Len(queued) : queued'[i] = queued[i]
         /\ \A i \in Len(queued) + 1 .. Len(queued') :
              queued'[i].id \in Overdue /\ queued'[i].outcome = "timed_out"
         /\ \A o \in Overdue : \E i \in 1 .. Len(queued') : queued'[i].id = o
         /\ \A i, j \in Len(queued) + 1 .. Len(queued') :
              queued'[i].id = queued'[j].id => i = j
<1>1. PICK f \in Enumerations(Overdue) :
        /\ queued' = queued \o [i \in DOMAIN f |-> [id |-> f[i], outcome |-> "timed_out"]]
        /\ order' = order \o f
  BY DEF EnqueueDueTimeouts
<1>2. /\ f \in Seq(Overdue) /\ f \in Seq(Ops) /\ Len(f) \in Nat
      /\ \A i, j \in 1 .. Len(f) : f[i] = f[j] => i = j
  BY EnumerationIsSequence
<1> DEFINE tail == [i \in DOMAIN f |-> [id |-> f[i], outcome |-> "timed_out"]]
<1>3. DOMAIN f = 1 .. Len(f) /\ \A i \in 1 .. Len(f) : f[i] \in Overdue /\ f[i] \in Ops
  BY <1>2
<1>4. /\ tail \in Seq(Event) /\ Len(tail) = Len(f)
      /\ \A i \in 1 .. Len(f) : tail[i] = [id |-> f[i], outcome |-> "timed_out"]
  <2>1. \A i \in 1 .. Len(f) : [id |-> f[i], outcome |-> "timed_out"] \in Event
    BY <1>3 DEF Event, Outcomes, Submitted
  <2>2. tail \in [1 .. Len(f) -> Event]
    BY <1>3, <2>1
  <2> QED
    BY <1>2, <1>3, <2>2
<1>5. \A o \in Overdue : \E i \in 1 .. Len(f) : f[i] = o
  BY <1>3 DEF Enumerations
<1>6. queued' = queued \o tail
  BY <1>1
<1> HIDE DEF tail
<1>7. queued' \in Seq(Event) /\ Len(queued') = Len(queued) + Len(f)
  <2>1. /\ queued \o tail \in Seq(Event)
        /\ Len(queued \o tail) = Len(queued) + Len(tail)
    BY <1>4, ConcatProperties
  <2> QED
    BY <2>1, <1>4, <1>6
<1>8. \A i \in 1 .. Len(queued) : queued'[i] = queued[i]
  BY <1>4, <1>6, ConcatProperties
<1>9. \A i \in 1 .. Len(f) : queued'[Len(queued) + i] = tail[i]
  <2> SUFFICES ASSUME NEW i \in 1 .. Len(f)
               PROVE  (queued \o tail)[Len(queued) + i] = tail[i]
    BY <1>6
  <2>1. Len(queued) + i \in 1 .. Len(queued) + Len(tail)
    BY <1>2, <1>4
  <2>2. ~(Len(queued) + i <= Len(queued)) /\ (Len(queued) + i) - Len(queued) = i
    BY <1>2
  <2> QED
    BY <1>4, <2>1, <2>2, ConcatProperties
<1>10. order' \in Seq(Ops)
  BY <1>1, <1>2
<1>11. \A i \in Len(queued) + 1 .. Len(queued') :
         queued'[i].id \in Overdue /\ queued'[i].outcome = "timed_out"
  <2> SUFFICES ASSUME NEW i \in Len(queued) + 1 .. Len(queued')
               PROVE  queued'[i].id \in Overdue /\ queued'[i].outcome = "timed_out"
    OBVIOUS
  <2> DEFINE j == i - Len(queued)
  <2>1. j \in 1 .. Len(f) /\ i = Len(queued) + j
    BY <1>2, <1>7
  <2>2. queued'[i] = [id |-> f[j], outcome |-> "timed_out"]
    BY <2>1, <1>4, <1>9
  <2> HIDE DEF j
  <2> QED
    BY <2>1, <2>2, <1>3
<1>12. \A o \in Overdue : \E i \in 1 .. Len(queued') : queued'[i].id = o
  <2> SUFFICES ASSUME NEW o \in Overdue
               PROVE  \E i \in 1 .. Len(queued') : queued'[i].id = o
    OBVIOUS
  <2>1. PICK j \in 1 .. Len(f) : f[j] = o
    BY <1>5
  <2>2. Len(queued) + j \in 1 .. Len(queued')
    BY <1>2, <1>7
  <2>3. queued'[Len(queued) + j] = [id |-> o, outcome |-> "timed_out"]
    BY <2>1, <1>4, <1>9
  <2> QED
    BY <2>2, <2>3
<1>13. \A i, j \in Len(queued) + 1 .. Len(queued') :
         queued'[i].id = queued'[j].id => i = j
  <2> SUFFICES ASSUME NEW i \in Len(queued) + 1 .. Len(queued'),
                      NEW j \in Len(queued) + 1 .. Len(queued'),
                      queued'[i].id = queued'[j].id
               PROVE  i = j
    OBVIOUS
  <2> DEFINE m == i - Len(queued)
             n == j - Len(queued)
  <2>1. /\ m \in 1 .. Len(f) /\ i = Len(queued) + m
        /\ n \in 1 .. Len(f) /\ j = Len(queued) + n
    BY <1>2, <1>7
  <2>2. /\ queued'[i] = [id |-> f[m], outcome |-> "timed_out"]
        /\ queued'[j] = [id |-> f[n], outcome |-> "timed_out"]
    BY <2>1, <1>4, <1>9
  <2> HIDE DEF m, n
  <2>3. f[m] = f[n]
    BY <2>2
  <2> QED
    BY <2>1, <2>3, <1>2
<1> QED
  BY <1>2, <1>7, <1>8, <1>10, <1>11, <1>12, <1>13

-----------------------------------------------------------------------------
(* Types. *)

\* The outcome of an operation of the owner or of a worker is never None.
LEMMA OutcomeFacts ==
  /\ Submitted \subseteq Outcomes
  /\ "closed" \in Outcomes /\ "timed_out" \in Outcomes
  /\ \A outcome \in Outcomes : outcome # None
BY NoneAssumption DEF Outcomes, Submitted

\* One operation appended to a queue.
LEMMA PushEvent ==
  ASSUME NEW s \in Seq(Event), NEW o \in Ops, NEW outcome \in Outcomes
  PROVE  LET t == Append(s, [id |-> o, outcome |-> outcome])
         IN  /\ t \in Seq(Event)
             /\ Len(t) = Len(s) + 1
             /\ \A i \in 1 .. Len(s) : t[i] = s[i]
             /\ t[Len(s) + 1] = [id |-> o, outcome |-> outcome]
<1>1. [id |-> o, outcome |-> outcome] \in Event
  BY DEF Event
<1> QED
  BY <1>1, AppendProperties

\* A non-empty queue without its head.
LEMMA PopEvent ==
  ASSUME NEW s \in Seq(Event), s # <<>>
  PROVE  /\ Head(s) \in Event
         /\ Tail(s) \in Seq(Event)
         /\ Len(s) \in Nat /\ Len(s) > 0
         /\ Len(Tail(s)) = Len(s) - 1
         /\ s[1] = Head(s)
         /\ \A i \in 1 .. Len(s) - 1 : Tail(s)[i] = s[i + 1]
BY HeadTailProperties

\* Every field of an event has its type.
LEMMA EventFields ==
  ASSUME NEW e \in Event
  PROVE  e.id \in Ops /\ e.outcome \in Outcomes
BY DEF Event

\* The sweep keeps the types of what it changes.
LEMMA SweepTypes ==
  ASSUME TypeOK, EnqueueDueTimeouts
  PROVE  /\ queued' \in Seq(Event) /\ order' \in Seq(Ops)
         /\ terminal' \subseteq Ops
         /\ token' \in [Ops -> BOOLEAN]
         /\ winner' \in [Ops -> Outcomes \cup {None}]
<1>1. operations \subseteq Ops /\ queued \in Seq(Event) /\ order \in Seq(Ops)
  BY DEF TypeOK
<1>2. queued' \in Seq(Event) /\ order' \in Seq(Ops)
  BY <1>1, SweepQueue
<1>3. Overdue \subseteq Ops
  BY <1>1 DEF Overdue
<1>4. terminal' \subseteq Ops
  BY <1>3 DEF TypeOK, EnqueueDueTimeouts
<1>5. token' \in [Ops -> BOOLEAN]
  BY DEF EnqueueDueTimeouts
<1>6. winner' \in [Ops -> Outcomes \cup {None}]
  BY OutcomeFacts DEF TypeOK, EnqueueDueTimeouts
<1> QED
  BY <1>2, <1>4, <1>5, <1>6

\* Settling keeps the types of the Promise and of the counter.
LEMMA SettleTypes ==
  ASSUME TypeOK, NEW o \in Ops, NEW outcome \in Outcomes, SettleRecord(o, outcome)
  PROVE  /\ promise' \in [Ops -> Outcomes \cup {None}]
         /\ released' \in [Ops -> Nat]
BY DEF TypeOK, SettleRecord

\* An operation that is being started has its number already.  TypeOK is not
\* inductive without it: StartReturn hands out the port of nextId - 1.
StartingHasNumber == owner = "starting" => nextId - 1 \in Ops

TypeInv == TypeOK /\ StartingHasNumber

\* Only StartRegister leads to "starting", and nothing else moves nextId.
LEMMA StartingStep ==
  ASSUME TypeInv, [Next]_vars
  PROVE  StartingHasNumber'
<1> USE DEF TypeInv, StartingHasNumber
<1>1. CASE \E hasDeadline \in BOOLEAN : StartRegister(hasDeadline)
  <2>1. nextId \in Ops /\ nextId' = nextId + 1
    BY <1>1 DEF StartRegister
  <2> QED
    BY <2>1, HostAsyncAssumption DEF Ops
<1>2. CASE UNCHANGED <<owner, nextId>>
  BY <1>2
<1>3. CASE owner' # "starting"
  BY <1>3
<1>4. \/ \E hasDeadline \in BOOLEAN : StartRegister(hasDeadline)
      \/ UNCHANGED <<owner, nextId>>
      \/ owner' # "starting"
  BY DEF Next, vars, sharedVars, DeadlinePasses, Interrupt, SubmitGate, ThreadStep,
         SubmitMark, SubmitNotify, DrainBegin, CloseBegin, OwnerStep, StartReturn,
         DrainSwap, DrainEvent, DrainEnd, CloseSnapshot, CloseRecord, CloseEnd
<1> QED
  BY <1>1, <1>2, <1>3, <1>4

\* The type invariant is preserved by every action.
LEMMA TypeStep ==
  ASSUME TypeInv, [Next]_vars
  PROVE  TypeOK'
<1> USE OutcomeFacts
<1>0. TypeOK
  BY DEF TypeInv
<1> USE <1>0
<1>1. CASE \E o \in Ops : DeadlinePasses(o)
  BY <1>1 DEF DeadlinePasses, TypeOK, sharedVars, historyVars
<1>2. CASE Interrupt
  BY <1>2 DEF Interrupt, TypeOK, sharedVars, historyVars, deadlineVars
<1>3. CASE \E hasDeadline \in BOOLEAN : StartRegister(hasDeadline)
  <2> PICK hasDeadline \in BOOLEAN : StartRegister(hasDeadline)
    BY <1>3
  <2>1. nextId' \in 1 .. MaxOps + 1
    BY HostAsyncAssumption DEF StartRegister, Ops
  <2>2. operations' \subseteq Ops /\ timed' \subseteq Ops /\ due' \subseteq timed'
    BY DEF StartRegister, TypeOK
  <2>3. owner' \in OwnerSteps
    BY DEF StartRegister, OwnerSteps
  <2> QED
    BY <2>1, <2>2, <2>3 DEF StartRegister, TypeOK, historyVars
<1>4. CASE \E t \in Threads, o \in Ops, outcome \in Submitted : SubmitGate(t, o, outcome)
  <2> PICK t \in Threads, o \in Ops, outcome \in Submitted : SubmitGate(t, o, outcome)
    BY <1>4
  <2>1. queued' \in Seq(Event)
    BY PushEvent DEF SubmitGate, TypeOK
  <2>2. order' \in Seq(Ops)
    BY AppendProperties DEF SubmitGate, TypeOK
  <2>3. task' \in [Threads -> {None} \cup [op : Ops, step : {"mark", "notify"}]]
    BY DEF SubmitGate, TypeOK
  <2>4. winner' \in [Ops -> Outcomes \cup {None}]
    BY DEF SubmitGate, TypeOK
  <2> QED
    BY <2>1, <2>2, <2>3, <2>4 DEF SubmitGate, TypeOK, deadlineVars
<1>5. CASE \E t \in Threads : ThreadStep(t)
  <2> PICK t \in Threads : ThreadStep(t)
    BY <1>5
  <2>1. CASE SubmitMark(t)
    <3>1. task[t] \in [op : Ops, step : {"mark", "notify"}]
      BY <2>1 DEF SubmitMark, TypeOK
    <3>2. task' \in [Threads -> {None} \cup [op : Ops, step : {"mark", "notify"}]]
      BY <2>1, <3>1 DEF SubmitMark, TypeOK
    <3>3. token' \in [Ops -> BOOLEAN]
      BY <2>1, <3>1 DEF SubmitMark, TypeOK
    <3> QED
      BY <2>1, <3>2, <3>3
         DEF SubmitMark, TypeOK, sharedVars, deadlineVars, historyVars
  <2>2. CASE SubmitNotify(t)
    BY <2>2 DEF SubmitNotify, TypeOK, sharedVars, deadlineVars, historyVars
  <2> QED
    BY <2>1, <2>2 DEF ThreadStep
<1>6. CASE DrainBegin
  BY <1>6, SweepTypes DEF DrainBegin, TypeOK, OwnerSteps, deadlineVars
<1>7. CASE CloseBegin
  BY <1>7, SweepTypes DEF CloseBegin, TypeOK, OwnerSteps, deadlineVars
<1>8. CASE StartReturn
  <2>1. ports' \subseteq Ops
    BY <1>8 DEF StartReturn, TypeInv, StartingHasNumber, TypeOK
  <2> QED
    BY <1>8, <2>1 DEF StartReturn, TypeOK, sharedVars, deadlineVars, historyVars, OwnerSteps
<1>9. CASE DrainSwap
  BY <1>9, EmptySeq DEF DrainSwap, TypeOK, deadlineVars, historyVars, OwnerSteps
<1>10. CASE DrainEvent
  <2> DEFINE event == Head(batch)
  <2>1. event \in Event /\ Tail(batch) \in Seq(Event) /\ <<>> \in Seq(Event)
    BY <1>10, PopEvent, EmptySeq DEF DrainEvent, TypeOK
  <2>2. event.id \in Ops /\ event.outcome \in Outcomes
    BY <2>1, EventFields
  <2>3. CASE event.id \in operations
    <3>1. SettleRecord(event.id, event.outcome)
      BY <1>10, <2>3 DEF DrainEvent
    <3>2. /\ promise' \in [Ops -> Outcomes \cup {None}]
          /\ released' \in [Ops -> Nat]
      BY <2>2, <3>1, SettleTypes
    <3> QED
      BY <1>10, <2>1, <2>3, <3>2
         DEF DrainEvent, TypeOK, deadlineVars, historyVars, OwnerSteps
  <2>4. CASE event.id \notin operations
    BY <1>10, <2>1, <2>4 DEF DrainEvent, TypeOK, deadlineVars, historyVars
  <2> QED
    BY <2>3, <2>4
<1>11. CASE DrainEnd
  BY <1>11 DEF DrainEnd, TypeOK, sharedVars, deadlineVars, historyVars, OwnerSteps
<1>12. CASE CloseSnapshot
  BY <1>12, EmptySeq DEF CloseSnapshot, TypeOK, deadlineVars, historyVars, OwnerSteps
<1>13. CASE \E o \in Ops : CloseRecord(o)
  <2> PICK o \in Ops : CloseRecord(o)
    BY <1>13
  <2>1. CASE TerminalEvents(o) # {}
    <3>1. PICK i \in DOMAIN batch : SettleRecord(o, batch[i].outcome)
      BY <2>1 DEF CloseRecord, TerminalEvents
    <3>2. batch[i] \in Event
      BY <3>1, ElementOfSeq DEF TypeOK
    <3>3. /\ promise' \in [Ops -> Outcomes \cup {None}]
          /\ released' \in [Ops -> Nat]
      BY <3>1, <3>2, EventFields, SettleTypes
    <3> QED
      BY <2>1, <3>3 DEF CloseRecord, TypeOK, sharedVars, deadlineVars, historyVars
  <2>2. CASE TerminalEvents(o) = {}
    <3>1. SettleRecord(o, "closed")
      BY <2>2 DEF CloseRecord
    <3>2. /\ promise' \in [Ops -> Outcomes \cup {None}]
          /\ released' \in [Ops -> Nat]
      BY <3>1, SettleTypes
    <3>3. token' \in [Ops -> BOOLEAN] /\ winner' \in [Ops -> Outcomes \cup {None}]
      BY <2>2 DEF CloseRecord, TypeOK
    <3>4. records' \subseteq Ops /\ order' = order
      BY <2>2 DEF CloseRecord, TypeOK
    <3> QED
      BY <3>2, <3>3, <3>4 DEF CloseRecord, TypeOK, sharedVars, deadlineVars
  <2> QED
    BY <2>1, <2>2
<1>14. CASE CloseEnd
  BY <1>14, EmptySeq
     DEF CloseEnd, TypeOK, sharedVars, deadlineVars, historyVars, OwnerSteps
<1>15. CASE UNCHANGED vars
  BY <1>15 DEF vars, TypeOK, sharedVars, deadlineVars, historyVars
<1> QED
  BY <1>1, <1>2, <1>3, <1>4, <1>5, <1>6, <1>7, <1>8, <1>9, <1>10, <1>11,
     <1>12, <1>13, <1>14, <1>15 DEF Next, OwnerStep

\* TypeInv holds at the start.
LEMMA TypeInit ==
  ASSUME Init
  PROVE  TypeInv
<1>1. <<>> \in Seq(Event) /\ <<>> \in Seq(Ops)
  BY EmptySeq
<1>2. 1 \in 1 .. MaxOps + 1
  BY HostAsyncAssumption
<1>3. token \in [Ops -> BOOLEAN] /\ released \in [Ops -> Nat]
  BY DEF Init
<1>4. task \in [Threads -> {None} \cup [op : Ops, step : {"mark", "notify"}]]
  BY DEF Init
<1>5. promise \in [Ops -> Outcomes \cup {None}] /\ winner \in [Ops -> Outcomes \cup {None}]
  BY DEF Init
<1>6. owner = "idle" /\ owner \in OwnerSteps
  BY DEF Init, OwnerSteps
<1> QED
  BY <1>1, <1>2, <1>3, <1>4, <1>5, <1>6 DEF Init, TypeInv, TypeOK, StartingHasNumber

\* Every variable of HostAsync keeps its type: TypeOK of the run host_async,
\* for any number of operations and any set of workers.
THEOREM TypeCorrect == Spec => []TypeOK
<1>1. Init => TypeInv
  BY TypeInit
<1>2. TypeInv /\ [Next]_vars => TypeInv'
  BY TypeStep, StartingStep DEF TypeInv
<1>3. TypeInv => TypeOK
  BY DEF TypeInv
<1> QED
  BY <1>1, <1>2, <1>3, PTL DEF Spec

-----------------------------------------------------------------------------
(* Ownership of the Promise capabilities. *)

\* Close alone takes records out of the map, and only after it set closed;
\* from then on the owner is closing for good and the map stays empty.
RecordsOnlyInClose == owner # "releasing" => records = {}
ClosedIsFinal == closed <=> owner \in {"releasing", "closed"}
ClosedIsEmpty == closed => operations = {} /\ queued = <<>>

HeldInv ==
  /\ TypeInv
  /\ RecordsOnlyInClose /\ ClosedIsFinal /\ ClosedIsEmpty
  /\ CapabilityHeldOnce

\* A step that moves no event, operation, record or Promise: the clock, the
\* interrupt flag, the threads' marks, and the end of a start or of a drain.
Quiet ==
  /\ UNCHANGED <<nextId, operations, terminal, records, queued, batch, closed,
                 promise, released, winner, order>>
  /\ \/ owner' = owner
     \/ owner' = "idle" /\ owner = "starting"
     \/ owner' = "idle" /\ owner = "settling" /\ batch = <<>>
  /\ interrupted => interrupted'

Sweep == DrainBegin \/ CloseBegin

\* The cases every proof about a step is split into.
LEMMA StepCases ==
  ASSUME [Next]_vars
  PROVE  \/ \E hasDeadline \in BOOLEAN : StartRegister(hasDeadline)
         \/ \E t \in Threads, o \in Ops, outcome \in Submitted : SubmitGate(t, o, outcome)
         \/ Sweep \/ DrainSwap \/ DrainEvent
         \/ CloseSnapshot \/ (\E o \in Ops : CloseRecord(o)) \/ CloseEnd
         \/ Quiet
<1>1. CASE UNCHANGED vars
  BY <1>1 DEF vars, Quiet, sharedVars, historyVars
<1>2. CASE \E o \in Ops : DeadlinePasses(o)
  BY <1>2 DEF DeadlinePasses, Quiet, sharedVars, historyVars
<1>3. CASE Interrupt
  BY <1>3 DEF Interrupt, Quiet, sharedVars, historyVars
<1>4. CASE \E t \in Threads : ThreadStep(t)
  BY <1>4 DEF ThreadStep, SubmitMark, SubmitNotify, Quiet, sharedVars, historyVars
<1>5. CASE StartReturn
  BY <1>5 DEF StartReturn, Quiet, sharedVars, historyVars
<1>6. CASE DrainEnd
  BY <1>6 DEF DrainEnd, Quiet, sharedVars, historyVars
<1> QED
  BY <1>1, <1>2, <1>3, <1>4, <1>5, <1>6 DEF Next, OwnerStep, Sweep

\* Closing is a one-way street.
LEMMA CloseStep ==
  ASSUME HeldInv, [Next]_vars
  PROVE  RecordsOnlyInClose' /\ ClosedIsFinal' /\ ClosedIsEmpty'
<1> USE DEF HeldInv, RecordsOnlyInClose, ClosedIsFinal, ClosedIsEmpty
<1>1. CASE \E hasDeadline \in BOOLEAN : StartRegister(hasDeadline)
  BY <1>1 DEF StartRegister, OwnerFree
<1>2. CASE \E t \in Threads, o \in Ops, outcome \in Submitted : SubmitGate(t, o, outcome)
  BY <1>2 DEF SubmitGate, GateOpen
<1>3. CASE Sweep
  BY <1>3 DEF Sweep, DrainBegin, CloseBegin, OwnerFree
<1>4. CASE DrainSwap
  BY <1>4 DEF DrainSwap
<1>5. CASE DrainEvent
  BY <1>5 DEF DrainEvent
<1>6. CASE CloseSnapshot
  BY <1>6 DEF CloseSnapshot
<1>7. CASE \E o \in Ops : CloseRecord(o)
  BY <1>7 DEF CloseRecord, sharedVars
<1>8. CASE CloseEnd
  BY <1>8 DEF CloseEnd, sharedVars
<1>9. CASE Quiet
  BY <1>9 DEF Quiet
<1> QED
  BY <1>1, <1>2, <1>3, <1>4, <1>5, <1>6, <1>7, <1>8, <1>9, StepCases

\* What CloseRecord does to the pair and the Promise, on all its paths.
LEMMA CloseRecordSettles ==
  ASSUME NEW o \in Ops, CloseRecord(o)
  PROVE  /\ owner = "releasing" /\ o \in records /\ records' = records \ {o}
         /\ released' = [released EXCEPT ![o] = @ + 1]
         /\ UNCHANGED <<nextId, operations, owner>>
BY DEF CloseRecord, SettleRecord, sharedVars

\* No step frees a pair twice, or loses one.
LEMMA HeldStep ==
  ASSUME HeldInv, [Next]_vars
  PROVE  CapabilityHeldOnce'
<1> USE DEF HeldInv, CapabilityHeldOnce, Started
<1>0. TypeOK /\ nextId \in Nat
  BY HostAsyncAssumption DEF TypeInv, TypeOK
<1>1. CASE \E hasDeadline \in BOOLEAN : StartRegister(hasDeadline)
  <2>1. /\ nextId \in Ops /\ nextId' = nextId + 1
        /\ operations' = operations \cup {nextId}
        /\ UNCHANGED <<records, released>>
    BY <1>1 DEF StartRegister
  <2> QED
    BY <1>0, <2>1 DEF Ops
<1>2. CASE \E t \in Threads, o \in Ops, outcome \in Submitted : SubmitGate(t, o, outcome)
  BY <1>2 DEF SubmitGate
<1>3. CASE Sweep
  BY <1>3 DEF Sweep, DrainBegin, CloseBegin
<1>4. CASE DrainSwap
  BY <1>4 DEF DrainSwap
<1>5. CASE DrainEvent
  <2> DEFINE id == Head(batch).id
  <2>1. CASE id \in operations
    <3>1. /\ released' = [released EXCEPT ![id] = @ + 1]
          /\ operations' = operations \ {id}
          /\ UNCHANGED <<nextId, records>>
      BY <1>5, <2>1 DEF DrainEvent, SettleRecord
    <3>2. id \in Ops /\ released \in [Ops -> Nat]
      BY <1>0, <2>1 DEF TypeOK
    <3> HIDE DEF id
    <3> QED
      BY <2>1, <3>1, <3>2
  <2>2. CASE id \notin operations
    BY <1>5, <2>2 DEF DrainEvent
  <2> QED
    BY <2>1, <2>2
<1>6. CASE CloseSnapshot
  BY <1>6 DEF CloseSnapshot, RecordsOnlyInClose
<1>7. CASE \E o \in Ops : CloseRecord(o)
  BY <1>0, <1>7, CloseRecordSettles DEF TypeOK
<1>8. CASE CloseEnd
  BY <1>8 DEF CloseEnd, sharedVars
<1>9. CASE Quiet
  BY <1>9 DEF Quiet
<1> QED
  BY <1>1, <1>2, <1>3, <1>4, <1>5, <1>6, <1>7, <1>8, <1>9, StepCases

\* HeldInv is inductive.
LEMMA HeldInvariant == Spec => []HeldInv
<1>1. Init => HeldInv
  <2> SUFFICES ASSUME Init PROVE HeldInv
    OBVIOUS
  <2>1. Started = {}
    BY DEF Init, Started
  <2> QED
    BY <2>1, TypeInit DEF Init, HeldInv, RecordsOnlyInClose, ClosedIsFinal,
       ClosedIsEmpty, CapabilityHeldOnce
<1>2. HeldInv /\ [Next]_vars => HeldInv'
  BY TypeStep, StartingStep, CloseStep, HeldStep DEF HeldInv, TypeInv
<1> QED
  BY <1>1, <1>2, PTL DEF Spec

\* Every resolve/reject pair is in the map, taken out by close, or freed exactly
\* once, on the failing paths too: CapabilityHeldOnce of the run host_async, for
\* any number of operations and workers.
THEOREM CapabilitiesHeldOnce == Spec => []CapabilityHeldOnce
<1>1. HeldInv => CapabilityHeldOnce
  BY DEF HeldInv
<1> QED
  BY <1>1, HeldInvariant, PTL

\* After close no submit, sweep or start changes the queue or the map any more:
\* NothingAfterClose of the run host_async_live.
THEOREM ClosedForGood == Spec => NothingAfterClose
<1> DEFINE A == closed => /\ queued' = queued /\ operations' = operations /\ closed'
<1>1. HeldInv /\ HeldInv' /\ [Next]_vars => [A]_vars
  <2> SUFFICES ASSUME HeldInv, HeldInv', [Next]_vars, closed
               PROVE  queued' = queued /\ operations' = operations /\ closed'
    OBVIOUS
  <2>1. owner \in {"releasing", "closed"} /\ operations = {} /\ queued = <<>>
    BY DEF HeldInv, ClosedIsFinal, ClosedIsEmpty
  <2>2. closed'
    BY <2>1, StepCases DEF StartRegister, SubmitGate, GateOpen, Sweep, DrainBegin,
       CloseBegin, DrainSwap, DrainEvent, CloseSnapshot, CloseRecord, CloseEnd,
       Quiet, sharedVars
  <2>3. operations' = {} /\ queued' = <<>>
    BY <2>2 DEF HeldInv, ClosedIsEmpty
  <2> QED
    BY <2>1, <2>2, <2>3
<1> QED
  BY <1>1, HeldInvariant, PTL DEF Spec, NothingAfterClose
=============================================================================
