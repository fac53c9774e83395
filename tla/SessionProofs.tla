---------------------------- MODULE SessionProofs ----------------------------
(* Proofs about SessionLifecycle and SessionLane for every set of callers.    *)
(* The lemmas about the steps of a session say nothing of who takes them, so  *)
(* that they serve the session alone and the session behind a lane.           *)
EXTENDS SessionLane, FiniteSetTheorems, TLAPS

-----------------------------------------------------------------------------
(* A session that its callers use directly. *)

\* One caller is in a turn, or none, and the counter says which.
Exclusive ==
  /\ \A c, d \in InTurn : c = d
  /\ inFlight = IF InTurn = {} THEN 0 ELSE 1

\* A deadline belongs to a turn that has not cleared it yet.
DeadlineOwned ==
  armed /\ reason = "none" =>
    \E c \in TimedTurns : at[c] \in {"acting", "returned"}

\* What every step of a session preserves.  A session is closed between turns.
SessionInv ==
  /\ LifecycleTypeOK
  /\ Exclusive
  /\ closeStep # "open" => InTurn = {}
  /\ PhaseAgrees
  /\ DeadlineOwned

\* SessionInv looks at a few variables only.
LEMMA SessionUnchanged ==
  ASSUME SessionInv, UNCHANGED <<turnVars, interruptVars, closeStep, at>>,
         result' \in [Callers -> Results], seen' \in Phases
  PROVE  SessionInv'
BY DEF SessionInv, LifecycleTypeOK, Exclusive, PhaseAgrees, DeadlineOwned, InTurn,
       turnVars, interruptVars

\* The phases the code computes are phases.
LEMMA ComputedPhases ==
  ASSUME LifecycleTypeOK, NEW interrupted \in BOOLEAN
  PROVE  /\ EntryPhase(interrupted) \in Phases
         /\ PhaseAfterTurn(interrupted) \in Phases
         /\ ReportedPhase(interrupted) \in Phases
BY DEF LifecycleTypeOK, Phases, EntryPhase, PhaseAfterTurn, ReportedPhase

LEMMA InterruptedIsBoolean == IsInterrupted \subseteq BOOLEAN
BY DEF IsInterrupted, Dangling

\* A caller that is let in is alone, and one that is not changes the phase at most
\* to poisoned.
LEMMA BeginTurnKeeps ==
  ASSUME SessionInv, NEW c \in Callers, BeginTurn(c), closeStep \in {"open", "closed"}
  PROVE  SessionInv'
<1>1. PICK interrupted \in IsInterrupted :
        IF EntryPhase(interrupted) = "ready"
        THEN /\ phase' = "running"
             /\ inFlight' = inFlight + 1
             /\ armed' = (armed \/ (c \in TimedTurns /\ reason = "none"))
             /\ at' = [at EXCEPT ![c] = "acting"]
             /\ UNCHANGED <<rejectedTurns, result>>
        ELSE /\ phase' = EntryPhase(interrupted)
             /\ rejectedTurns' = rejectedTurns + 1
             /\ at' = [at EXCEPT ![c] = "done"]
             /\ result' = [result EXCEPT ![c] = "refused"]
             /\ UNCHANGED <<inFlight, armed>>
  BY DEF BeginTurn
<1>2. UNCHANGED <<completedTurns, drainRequested, reason, closeStep, seen>> /\ at[c] = "begin"
  BY DEF BeginTurn
<1>3. interrupted \in BOOLEAN /\ (interrupted => reason # "none" /\ closeStep = "open")
  BY InterruptedIsBoolean DEF IsInterrupted, Dangling
<1>4. CASE EntryPhase(interrupted) = "ready"
  <2>1. phase = "ready" /\ inFlight = 0 /\ InTurn = {} /\ closeStep = "open"
    BY <1>4 DEF EntryPhase, SessionInv, PhaseAgrees, Exclusive
  <2>2. LifecycleTypeOK'
    BY <1>1, <1>2, <1>4 DEF SessionInv, LifecycleTypeOK, Phases, TurnSteps
  <2>3. InTurn' = {c} /\ inFlight' = 1
    BY <1>1, <1>4, <2>1 DEF SessionInv, LifecycleTypeOK, InTurn
  <2>4. Exclusive'
    BY <2>3 DEF Exclusive
  <2>5. PhaseAgrees'
    BY <1>1, <1>2, <1>4, <2>1, <2>3 DEF SessionInv, PhaseAgrees
  <2>6. DeadlineOwned'
    BY <1>1, <1>2, <1>4, <2>1, LifecycleAssumption
    DEF SessionInv, DeadlineOwned, LifecycleTypeOK, InTurn
  <2> QED BY <1>2, <2>1, <2>2, <2>4, <2>5, <2>6 DEF SessionInv
<1>5. CASE EntryPhase(interrupted) # "ready"
  <2>1. LifecycleTypeOK'
    BY <1>1, <1>2, <1>3, <1>5, ComputedPhases
    DEF SessionInv, LifecycleTypeOK, TurnSteps, Results
  <2>2. InTurn' = InTurn
    BY <1>1, <1>2, <1>5 DEF SessionInv, LifecycleTypeOK, InTurn
  <2>3. Exclusive'
    BY <1>1, <1>5, <2>2 DEF SessionInv, Exclusive
  <2>4. PhaseAgrees'
    BY <1>1, <1>2, <1>3, <1>5 DEF SessionInv, PhaseAgrees, EntryPhase
  <2>5. DeadlineOwned'
    BY <1>1, <1>2, <1>5, LifecycleAssumption
    DEF SessionInv, DeadlineOwned, LifecycleTypeOK
  <2> QED BY <1>2, <2>1, <2>2, <2>3, <2>4, <2>5 DEF SessionInv
<1> QED BY <1>4, <1>5

LEMMA FinishTurnKeeps ==
  ASSUME SessionInv, NEW c \in Callers, FinishTurn(c)
  PROVE  SessionInv'
<1>1. c \in InTurn /\ InTurn = {c} /\ inFlight = 1 /\ closeStep = "open"
  BY DEF FinishTurn, InTurn, SessionInv, Exclusive
<1>2. PICK interrupted \in IsInterrupted : phase' = PhaseAfterTurn(interrupted)
  BY DEF FinishTurn
<1>3. interrupted \in BOOLEAN /\ (interrupted => reason # "none")
  BY <1>1 DEF IsInterrupted, Dangling
<1>4. inFlight' = 0 /\ at' = [at EXCEPT ![c] = "observe"]
  BY <1>1 DEF FinishTurn
<1>5. LifecycleTypeOK'
  BY <1>2, <1>3, <1>4, ComputedPhases
  DEF FinishTurn, SessionInv, LifecycleTypeOK, TurnSteps, interruptVars
<1>6. InTurn' = {}
  BY <1>1, <1>4 DEF InTurn, SessionInv, LifecycleTypeOK
<1>7. Exclusive'
  BY <1>4, <1>6 DEF Exclusive
<1>8. PhaseAgrees'
  BY <1>1, <1>2, <1>3, <1>4 DEF FinishTurn, PhaseAfterTurn, PhaseAgrees, SessionInv, interruptVars
<1>9. DeadlineOwned'
  BY <1>4, LifecycleAssumption
  DEF FinishTurn, SessionInv, DeadlineOwned, LifecycleTypeOK, interruptVars
<1> QED BY <1>5, <1>6, <1>7, <1>8, <1>9 DEF SessionInv

\* The other steps of a turn leave its phase and its counter alone.
LEMMA WithinTurnKeeps ==
  ASSUME SessionInv, NEW c \in Callers,
         \/ DeadlineTrips(c)
         \/ \E outcome \in {"ok", "error"} : ActionReturns(c, outcome)
         \/ ClearDeadline(c)
         \/ Observe(c)
  PROVE  SessionInv'
<1>1. LifecycleTypeOK' /\ UNCHANGED <<turnVars, closeStep>>
  BY DEF DeadlineTrips, ActionReturns, ClearDeadline, Observe, SessionInv, LifecycleTypeOK,
         TurnSteps, Results, Reasons, turnVars, interruptVars, callerVars
<1>2. InTurn' = InTurn
  BY DEF DeadlineTrips, ActionReturns, ClearDeadline, Observe, SessionInv, LifecycleTypeOK,
         InTurn, callerVars
<1>3. Exclusive'
  BY <1>1, <1>2 DEF SessionInv, Exclusive, turnVars
<1>4. PhaseAgrees'
  BY <1>1 DEF DeadlineTrips, ActionReturns, ClearDeadline, Observe, SessionInv, PhaseAgrees,
              turnVars, interruptVars
<1>5. DeadlineOwned'
  <2>1. CASE DeadlineTrips(c)
    BY <2>1 DEF DeadlineTrips, DeadlineOwned
  <2>2. CASE (\E outcome \in {"ok", "error"} : ActionReturns(c, outcome)) \/ Observe(c)
    BY <2>2, LifecycleAssumption
    DEF ActionReturns, Observe, SessionInv, DeadlineOwned, LifecycleTypeOK, interruptVars
  <2>3. CASE ClearDeadline(c)
    <3>1. CASE armed' /\ reason' = "none"
      <4>1. armed /\ reason = "none" /\ c \notin TimedTurns
        BY <2>3, <3>1 DEF ClearDeadline
      <4>2. PICK d \in TimedTurns : at[d] \in {"acting", "returned"}
        BY <4>1 DEF SessionInv, DeadlineOwned
      <4>3. d # c /\ at'[d] = at[d]
        BY <2>3, <4>1, LifecycleAssumption DEF ClearDeadline, SessionInv, LifecycleTypeOK
      <4> QED BY <4>2, <4>3 DEF DeadlineOwned
    <3> QED BY <3>1 DEF DeadlineOwned
  <2> QED BY <2>1, <2>2, <2>3
<1> QED BY <1>1, <1>2, <1>3, <1>4, <1>5 DEF SessionInv

\* Every step of a turn, on a session that is open or closed.
LEMMA TurnKeeps ==
  ASSUME SessionInv, NEW c \in Callers, TurnStep(c) \/ DeadlineTrips(c),
         closeStep \in {"open", "closed"}
  PROVE  SessionInv'
BY BeginTurnKeeps, FinishTurnKeeps, WithinTurnKeeps DEF TurnStep

\* A call, a cancel and a look.
LEMMA CallKeeps ==
  ASSUME SessionInv, NEW c \in Callers, Call(c)
  PROVE  SessionInv'
<1>1. LifecycleTypeOK'
  BY DEF Call, SessionInv, LifecycleTypeOK, TurnSteps, turnVars, interruptVars
<1>2. InTurn' = InTurn
  BY DEF Call, SessionInv, LifecycleTypeOK, InTurn
<1>3. Exclusive' /\ PhaseAgrees'
  BY <1>2 DEF Call, SessionInv, Exclusive, PhaseAgrees, turnVars, interruptVars
<1>4. DeadlineOwned'
  BY LifecycleAssumption DEF Call, SessionInv, DeadlineOwned, LifecycleTypeOK, interruptVars
<1> QED BY <1>1, <1>2, <1>3, <1>4 DEF SessionInv, Call

LEMMA CancelKeeps ==
  ASSUME SessionInv, Cancel
  PROVE  SessionInv'
BY DEF Cancel, SessionInv, LifecycleTypeOK, Exclusive, PhaseAgrees, DeadlineOwned, InTurn,
       Reasons, turnVars, callerVars

LEMMA SnapshotKeeps ==
  ASSUME SessionInv, Snapshot
  PROVE  SessionInv'
<1>1. seen' \in Phases
  BY InterruptedIsBoolean, ComputedPhases DEF Snapshot, SessionInv
<1> QED BY <1>1, SessionUnchanged DEF Snapshot, SessionInv, LifecycleTypeOK, callerVars

\* A drain request changes phase and request together.
LEMMA BeginDrainKeeps ==
  ASSUME SessionInv, SessionBeginDrain,
         UNCHANGED <<interruptVars, closeStep, callerVars, seen>>
  PROVE  SessionInv'
<1>1. InTurn' = InTurn /\ inFlight' = inFlight
  BY DEF SessionBeginDrain, InTurn, turnVars, callerVars
<1>2. LifecycleTypeOK'
  BY DEF SessionBeginDrain, SessionInv, LifecycleTypeOK, Phases, turnVars, interruptVars,
         callerVars
<1>3. PhaseAgrees'
  BY DEF SessionBeginDrain, SessionInv, PhaseAgrees, turnVars, interruptVars
<1> QED BY <1>1, <1>2, <1>3
        DEF SessionInv, Exclusive, DeadlineOwned, interruptVars, callerVars

\* The steps of close, between turns.
LEMMA CloseKeeps ==
  ASSUME SessionInv, InTurn = {}, MarkClosing \/ CloseStep
  PROVE  SessionInv'
<1>1. InTurn' = {} /\ inFlight = 0 /\ inFlight' = 0
  BY DEF MarkClosing, CloseStep, TearDown, SetClosedFlag, MarkClosed, InTurn, SessionInv,
         Exclusive, turnVars, callerVars
<1>2. LifecycleTypeOK'
  <2>1. CASE MarkClosing
    BY <2>1 DEF MarkClosing, SessionInv, LifecycleTypeOK, Phases, CloseSteps, interruptVars,
                callerVars
  <2>2. CASE TearDown \/ SetClosedFlag
    BY <2>2 DEF TearDown, SetClosedFlag, SessionInv, LifecycleTypeOK, CloseSteps, turnVars,
                interruptVars, callerVars
  <2>3. CASE MarkClosed
    BY <2>3 DEF MarkClosed, SessionInv, LifecycleTypeOK, Phases, CloseSteps, interruptVars,
                callerVars
  <2> QED BY <2>1, <2>2, <2>3 DEF CloseStep
<1>3. PhaseAgrees'
  BY <1>1 DEF MarkClosing, CloseStep, TearDown, SetClosedFlag, MarkClosed, SessionInv,
              PhaseAgrees, turnVars, interruptVars
<1>4. DeadlineOwned'
  BY DEF MarkClosing, CloseStep, TearDown, SetClosedFlag, MarkClosed, SessionInv,
         DeadlineOwned, turnVars, interruptVars, callerVars
<1> QED BY <1>1, <1>2, <1>3, <1>4 DEF SessionInv, Exclusive

LEMMA SessionInvInit == LifecycleInit => SessionInv
<1> SUFFICES ASSUME LifecycleInit PROVE SessionInv
  OBVIOUS
<1>1. LifecycleTypeOK
  BY DEF LifecycleInit, LifecycleTypeOK, Phases, Reasons, TurnSteps, Results, CloseSteps
<1>2. InTurn = {}
  BY DEF LifecycleInit, InTurn
<1> QED BY <1>1, <1>2 DEF LifecycleInit, SessionInv, Exclusive, PhaseAgrees, DeadlineOwned

\* What the invariant says of a session.
LEMMA SessionInvMeans == SessionInv => SessionConsistent
<1> SUFFICES ASSUME SessionInv PROVE SessionConsistent
  OBVIOUS
<1>1. OneTurnInFlight
  <2>1. CASE InTurn = {}
    BY <2>1, FS_EmptySet DEF SessionInv, Exclusive, OneTurnInFlight
  <2>2. CASE InTurn # {}
    <3>1. PICK c \in InTurn : InTurn = {c}
      BY <2>2 DEF SessionInv, Exclusive
    <3>2. Cardinality(InTurn) = 1
      BY <3>1, FS_Singleton
    <3> QED BY <2>2, <3>2 DEF SessionInv, Exclusive, OneTurnInFlight
  <2> QED BY <2>1, <2>2
<1>2. DeadlineEndsWithTurn
  BY LifecycleAssumption DEF SessionInv, DeadlineOwned, DeadlineEndsWithTurn, InTurn
<1> QED BY <1>1, <1>2 DEF SessionConsistent, SessionInv

-----------------------------------------------------------------------------
\* A session used directly is closed while nobody is inside run_turn.
DirectInv ==
  /\ SessionInv
  /\ closeStep \in {"closing", "tornDown", "flagged"} => Inside = {}

LEMMA DirectStep == DirectInv /\ [LifecycleNext]_lifecycleVars => DirectInv'
<1> SUFFICES ASSUME DirectInv, [LifecycleNext]_lifecycleVars PROVE DirectInv'
  OBVIOUS
<1> USE DEF DirectInv
<1>1. ASSUME NEW c \in Callers, Call(c), closeStep \in {"open", "closed"} PROVE DirectInv'
  <2>1. closeStep' \in {"open", "closed"}
    BY <1>1 DEF Call
  <2> QED BY <1>1, <2>1, CallKeeps
<1>2. ASSUME NEW c \in Callers, TurnStep(c) \/ DeadlineTrips(c) PROVE DirectInv'
  <2>1. c \in Inside
    BY <1>2 DEF TurnStep, DeadlineTrips, BeginTurn, ActionReturns, ClearDeadline, FinishTurn,
                Observe, Inside
  <2>2. closeStep \in {"open", "closed"}
    BY <2>1 DEF SessionInv, LifecycleTypeOK, CloseSteps
  <2>3. closeStep' = closeStep
    BY <1>2 DEF TurnStep, DeadlineTrips, BeginTurn, ActionReturns, ClearDeadline, FinishTurn,
                Observe
  <2> QED BY <1>2, <2>2, <2>3, TurnKeeps
<1>3. CASE Cancel
  BY <1>3, CancelKeeps DEF Cancel, Inside, callerVars
<1>4. CASE DirectBeginDrain
  BY <1>4, BeginDrainKeeps DEF DirectBeginDrain, Inside, callerVars
<1>5. CASE Snapshot
  BY <1>5, SnapshotKeeps DEF Snapshot, Inside, callerVars
<1>6. CASE DirectClose \/ (CloseStep /\ Inside = {})
  <2>1. Inside = {} /\ InTurn = {} /\ (MarkClosing \/ CloseStep)
    BY <1>6 DEF DirectClose, Inside, InTurn
  <2>2. Inside' = {}
    BY <2>1 DEF MarkClosing, CloseStep, TearDown, SetClosedFlag, MarkClosed, Inside, callerVars
  <2> QED BY <2>1, <2>2, CloseKeeps
<1>7. CASE UNCHANGED lifecycleVars
  BY <1>7, SessionUnchanged
  DEF lifecycleVars, callerVars, SessionInv, LifecycleTypeOK, Inside
<1> QED BY <1>1, <1>2, <1>3, <1>4, <1>5, <1>6, <1>7 DEF LifecycleNext

LEMMA DirectInvariance == LifecycleSpec => []DirectInv
<1>1. LifecycleInit => DirectInv
  BY SessionInvInit DEF LifecycleInit, DirectInv
<1> QED BY <1>1, DirectStep, PTL DEF LifecycleSpec

\* The session's variables keep their types for any set of callers.
THEOREM LifecycleTypeCorrect == LifecycleSpec => []LifecycleTypeOK
<1>1. DirectInv => LifecycleTypeOK
  BY DEF DirectInv, SessionInv
<1> QED BY <1>1, DirectInvariance, PTL

\* One turn at a time, phases, counters and deadlines agree, whoever calls,
\* cancels, drains, looks and closes (runtime_session_turn.v:88-138).
THEOREM Consistent == LifecycleSpec => []SessionConsistent
<1>1. DirectInv => SessionConsistent
  BY SessionInvMeans DEF DirectInv
<1> QED BY <1>1, DirectInvariance, PTL

\* An interrupted or draining session admits no turn (runtime_session_turn.v:94-117).
THEOREM NoneAdmitted == LifecycleSpec => NoTurnAfterPoisonOrDrain
<1> DEFINE Admits == reason # "none" \/ drainRequested => inFlight' <= inFlight
<1>1. DirectInv /\ [LifecycleNext]_lifecycleVars => Admits
  <2> SUFFICES ASSUME DirectInv, [LifecycleNext]_lifecycleVars,
                      reason # "none" \/ drainRequested
               PROVE  inFlight' <= inFlight
    OBVIOUS
  <2>0. inFlight \in Nat
    BY DEF DirectInv, SessionInv, LifecycleTypeOK
  <2>1. ASSUME NEW c \in Callers, BeginTurn(c) PROVE inFlight' = inFlight
    <3>1. PICK interrupted \in IsInterrupted :
            IF EntryPhase(interrupted) = "ready" THEN TRUE ELSE UNCHANGED inFlight
      BY <2>1 DEF BeginTurn
    <3>2. \A i \in IsInterrupted : EntryPhase(i) # "ready"
      <4>1. CASE drainRequested
        BY <4>1 DEF EntryPhase, DirectInv, SessionInv, PhaseAgrees
      <4>2. CASE reason # "none"
        <5>1. closeStep \in {"open", "closed"}
          BY <2>1 DEF BeginTurn, Inside, DirectInv, SessionInv, LifecycleTypeOK, CloseSteps
        <5> QED BY <4>2, <5>1
                DEF IsInterrupted, Dangling, EntryPhase, DirectInv, SessionInv, PhaseAgrees
      <4> QED BY <4>1, <4>2
    <3> QED BY <2>1, <3>2 DEF BeginTurn
  <2>2. ASSUME NEW c \in Callers, FinishTurn(c) PROVE inFlight' <= inFlight
    BY <2>0, <2>2 DEF FinishTurn
  <2>3. CASE MarkClosed
    BY <2>0, <2>3 DEF MarkClosed
  <2>4. CASE inFlight' = inFlight
    BY <2>0, <2>4
  <2> QED
    BY <2>0, <2>1, <2>2, <2>3, <2>4
    DEF LifecycleNext, Call, TurnStep, ActionReturns, ClearDeadline, Observe, DeadlineTrips,
        Cancel, DirectBeginDrain, SessionBeginDrain, Snapshot, DirectClose, MarkClosing,
        CloseStep, TearDown, SetClosedFlag, lifecycleVars, turnVars
<1> QED BY <1>1, DirectInvariance, PTL DEF LifecycleSpec, NoTurnAfterPoisonOrDrain

-----------------------------------------------------------------------------
(* A session behind a lane. *)


\* What the lane adds to the types of the session.
LaneTyped ==
  /\ queued \in Nat
  /\ running \in BOOLEAN /\ draining \in BOOLEAN
  /\ completed \in Nat
  /\ gate \in LaneThreads \cup {NoThread}
  /\ pc \in [LaneThreads -> CallerSteps \cup DelivererSteps \cup CloserSteps]
  /\ tries \in [Callers -> Nat]
  /\ verdict \in [Callers -> Verdicts]

\* Whoever may be in the runtime holds the gate, and a session that is being
\* closed is in the closer's hands.
GateInv ==
  /\ \A c \in Callers :
       /\ pc[c] \in {"locked", "refusing", "session", "checking", "starting", "release",
                     "unlock"} => gate = c
       /\ at[c] \notin {"out", "done"} => pc[c] = "session"
  /\ \A d \in Deliverers : pc[d] = "inside" => gate = d
  /\ pc[Closer] = "closing" => gate = Closer
  /\ closeStep \in {"closing", "tornDown", "flagged"} => pc[Closer] = "closing"

Ran == {c \in Callers : verdict[c] = "ran" /\ pc[c] \in {"unlock", "left"}}

\* The counters, and why a caller that was refused behind the gate is not counted.
CountInv ==
  /\ CountersAreExact
  /\ \A c \in Callers : pc[c] = "refusing" => verdict[c] # "ran"

LaneInv == LaneTyped /\ SessionInv /\ GateInv /\ CountInv

\* The steps of a caller in the lane, which leave the session alone.
LaneStepOf(c) ==
  \/ Reserve(c) \/ TryLock(c) \/ TryLockFails(c) \/ TryAgain(c) \/ TimeOut(c)
  \/ Enter(c) \/ RefuseUnlock(c) \/ SessionReturns(c) \/ StartCheck(c)
  \/ StartReturns(c) \/ Release(c) \/ ReleaseUnlock(c)

\* The steps of the others that leave it alone.
LaneStepOfOthers ==
  \/ \E d \in Deliverers : DeliverLock(d) \/ DeliverUnlock(d)
  \/ LaneBeginDrain \/ CloserLock \/ CloserUnlock

\* The steps of the session, taken in the lane or beside it.
CallerInSession(c) == EnterSession(c) \/ SessionStep(c)
OthersInSession == CloserDrainsSession \/ CloserCloses \/ LaneSnapshot \/ LaneCancel

LEMMA StepCases ==
  ASSUME Next
  PROVE  \/ \E c \in Callers : LaneStepOf(c) \/ CallerInSession(c)
         \/ LaneStepOfOthers \/ OthersInSession
BY DEF Next, CallerStep, CloserStep, LaneStepOf, LaneStepOfOthers, CallerInSession,
       OthersInSession

LEMMA LaneLeavesSession ==
  ASSUME NEW c \in Callers, LaneStepOf(c) \/ LaneStepOfOthers
  PROVE  UNCHANGED lifecycleVars
BY DEF LaneStepOf, LaneStepOfOthers, Reserve, TryLock, TryLockFails, TryAgain, TimeOut, Enter,
       RefuseUnlock, SessionReturns, StartCheck, StartReturns, Release, ReleaseUnlock,
       DeliverLock, DeliverUnlock, LaneBeginDrain, CloserLock, CloserUnlock

LEMMA SessionLeavesLane ==
  ASSUME NEW c \in Callers, CallerInSession(c) \/ CloserCloses \/ LaneSnapshot \/ LaneCancel
  PROVE  UNCHANGED laneVars
BY DEF CallerInSession, EnterSession, SessionStep, CloserCloses, LaneSnapshot, LaneCancel

-----------------------------------------------------------------------------
(* Types. *)

LEMMA LaneTypedStep ==
  ASSUME LaneTyped, NEW c \in Callers, LaneStepOf(c)
  PROVE  LaneTyped'
<1> USE LaneAssumption DEF LaneTyped, LaneThreads, CallerSteps, Verdicts, Goto
<1>1. CASE Reserve(c)
  <2>1. Admission \in Verdicts
    BY DEF Admission
  <2>2. CASE Admission = "none"
    BY <1>1, <2>2 DEF Reserve
  <2>3. CASE Admission # "none"
    BY <1>1, <2>1, <2>3 DEF Reserve
  <2> QED BY <2>2, <2>3
<1>2. CASE TryLock(c)
  BY <1>2 DEF TryLock, Lock, laneCounters
<1>3. CASE TryLockFails(c)
  BY <1>3 DEF TryLockFails, laneCounters
<1>4. CASE TryAgain(c)
  BY <1>4 DEF TryAgain, laneCounters
<1>5. CASE TimeOut(c)
  BY <1>5 DEF TimeOut
<1>6. CASE Enter(c)
  <2>1. queued' \in Nat /\ UNCHANGED <<draining, completed, gate, tries>>
    BY <1>6 DEF Enter
  <2>2. CASE draining
    BY <1>6, <2>1, <2>2 DEF Enter
  <2>3. CASE ~draining
    BY <1>6, <2>1, <2>3 DEF Enter
  <2> QED BY <2>2, <2>3
<1>7. CASE RefuseUnlock(c)
  BY <1>7 DEF RefuseUnlock, Unlock, laneCounters
<1>8. CASE SessionReturns(c)
  BY <1>8 DEF SessionReturns, laneCounters
<1>9. CASE StartCheck(c)
  BY <1>9 DEF StartCheck, laneCounters
<1>10. CASE StartReturns(c)
  BY <1>10 DEF StartReturns, laneCounters
<1>11. CASE Release(c)
  <2>1. completed' \in Nat
    BY <1>11 DEF Release
  <2>2. pc' \in [LaneThreads -> CallerSteps \cup DelivererSteps \cup CloserSteps]
    BY <1>11 DEF Release
  <2> QED BY <1>11, <2>1, <2>2 DEF Release
<1>12. CASE ReleaseUnlock(c)
  BY <1>12 DEF ReleaseUnlock, Unlock, laneCounters
<1> QED BY <1>1, <1>2, <1>3, <1>4, <1>5, <1>6, <1>7, <1>8, <1>9, <1>10, <1>11, <1>12 DEF LaneStepOf

LEMMA LaneTypedOthers ==
  ASSUME LaneTyped, LaneStepOfOthers \/ CloserDrainsSession
  PROVE  LaneTyped'
BY LaneAssumption
DEF LaneTyped, LaneThreads, DelivererSteps, CloserSteps, Goto, LaneStepOfOthers, DeliverLock,
    DeliverUnlock, LaneBeginDrain, CloserLock, CloserUnlock, CloserDrainsSession, Lock, Unlock,
    laneCounters

-----------------------------------------------------------------------------
(* The gate. *)

LEMMA GateStep ==
  ASSUME LaneTyped, GateInv, NEW c \in Callers, LaneStepOf(c)
  PROVE  GateInv'
<1> USE LaneAssumption DEF LaneTyped, LaneThreads, GateInv, Goto
<1>0. UNCHANGED <<at, closeStep>>
  BY LaneLeavesSession DEF lifecycleVars, callerVars
<1>1. CASE Reserve(c)
  BY <1>0, <1>1 DEF Reserve, Admission
<1>2. CASE TryLock(c)
  BY <1>0, <1>2 DEF TryLock, Lock
<1>3. CASE TryLockFails(c)
  BY <1>0, <1>3 DEF TryLockFails
<1>4. CASE TryAgain(c)
  BY <1>0, <1>4 DEF TryAgain
<1>5. CASE TimeOut(c)
  BY <1>0, <1>5 DEF TimeOut
<1>6. CASE Enter(c)
  BY <1>0, <1>6 DEF Enter
<1>7. CASE RefuseUnlock(c)
  BY <1>0, <1>7 DEF RefuseUnlock, Unlock
<1>8. CASE SessionReturns(c)
  BY <1>0, <1>8 DEF SessionReturns
<1>9. CASE StartCheck(c)
  BY <1>0, <1>9 DEF StartCheck
<1>10. CASE StartReturns(c)
  BY <1>0, <1>10 DEF StartReturns
<1>11. CASE Release(c)
  BY <1>0, <1>11 DEF Release
<1>12. CASE ReleaseUnlock(c)
  BY <1>0, <1>12 DEF ReleaseUnlock, Unlock
<1> QED BY <1>1, <1>2, <1>3, <1>4, <1>5, <1>6, <1>7, <1>8, <1>9, <1>10, <1>11, <1>12 DEF LaneStepOf

LEMMA GateOthers ==
  ASSUME LaneTyped, GateInv, LaneStepOfOthers
  PROVE  GateInv'
<1> USE LaneAssumption DEF LaneTyped, LaneThreads, GateInv, Goto
<1>0. UNCHANGED <<at, closeStep>>
  BY DEF LaneStepOfOthers, DeliverLock, DeliverUnlock, LaneBeginDrain, CloserLock, CloserUnlock,
         lifecycleVars, callerVars
<1>1. ASSUME NEW d \in Deliverers, DeliverLock(d) PROVE GateInv'
  BY <1>0, <1>1 DEF DeliverLock, Lock
<1>2. ASSUME NEW d \in Deliverers, DeliverUnlock(d) PROVE GateInv'
  BY <1>0, <1>2 DEF DeliverUnlock, Unlock
<1>3. CASE LaneBeginDrain
  BY <1>0, <1>3 DEF LaneBeginDrain
<1>4. CASE CloserLock
  BY <1>0, <1>4 DEF CloserLock, Lock
<1>5. CASE CloserUnlock
  BY <1>0, <1>5 DEF CloserUnlock, Unlock
<1> QED BY <1>1, <1>2, <1>3, <1>4, <1>5 DEF LaneStepOfOthers

\* In the session a caller moves only itself, and close only itself.
LEMMA GateInSession ==
  ASSUME LaneTyped, SessionInv, GateInv,
         (\E c \in Callers : CallerInSession(c)) \/ OthersInSession
  PROVE  GateInv'
<1> USE LaneAssumption DEF GateInv
<1>1. ASSUME NEW c \in Callers, CallerInSession(c) PROVE GateInv'
  <2>1. pc[c] = "session" /\ UNCHANGED <<pc, gate, closeStep>>
    BY <1>1 DEF CallerInSession, EnterSession, SessionStep, Call, TurnStep, DeadlineTrips,
                BeginTurn, ActionReturns, ClearDeadline, FinishTurn, Observe, laneVars
  <2>2. \A d \in Callers \ {c} : at'[d] = at[d]
    BY <1>1 DEF CallerInSession, EnterSession, SessionStep, Call, TurnStep, DeadlineTrips,
                BeginTurn, ActionReturns, ClearDeadline, FinishTurn, Observe, callerVars,
                SessionInv, LifecycleTypeOK
  <2> QED BY <2>1, <2>2
<1>2. CASE CloserDrainsSession
  BY <1>2 DEF CloserDrainsSession, Goto, LaneTyped, LaneThreads, callerVars
<1>3. CASE CloserCloses
  BY <1>3 DEF CloserCloses, MarkClosing, CloseStep, TearDown, SetClosedFlag, MarkClosed,
              callerVars, laneVars
<1>4. CASE LaneSnapshot \/ LaneCancel
  BY <1>4 DEF LaneSnapshot, LaneCancel, Snapshot, Cancel, callerVars, laneVars
<1> QED BY <1>1, <1>2, <1>3, <1>4 DEF OthersInSession

\* Nobody is in a turn while the closer holds the gate, and nobody closes while a
\* caller does.
LEMMA GateExcludes ==
  ASSUME LaneTyped, SessionInv, GateInv
  PROVE  /\ pc[Closer] = "closing" => InTurn = {}
         /\ \A c \in Callers : pc[c] = "session" => closeStep \in {"open", "closed"}
<1>1. \A c \in InTurn : gate = c /\ c \in Callers
  BY DEF GateInv, InTurn
<1>2. pc[Closer] = "closing" => InTurn = {}
  BY <1>1, LaneAssumption DEF GateInv
<1>3. \A c \in Callers : pc[c] = "session" => gate = c /\ pc[Closer] # "closing"
  BY LaneAssumption DEF GateInv
<1> QED BY <1>2, <1>3 DEF GateInv, SessionInv, LifecycleTypeOK, CloseSteps

LEMMA SessionStays ==
  ASSUME LaneTyped, SessionInv, GateInv,
         (\E c \in Callers : CallerInSession(c)) \/ OthersInSession
  PROVE  SessionInv'
<1>1. ASSUME NEW c \in Callers, CallerInSession(c) PROVE SessionInv'
  BY <1>1, GateExcludes, CallKeeps, TurnKeeps DEF CallerInSession, EnterSession, SessionStep
<1>2. CASE CloserDrainsSession
  BY <1>2, BeginDrainKeeps DEF CloserDrainsSession
<1>3. CASE CloserCloses
  BY <1>3, GateExcludes, CloseKeeps DEF CloserCloses
<1>4. CASE LaneSnapshot
  BY <1>4, SnapshotKeeps DEF LaneSnapshot
<1>5. CASE LaneCancel
  BY <1>5, CancelKeeps DEF LaneCancel
<1> QED BY <1>1, <1>2, <1>3, <1>4, <1>5 DEF OthersInSession

LEMMA SessionUntouched ==
  ASSUME SessionInv, UNCHANGED lifecycleVars
  PROVE  SessionInv'
BY SessionUnchanged DEF lifecycleVars, callerVars, SessionInv, LifecycleTypeOK

-----------------------------------------------------------------------------
(* The counters. *)

LEMMA FiniteCounts ==
  /\ IsFiniteSet(Waiting) /\ IsFiniteSet(Ran)
  /\ Cardinality(Waiting) \in Nat /\ Cardinality(Ran) \in Nat
<1>1. Waiting \subseteq Callers /\ Ran \subseteq Callers
  BY DEF Waiting, Ran
<1>2. IsFiniteSet(Waiting) /\ IsFiniteSet(Ran)
  BY <1>1, LifecycleAssumption, FS_Subset
<1> QED BY <1>2, FS_CardinalityType

\* What is to be shown of the counters, in terms of the two sets.
LEMMA ExactCounts ==
  ASSUME CountersAreExact
  PROVE  /\ queued = Cardinality(Waiting) /\ (MaxQueue > 0 => queued <= MaxQueue)
         /\ completed = Cardinality(Ran)
BY DEF CountersAreExact, Ran

LEMMA ExactCountsLater ==
  ASSUME queued' = Cardinality(Waiting'), MaxQueue > 0 => queued' <= MaxQueue,
         completed' = Cardinality(Ran')
  PROVE  CountersAreExact'
BY DEF CountersAreExact, Ran

\* A step that moves nobody into or out of the two sets.
LEMMA SameCounts ==
  ASSUME CountersAreExact, UNCHANGED <<queued, completed>>, Waiting' = Waiting, Ran' = Ran
  PROVE  CountersAreExact'
BY DEF CountersAreExact, Ran

LEMMA ReserveCounts ==
  ASSUME LaneTyped, CountersAreExact, NEW c \in Callers, Reserve(c)
  PROVE  CountersAreExact'
<1> USE LaneAssumption DEF LaneTyped, LaneThreads, Goto
<1>1. Ran' = Ran /\ completed' = completed
  BY DEF Reserve, Ran, Admission
<1>2. CASE Admission = "none"
  <2>1. c \notin Waiting /\ Waiting' = Waiting \cup {c}
    BY <1>2 DEF Reserve, Waiting
  <2>2. Cardinality(Waiting') = Cardinality(Waiting) + 1
    BY <2>1, FiniteCounts, FS_AddElement
  <2>3. queued' = queued + 1 /\ (MaxQueue > 0 => queued < MaxQueue)
    BY <1>2 DEF Reserve, Admission
  <2> QED BY <1>1, <2>2, <2>3, ExactCounts, ExactCountsLater
<1>3. CASE Admission # "none"
  <2>1. Waiting' = Waiting /\ queued' = queued
    BY <1>3 DEF Reserve, Waiting
  <2> QED BY <1>1, <2>1, SameCounts DEF Reserve
<1> QED BY <1>2, <1>3

\* On each way out of the wait the count goes down by one.
LEMMA WaitEndsCounts ==
  ASSUME LaneTyped, CountersAreExact, NEW c \in Callers, TimeOut(c) \/ Enter(c)
  PROVE  CountersAreExact'
<1> USE LaneAssumption DEF LaneTyped, LaneThreads, Goto
<1>1. c \in Waiting /\ Waiting' = Waiting \ {c}
  BY DEF TimeOut, Enter, Waiting
<1>2. Cardinality(Waiting') = Cardinality(Waiting) - 1 /\ Cardinality(Waiting') \in Nat
  <2>1. IsFiniteSet(Waiting')
    BY <1>1, FiniteCounts, FS_Subset
  <2> QED BY <1>1, <2>1, FiniteCounts, FS_RemoveElement, FS_CardinalityType
<1>3. queued > 0
  BY <1>2, FiniteCounts DEF CountersAreExact
<1>4. queued' = queued - 1 /\ completed' = completed
  BY <1>3 DEF TimeOut, Enter
<1>5. Ran' = Ran
  BY DEF TimeOut, Enter, Ran
<1>6. queued = Cardinality(Waiting) /\ (MaxQueue > 0 => queued <= MaxQueue)
      /\ completed = Cardinality(Ran)
  BY ExactCounts
<1> QED BY <1>2, <1>4, <1>5, <1>6, FiniteCounts, ExactCountsLater

LEMMA ReleaseCounts ==
  ASSUME LaneTyped, CountersAreExact, NEW c \in Callers, Release(c)
  PROVE  CountersAreExact'
<1> USE LaneAssumption DEF LaneTyped, LaneThreads, Goto
<1>1. Waiting' = Waiting /\ queued' = queued
  BY DEF Release, Waiting
<1>2. CASE verdict[c] = "ran"
  <2>1. c \notin Ran /\ Ran' = Ran \cup {c}
    BY <1>2 DEF Release, Ran
  <2>2. Cardinality(Ran') = Cardinality(Ran) + 1
    BY <2>1, FiniteCounts, FS_AddElement
  <2> QED BY <1>1, <1>2, <2>2 DEF Release, CountersAreExact, Ran
<1>3. CASE verdict[c] # "ran"
  <2>1. Ran' = Ran /\ completed' = completed
    BY <1>3 DEF Release, Ran
  <2> QED BY <1>1, <2>1, SameCounts
<1> QED BY <1>2, <1>3

\* The other steps of a caller in the lane.
LEMMA OtherStepsCount ==
  ASSUME LaneTyped, CountInv, NEW c \in Callers,
         \/ TryLock(c) \/ TryLockFails(c) \/ TryAgain(c) \/ RefuseUnlock(c)
         \/ SessionReturns(c) \/ StartCheck(c) \/ StartReturns(c) \/ ReleaseUnlock(c)
  PROVE  CountersAreExact'
<1> USE LaneAssumption DEF LaneTyped, LaneThreads, Goto
<1>1. UNCHANGED <<queued, completed>>
  BY DEF TryLock, TryLockFails, TryAgain, RefuseUnlock, SessionReturns, StartCheck,
         StartReturns, ReleaseUnlock, laneCounters
<1>2. Waiting' = Waiting
  BY DEF TryLock, TryLockFails, TryAgain, RefuseUnlock, SessionReturns, StartCheck,
         StartReturns, ReleaseUnlock, Waiting
<1>3. Ran' = Ran
  <2>1. CASE SessionReturns(c) \/ StartCheck(c) \/ StartReturns(c)
    BY <2>1 DEF SessionReturns, StartCheck, StartReturns, Ran
  <2>2. CASE RefuseUnlock(c)
    BY <2>2 DEF RefuseUnlock, CountInv, Ran
  <2>3. CASE TryLock(c) \/ TryLockFails(c) \/ TryAgain(c) \/ ReleaseUnlock(c)
    BY <2>3 DEF TryLock, TryLockFails, TryAgain, ReleaseUnlock, Ran
  <2> QED BY <2>1, <2>2, <2>3
<1> QED BY <1>1, <1>2, <1>3, SameCounts DEF CountInv

LEMMA CountStep ==
  ASSUME LaneTyped, CountInv, NEW c \in Callers, LaneStepOf(c)
  PROVE  CountInv'
<1>1. CountersAreExact'
  BY ReserveCounts, WaitEndsCounts, ReleaseCounts, OtherStepsCount DEF LaneStepOf, CountInv
<1>2. \A d \in Callers : pc'[d] = "refusing" => verdict'[d] # "ran"
  BY LaneAssumption
  DEF LaneTyped, LaneThreads, Goto, CountInv, LaneStepOf, Reserve, TryLock, TryLockFails,
      TryAgain, TimeOut, Enter, RefuseUnlock, SessionReturns, StartCheck, StartReturns,
      Release, ReleaseUnlock
<1> QED BY <1>1, <1>2 DEF CountInv

LEMMA CountOthers ==
  ASSUME LaneTyped, CountInv, LaneStepOfOthers \/ CloserDrainsSession
  PROVE  CountInv'
<1>1. UNCHANGED <<queued, completed, verdict>>
  BY DEF LaneStepOfOthers, DeliverLock, DeliverUnlock, LaneBeginDrain, CloserLock,
         CloserUnlock, CloserDrainsSession, laneCounters
<1>2. \A c \in Callers : pc'[c] = pc[c]
  BY LaneAssumption
  DEF LaneTyped, LaneThreads, Goto, LaneStepOfOthers, DeliverLock, DeliverUnlock,
      LaneBeginDrain, CloserLock, CloserUnlock, CloserDrainsSession
<1>3. Waiting' = Waiting /\ Ran' = Ran
  BY <1>1, <1>2 DEF Waiting, Ran
<1> QED BY <1>1, <1>2, <1>3, SameCounts DEF CountInv

-----------------------------------------------------------------------------
(* The theorems. *)

LEMMA LaneInvInit == Init => LaneInv
<1> SUFFICES ASSUME Init PROVE LaneInv
  OBVIOUS
<1>1. LaneTyped
  BY LaneAssumption DEF Init, LaneTyped, CallerSteps, Verdicts
<1>2. SessionInv
  BY SessionInvInit DEF Init
<1>3. GateInv
  BY LaneAssumption DEF Init, LifecycleInit, GateInv, LaneThreads
<1>4. Waiting = {} /\ Ran = {}
  BY DEF Init, Waiting, Ran, LaneThreads
<1>5. CountInv
  BY <1>4, FS_EmptySet, LaneAssumption
  DEF Init, CountInv, CountersAreExact, Ran, LaneThreads
<1> QED BY <1>1, <1>2, <1>3, <1>5 DEF LaneInv

\* A step that leaves the lane alone keeps what is said of the lane alone.
LEMMA LaneUntouched ==
  ASSUME LaneTyped, CountInv, UNCHANGED laneVars
  PROVE  LaneTyped' /\ CountInv'
BY DEF LaneTyped, CountInv, CountersAreExact, Waiting, laneVars, laneCounters

LEMMA LaneInvStep == LaneInv /\ [Next]_vars => LaneInv'
<1> SUFFICES ASSUME LaneInv, [Next]_vars PROVE LaneInv'
  OBVIOUS
<1> USE DEF LaneInv
<1>1. ASSUME NEW c \in Callers, LaneStepOf(c) PROVE LaneInv'
  BY <1>1, LaneLeavesSession, SessionUntouched, LaneTypedStep, GateStep, CountStep
<1>2. ASSUME LaneStepOfOthers PROVE LaneInv'
  <2>1. UNCHANGED lifecycleVars
    BY <1>2 DEF LaneStepOfOthers, DeliverLock, DeliverUnlock, LaneBeginDrain, CloserLock,
                CloserUnlock
  <2> QED BY <1>2, <2>1, SessionUntouched, LaneTypedOthers, GateOthers, CountOthers
<1>3. ASSUME NEW c \in Callers, CallerInSession(c) PROVE LaneInv'
  BY <1>3, SessionLeavesLane, LaneUntouched, SessionStays, GateInSession
<1>4. ASSUME OthersInSession PROVE LaneInv'
  <2>1. LaneTyped' /\ CountInv'
    <3>1. CASE CloserDrainsSession
      BY <3>1, LaneTypedOthers, CountOthers
    <3>2. CASE CloserCloses \/ LaneSnapshot \/ LaneCancel
      BY <3>2, LaneUntouched DEF CloserCloses, LaneSnapshot, LaneCancel
    <3> QED BY <1>4, <3>1, <3>2 DEF OthersInSession
  <2> QED BY <1>4, <2>1, SessionStays, GateInSession
<1>5. CASE UNCHANGED vars
  <2>1. UNCHANGED lifecycleVars /\ UNCHANGED laneVars
    BY <1>5 DEF vars
  <2>2. GateInv'
    BY <2>1 DEF GateInv, lifecycleVars, callerVars, laneVars
  <2> QED BY <2>1, <2>2, SessionUntouched, LaneUntouched
<1> QED BY <1>1, <1>2, <1>3, <1>4, <1>5, StepCases

LEMMA LaneInvariance == Spec => []LaneInv
BY LaneInvInit, LaneInvStep, PTL DEF Spec

\* The variables of the lane and of its session keep their types.
THEOREM TypeCorrect == Spec => []TypeOK
<1>1. LaneInv => TypeOK
  BY DEF LaneInv, LaneTyped, SessionInv, TypeOK
<1> QED BY <1>1, LaneInvariance, PTL

\* Only the gate's holder is inside the runtime, and the session never finds a
\* turn in flight (session_lane.v:154-166,244-263).
THEOREM GateOwns == Spec => []GateOwnsRuntime
<1>1. LaneInv => GateOwnsRuntime
  <2> SUFFICES ASSUME LaneInv PROVE GateOwnsRuntime
    OBVIOUS
  <2>1. \A t \in InRuntime : gate = t
    BY DEF LaneInv, GateInv, InRuntime
  <2>2. ASSUME NEW c \in Callers, at[c] = "begin" PROVE phase # "running" /\ inFlight = 0
    <3>1. gate = c
      BY <2>2 DEF LaneInv, GateInv
    <3>2. InTurn = {}
      BY <2>2, <3>1 DEF LaneInv, GateInv, InTurn
    <3> QED BY <3>2 DEF LaneInv, SessionInv, Exclusive, PhaseAgrees
  <2> QED BY <2>1, <2>2 DEF GateOwnsRuntime
<1> QED BY <1>1, LaneInvariance, PTL

\* The waiting and the completed counts are exact (session_lane.v:93-166).
THEOREM CountersExact == Spec => []CountersAreExact
<1>1. LaneInv => CountersAreExact
  BY DEF LaneInv, CountInv
<1> QED BY <1>1, LaneInvariance, PTL

\* The session behind the lane keeps its own promise as well.
THEOREM SessionBehindLane == Spec => []SessionConsistent
<1>1. LaneInv => SessionConsistent
  BY SessionInvMeans DEF LaneInv
<1> QED BY <1>1, LaneInvariance, PTL

\* Once the lane drains nobody starts to run (session_lane.v:119-136).
THEOREM DrainAdmitsNobody == Spec => DrainedLaneAdmitsNobody
<1> DEFINE Admits == draining => (running' => running)
<1>1. [Next]_vars => Admits
  <2> SUFFICES ASSUME [Next]_vars, draining, running' # running, running' PROVE FALSE
    OBVIOUS
  <2>1. ASSUME NEW c \in Callers, LaneStepOf(c) PROVE FALSE
    BY <2>1 DEF LaneStepOf, Reserve, TryLock, TryLockFails, TryAgain, TimeOut, Enter,
                RefuseUnlock, SessionReturns, StartCheck, StartReturns, Release,
                ReleaseUnlock, laneCounters
  <2>2. ASSUME NEW c \in Callers, CallerInSession(c) PROVE FALSE
    BY <2>2, SessionLeavesLane DEF laneVars, laneCounters
  <2>3. ASSUME LaneStepOfOthers PROVE FALSE
    BY <2>3 DEF LaneStepOfOthers, DeliverLock, DeliverUnlock, LaneBeginDrain, CloserLock,
                CloserUnlock, laneCounters
  <2>4. ASSUME OthersInSession PROVE FALSE
    BY <2>4 DEF OthersInSession, CloserDrainsSession, CloserCloses, LaneSnapshot, LaneCancel,
                laneVars, laneCounters
  <2> QED BY <2>1, <2>2, <2>3, <2>4, StepCases DEF vars, laneVars, laneCounters
<1> QED BY <1>1, PTL DEF Spec, DrainedLaneAdmitsNobody
=============================================================================
