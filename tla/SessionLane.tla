----------------------------- MODULE SessionLane -----------------------------
(***************************************************************************)
(* runtimejs/session_lane.v: several threads share one RuntimeSession      *)
(* through a lane.  A caller reserves a place in the waiting count, spins  *)
(* on turn_gate until it gets it or gives up, and runs its entry while it  *)
(* holds the gate.  Sections under state.guard are one action each, and so *)
(* is every operation on turn_gate.  The session underneath is             *)
(* SessionLifecycle: run_turn, begin_drain, close and the snapshot are its *)
(* actions, taken here from inside the lane.                               *)
(***************************************************************************)
EXTENDS SessionLifecycle

CONSTANTS
  Starters,     \* the callers whose entry is start_host_async_operation
  Deliverers,   \* threads in deliver_wakeup and the other gate-only entries
  Closer,       \* the thread that calls lane.close()
  MaxQueue,     \* config.max_queue, zero for no limit
  Patience,     \* bound: failed attempts at the gate before the wait is over
  NoThread

ASSUME LaneAssumption ==
  /\ Starters \subseteq Callers
  /\ Callers \cap Deliverers = {}
  /\ Closer \notin Callers \cup Deliverers
  /\ NoThread \notin Callers \cup Deliverers \cup {Closer}
  /\ MaxQueue \in Nat
  /\ Patience \in Nat

LaneThreads == Callers \cup Deliverers \cup {Closer}

CallerSteps ==
  {"idle", "waiting", "missed", "locked", "refusing", "session", "checking",
   "starting", "release", "unlock", "left"}
DelivererSteps == {"idle", "inside", "left"}
CloserSteps == {"idle", "draining", "drained", "closing", "unlock", "left"}
Verdicts == {"none", "full", "draining", "timeout", "ran", "refused"}

VARIABLES
  queued,           \* state.queued
  running,          \* state.running
  draining,         \* state.draining
  completed,        \* state.completed
  gate,             \* who holds state.turn_gate
  pc,               \* where each thread is in its lane call
  tries,            \* attempts at the gate each caller has left
  verdict           \* how the lane answered each caller

laneCounters == <<queued, running, draining, completed>>
laneVars == <<laneCounters, gate, pc, tries, verdict>>
vars == <<lifecycleVars, laneVars>>

Init ==
  /\ LifecycleInit
  /\ queued = 0
  /\ running = FALSE
  /\ draining = FALSE
  /\ completed = 0
  /\ gate = NoThread
  /\ pc = [t \in LaneThreads |-> "idle"]
  /\ tries = [c \in Callers |-> Patience]
  /\ verdict = [c \in Callers |-> "none"]

Goto(t, step) == pc' = [pc EXCEPT ![t] = step]
Lock(t) == gate = NoThread /\ gate' = t
Unlock(t) == gate = t /\ gate' = NoThread

-----------------------------------------------------------------------------
(* Admission: reserve_waiter, acquire_turn, cancel_waiter.                 *)

\* decide_session_lane_admission; "none" is .admit.
Admission ==
  IF draining THEN "draining"
  ELSE IF MaxQueue > 0 /\ queued >= MaxQueue THEN "full"
  ELSE "none"

Reserve(c) ==
  /\ pc[c] = "idle"
  /\ IF Admission = "none"
     THEN /\ queued' = queued + 1
          /\ Goto(c, "waiting")
          /\ UNCHANGED verdict
     ELSE /\ verdict' = [verdict EXCEPT ![c] = Admission]
          /\ Goto(c, "left")
          /\ UNCHANGED queued
  /\ UNCHANGED <<lifecycleVars, running, draining, completed, gate, tries>>

TryLock(c) ==
  /\ pc[c] = "waiting"
  /\ Lock(c)
  /\ Goto(c, "locked")
  /\ UNCHANGED <<lifecycleVars, laneCounters, tries, verdict>>

TryLockFails(c) ==
  /\ pc[c] = "waiting" /\ gate # NoThread
  /\ Goto(c, "missed")
  /\ UNCHANGED <<lifecycleVars, laneCounters, gate, tries, verdict>>

\* The wait is not over yet: sleep a millisecond and try again.
TryAgain(c) ==
  /\ pc[c] = "missed" /\ tries[c] > 0
  /\ tries' = [tries EXCEPT ![c] = @ - 1]
  /\ Goto(c, "waiting")
  /\ UNCHANGED <<lifecycleVars, laneCounters, gate, verdict>>

\* Mutant of TimeOut: a caller that gives up stays in the waiting count.
TimeOutKeepsPlace(c) ==
  /\ pc[c] = "missed"
  /\ verdict' = [verdict EXCEPT ![c] = "timeout"]
  /\ Goto(c, "left")
  /\ UNCHANGED <<lifecycleVars, laneCounters, gate, tries>>

\* session_lane_admission_timed_out, then cancel_waiter(true).
TimeOut(c) ==
  /\ pc[c] = "missed"
  /\ queued' = IF queued > 0 THEN queued - 1 ELSE 0
  /\ verdict' = [verdict EXCEPT ![c] = "timeout"]
  /\ Goto(c, "left")
  /\ UNCHANGED <<lifecycleVars, running, draining, completed, gate, tries>>

\* Mutant of Enter: the drain that began while the caller waited is not seen.
EnterBlindly(c) ==
  /\ pc[c] = "locked"
  /\ queued' = IF queued > 0 THEN queued - 1 ELSE 0
  /\ running' = TRUE
  /\ Goto(c, IF c \in Starters THEN "checking" ELSE "session")
  /\ UNCHANGED <<lifecycleVars, draining, completed, gate, tries, verdict>>

\* The gate is ours: leave the waiting count and look for a drain once more.
Enter(c) ==
  /\ pc[c] = "locked"
  /\ queued' = IF queued > 0 THEN queued - 1 ELSE 0
  /\ IF draining
     THEN /\ verdict' = [verdict EXCEPT ![c] = "draining"]
          /\ Goto(c, "refusing")
          /\ UNCHANGED running
     ELSE /\ running' = TRUE
          /\ Goto(c, IF c \in Starters THEN "checking" ELSE "session")
          /\ UNCHANGED verdict
  /\ UNCHANGED <<lifecycleVars, draining, completed, gate, tries>>

\* Mutant of RefuseUnlock: the error return leaves the gate locked.
RefuseForgetsGate(c) ==
  /\ pc[c] = "refusing"
  /\ Goto(c, "left")
  /\ UNCHANGED <<lifecycleVars, laneCounters, gate, tries, verdict>>

RefuseUnlock(c) ==
  /\ pc[c] = "refusing"
  /\ Unlock(c)
  /\ Goto(c, "left")
  /\ UNCHANGED <<lifecycleVars, laneCounters, tries, verdict>>

-----------------------------------------------------------------------------
(* The entry itself, then release_turn.                                    *)

\* run_turn: hand over to the session and wait for its answer.
EnterSession(c) ==
  /\ pc[c] = "session" /\ Call(c)
  /\ UNCHANGED laneVars

SessionStep(c) ==
  /\ pc[c] = "session" /\ (TurnStep(c) \/ DeadlineTrips(c))
  /\ UNCHANGED laneVars

\* run_turn counts the turn as completed when the session counted it: always
\* on success, on an error only if completed_turns moved.
SessionReturns(c) ==
  /\ pc[c] = "session" /\ at[c] = "done"
  /\ verdict' = [verdict EXCEPT ![c] = IF result[c] = "refused" THEN "refused" ELSE "ran"]
  /\ Goto(c, "release")
  /\ UNCHANGED <<lifecycleVars, laneCounters, gate, tries>>

\* start_host_async_operation looks at the phase, then enters the runtime.
StartCheck(c) ==
  /\ pc[c] = "checking"
  /\ \E interrupted \in IsInterrupted :
       IF closeStep \in {"flagged", "closed"}
          \/ ReportedPhase(interrupted) \in {"draining", "poisoned", "closed"}
       THEN /\ verdict' = [verdict EXCEPT ![c] = "refused"]
            /\ Goto(c, "release")
       ELSE /\ Goto(c, "starting")
            /\ UNCHANGED verdict
  /\ UNCHANGED <<lifecycleVars, laneCounters, gate, tries>>

\* The calls into JavaScript may fail on a runtime poisoned in between.
StartReturns(c) ==
  /\ pc[c] = "starting"
  /\ \/ verdict' = [verdict EXCEPT ![c] = "ran"]
     \/ reason # "none" /\ verdict' = [verdict EXCEPT ![c] = "refused"]
  /\ Goto(c, "release")
  /\ UNCHANGED <<lifecycleVars, laneCounters, gate, tries>>

Release(c) ==
  /\ pc[c] = "release"
  /\ running' = FALSE
  /\ completed' = IF verdict[c] = "ran" THEN completed + 1 ELSE completed
  /\ Goto(c, "unlock")
  /\ UNCHANGED <<lifecycleVars, queued, draining, gate, tries, verdict>>

ReleaseUnlock(c) ==
  /\ pc[c] = "unlock"
  /\ Unlock(c)
  /\ Goto(c, "left")
  /\ UNCHANGED <<lifecycleVars, laneCounters, tries, verdict>>

-----------------------------------------------------------------------------
(* deliver_wakeup, cancel_host_async_operation and debug_snapshot: gate    *)
(* only, without a place in the queue and without a look at draining.      *)

DeliverLock(d) ==
  /\ pc[d] = "idle"
  /\ Lock(d)
  /\ Goto(d, "inside")
  /\ UNCHANGED <<lifecycleVars, laneCounters, tries, verdict>>

DeliverUnlock(d) ==
  /\ pc[d] = "inside"
  /\ Unlock(d)
  /\ Goto(d, "left")
  /\ UNCHANGED <<lifecycleVars, laneCounters, tries, verdict>>

-----------------------------------------------------------------------------
(* begin_drain and close.                                                  *)

LaneBeginDrain ==
  /\ pc[Closer] = "idle"
  /\ draining' = TRUE
  /\ Goto(Closer, "draining")
  /\ UNCHANGED <<lifecycleVars, queued, running, completed, gate, tries, verdict>>

CloserDrainsSession ==
  /\ pc[Closer] = "draining"
  /\ SessionBeginDrain
  /\ Goto(Closer, "drained")
  /\ UNCHANGED <<interruptVars, closeStep, callerVars, seen,
                 laneCounters, gate, tries, verdict>>

\* Mutant of CloserLock: close does not wait for the turn gate.
CloserBargesIn ==
  /\ pc[Closer] = "drained"
  /\ gate' = Closer
  /\ Goto(Closer, "closing")
  /\ UNCHANGED <<lifecycleVars, laneCounters, tries, verdict>>

CloserLock ==
  /\ pc[Closer] = "drained"
  /\ Lock(Closer)
  /\ Goto(Closer, "closing")
  /\ UNCHANGED <<lifecycleVars, laneCounters, tries, verdict>>

CloserCloses ==
  /\ pc[Closer] = "closing"
  /\ MarkClosing \/ CloseStep
  /\ UNCHANGED laneVars

CloserUnlock ==
  /\ pc[Closer] = "closing" /\ closeStep = "closed"
  /\ Unlock(Closer)
  /\ Goto(Closer, "left")
  /\ UNCHANGED <<lifecycleVars, laneCounters, tries, verdict>>

\* lane.snapshot() takes only the guard: it looks while the gate is held.
LaneSnapshot == Snapshot /\ UNCHANGED laneVars

LaneCancel == Cancel /\ UNCHANGED laneVars

-----------------------------------------------------------------------------
CallerStep(c) ==
  \/ TryLock(c) \/ TryLockFails(c) \/ TryAgain(c) \/ TimeOut(c)
  \/ Enter(c) \/ RefuseUnlock(c)
  \/ EnterSession(c) \/ SessionStep(c) \/ SessionReturns(c)
  \/ StartCheck(c) \/ StartReturns(c)
  \/ Release(c) \/ ReleaseUnlock(c)

CloserStep ==
  CloserDrainsSession \/ CloserLock \/ CloserCloses \/ CloserUnlock

Next ==
  \/ \E c \in Callers : Reserve(c) \/ CallerStep(c)
  \/ \E d \in Deliverers : DeliverLock(d) \/ DeliverUnlock(d)
  \/ LaneBeginDrain
  \/ CloserStep
  \/ LaneSnapshot
  \/ LaneCancel

\* Threads that are inside a lane call keep running, and a turn comes to an
\* end (by itself or through its deadline).  Nobody is obliged to call or to
\* close, and the gate is not fair.
Fairness ==
  /\ \A c \in Callers : WF_vars(CallerStep(c))
  /\ \A d \in Deliverers : WF_vars(DeliverUnlock(d))
  /\ WF_vars(CloserStep)

Spec == Init /\ [][Next]_vars
FairSpec == Spec /\ Fairness

-----------------------------------------------------------------------------
TypeOK ==
  /\ LifecycleTypeOK
  /\ queued \in Nat
  /\ running \in BOOLEAN
  /\ draining \in BOOLEAN
  /\ completed \in Nat
  /\ gate \in LaneThreads \cup {NoThread}
  /\ pc \in [LaneThreads -> CallerSteps \cup DelivererSteps \cup CloserSteps]
  /\ tries \in [Callers -> Nat]
  /\ verdict \in [Callers -> Verdicts]

Waiting == {c \in Callers : pc[c] \in {"waiting", "missed", "locked"}}

\* Threads that execute inside the QuickJS runtime or tear it down.
InRuntime ==
  {c \in Callers : at[c] \in {"acting", "returned", "finish"} \/ pc[c] = "starting"}
    \cup {d \in Deliverers : pc[d] = "inside"}
    \cup {t \in {Closer} : pc[t] = "closing"}

\* Only the holder of the gate is inside the runtime, so no two threads ever
\* are, and none is while close() tears it down; and the session behind the lane
\* never finds a turn in flight (GUARANTEES.md, Single-Owner Execution).
GateOwnsRuntime ==
  /\ \A t \in InRuntime : gate = t
  /\ \A c \in Callers : at[c] = "begin" => phase # "running" /\ inFlight = 0

\* The waiting count equals the number of callers that wait: `queued` is
\* decremented exactly once on each way out (admitted, refused after the wait,
\* timed out), so places never leak, and max_queue bounds it
\* (MANAGED_RUNTIME_HOSTING.md, Serialized Lanes).  The completed counter counts
\* each entry that ran once and none that was refused, whichever of lane,
\* session and interrupt refused it.
CountersAreExact ==
  /\ queued = Cardinality(Waiting)
  /\ MaxQueue > 0 => queued <= MaxQueue
  /\ completed =
       Cardinality({c \in Callers : verdict[c] = "ran" /\ pc[c] \in {"unlock", "left"}})

\* After the lane drains, no caller gets in any more: `running` never rises.
DrainedLaneAdmitsNobody == [][draining => (running' => running)]_vars

\* Every caller is answered, and a close comes to its end, although waiters
\* spin on an unfair gate and deliveries barge in.
EverybodyLeaves ==
  /\ \A c \in Callers : pc[c] = "waiting" ~> pc[c] = "left"
  /\ draining ~> closeStep = "closed" /\ gate # Closer
=============================================================================
