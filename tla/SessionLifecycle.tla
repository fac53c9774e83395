--------------------------- MODULE SessionLifecycle ---------------------------
(***************************************************************************)
(* The lifecycle of one RuntimeSession: turns (runtime_session_turn.v),    *)
(* the sticky interrupt flag (runtime_interrupt.v and the C functions in   *)
(* libs/include/vjsx_quickjs_compat.h) and close() (runtime_session.v).    *)
(* Functions that hold the lifecycle guard are one action each; the calls  *)
(* of run_turn between them are actions of their own.  SessionLane         *)
(* composes these actions with the lane's gate.                            *)
(***************************************************************************)
EXTENDS Integers, FiniteSets

CONSTANTS
  Callers,      \* threads that call run_turn, once each
  TimedTurns    \* the turns that run under a deadline

ASSUME LifecycleAssumption == IsFiniteSet(Callers) /\ TimedTurns \subseteq Callers

Phases == {"ready", "running", "draining", "poisoned", "closed"}
Reasons == {"none", "cancelled", "deadline"}
TurnSteps == {"out", "begin", "acting", "returned", "finish", "observe", "done"}
Results == {"none", "ok", "error", "interrupted", "refused"}
CloseSteps == {"open", "closing", "tornDown", "flagged", "closed"}

VARIABLES
  phase,            \* lifecycle.phase
  inFlight,         \* lifecycle.in_flight_turns
  completedTurns,   \* lifecycle.completed_turns
  rejectedTurns,    \* lifecycle.rejected_turns
  drainRequested,   \* lifecycle.drain_requested
  reason,           \* the atomic interrupt reason
  armed,            \* a deadline is set
  closeStep,        \* how far close() has come
  at,               \* where each caller is inside run_turn
  result,           \* what run_turn returned to it
  seen              \* history: phases reported to a host, latest first

turnVars == <<phase, inFlight, completedTurns, rejectedTurns, drainRequested>>
interruptVars == <<reason, armed>>
callerVars == <<at, result>>
lifecycleVars == <<turnVars, interruptVars, closeStep, callerVars, seen>>

LifecycleInit ==
  /\ phase = "ready"
  /\ inFlight = 0
  /\ completedTurns = 0
  /\ rejectedTurns = 0
  /\ drainRequested = FALSE
  /\ reason = "none"
  /\ armed = FALSE
  /\ closeStep = "open"
  /\ at = [c \in Callers |-> "out"]
  /\ result = [c \in Callers |-> "none"]
  /\ seen = "ready"

\* runtime.free() released the interrupt state, session.closed is not set yet:
\* is_interrupted() reads freed memory and may answer either way.
Dangling == closeStep = "tornDown"

\* is_interrupted() as the answers it can give.
IsInterrupted ==
  IF Dangling THEN BOOLEAN
  ELSE {reason # "none" /\ closeStep \in {"open", "closing"}}

-----------------------------------------------------------------------------
(* run_turn *)

Call(c) ==
  /\ at[c] = "out"
  /\ at' = [at EXCEPT ![c] = "begin"]
  /\ UNCHANGED <<turnVars, interruptVars, closeStep, result, seen>>

\* Mutant of EntryPhase: an interrupted session is not poisoned on entry.
EntryPhaseIgnoresInterrupt(interrupted) == phase

\* Mutant of EntryPhase: the .running arm is missing.
EntryPhaseForgetsRunning(interrupted) ==
  IF interrupted THEN "poisoned" ELSE IF phase = "running" THEN "ready" ELSE phase

\* The phase begin_turn decides on: an interrupt poisons the session first.
EntryPhase(interrupted) == IF interrupted THEN "poisoned" ELSE phase

\* begin_turn, and set_deadline_after_ms once the turn is admitted.
BeginTurn(c) ==
  /\ at[c] = "begin"
  /\ \E interrupted \in IsInterrupted :
       IF EntryPhase(interrupted) = "ready"
       THEN /\ phase' = "running"
            /\ inFlight' = inFlight + 1
            /\ armed' = (armed \/ (c \in TimedTurns /\ reason = "none"))
            /\ at' = [at EXCEPT ![c] = "acting"]
            /\ UNCHANGED <<rejectedTurns, result>>
       ELSE /\ phase' = EntryPhase(interrupted)
            /\ rejectedTurns' = rejectedTurns + 1
            /\ at' = [at EXCEPT ![c] = "done"]
            /\ result' = [result EXCEPT ![c] = "refused"]
            /\ UNCHANGED <<inFlight, armed>>
  /\ UNCHANGED <<completedTurns, drainRequested, reason, closeStep, seen>>

\* The interrupt handler runs while a turn executes JavaScript and finds the
\* deadline passed: the reason is set once (vjsx_atomic_try_set_reason).
DeadlineTrips(c) ==
  /\ at[c] = "acting" /\ armed /\ reason = "none"
  /\ reason' = "deadline"
  /\ UNCHANGED <<turnVars, armed, closeStep, callerVars, seen>>

\* The action returns, with a value or with an error.  An interrupt need not
\* be noticed: it may come after the last instruction of the script.
ActionReturns(c, outcome) ==
  /\ at[c] = "acting"
  /\ at' = [at EXCEPT ![c] = "returned"]
  /\ result' = [result EXCEPT ![c] = outcome]
  /\ UNCHANGED <<turnVars, interruptVars, closeStep, seen>>

\* Mutant of ClearDeadline: only a turn that succeeded clears its deadline.
ClearDeadlineOnSuccess(c) ==
  /\ at[c] = "returned"
  /\ armed' = (armed /\ (c \notin TimedTurns \/ reason # "none" \/ result[c] = "error"))
  /\ at' = [at EXCEPT ![c] = "finish"]
  /\ UNCHANGED <<turnVars, reason, closeStep, result, seen>>

\* clear_deadline: a no-op once the session is interrupted.
ClearDeadline(c) ==
  /\ at[c] = "returned"
  /\ armed' = (armed /\ (c \notin TimedTurns \/ reason # "none"))
  /\ at' = [at EXCEPT ![c] = "finish"]
  /\ UNCHANGED <<turnVars, reason, closeStep, result, seen>>

\* Mutant of PhaseAfterTurn: the drain requested during the turn is forgotten.
PhaseAfterTurnForgetsDrain(interrupted) ==
  IF interrupted THEN "poisoned" ELSE "ready"

PhaseAfterTurn(interrupted) ==
  IF interrupted THEN "poisoned" ELSE IF drainRequested THEN "draining" ELSE "ready"

FinishTurn(c) ==
  /\ at[c] = "finish"
  /\ inFlight' = IF inFlight > 0 THEN inFlight - 1 ELSE 0
  /\ completedTurns' = completedTurns + 1
  /\ \E interrupted \in IsInterrupted : phase' = PhaseAfterTurn(interrupted)
  /\ at' = [at EXCEPT ![c] = "observe"]
  /\ UNCHANGED <<rejectedTurns, drainRequested, interruptVars, closeStep, result, seen>>

\* record_observation: the outcome of a failed turn is classified by a second
\* look at the interrupt flag.
Observe(c) ==
  /\ at[c] = "observe"
  /\ \E interrupted \in IsInterrupted :
       result' = [result EXCEPT ![c] =
                    IF @ = "error" /\ interrupted THEN "interrupted" ELSE @]
  /\ at' = [at EXCEPT ![c] = "done"]
  /\ UNCHANGED <<turnVars, interruptVars, closeStep, seen>>

TurnStep(c) ==
  \/ BeginTurn(c)
  \/ \E outcome \in {"ok", "error"} : ActionReturns(c, outcome)
  \/ ClearDeadline(c)
  \/ FinishTurn(c)
  \/ Observe(c)

-----------------------------------------------------------------------------
(* Calls from any thread. *)

\* session.cancel(), while the interrupt state exists.
Cancel ==
  /\ closeStep \in {"open", "closing"}
  /\ reason = "none"
  /\ reason' = "cancelled"
  /\ UNCHANGED <<turnVars, armed, closeStep, callerVars, seen>>

\* begin_drain: refused (false, no change) once closed or poisoned.
SessionBeginDrain ==
  IF phase \in {"closed", "poisoned"}
  THEN UNCHANGED turnVars
  ELSE /\ drainRequested' = TRUE
       /\ phase' = "draining"
       /\ UNCHANGED <<inFlight, completedTurns, rejectedTurns>>

\* lifecycle_snapshot().phase: the phase reported to a host.
ReportedPhase(interrupted) ==
  IF phase # "closed" /\ interrupted THEN "poisoned" ELSE phase

Snapshot ==
  /\ \E interrupted \in IsInterrupted : seen' = ReportedPhase(interrupted)
  /\ UNCHANGED <<turnVars, interruptVars, closeStep, callerVars>>

-----------------------------------------------------------------------------
(* close(): mark_closing, tear down context and runtime, session.closed,   *)
(* mark_closed.  Between the steps other threads may look.                 *)

MarkClosing ==
  /\ closeStep = "open"
  /\ closeStep' = "closing"
  /\ phase' = IF phase # "closed" THEN "draining" ELSE phase
  /\ drainRequested' = TRUE
  /\ UNCHANGED <<inFlight, completedTurns, rejectedTurns, interruptVars,
                 callerVars, seen>>

TearDown ==
  /\ closeStep = "closing"
  /\ closeStep' = "tornDown"
  /\ UNCHANGED <<turnVars, interruptVars, callerVars, seen>>

SetClosedFlag ==
  /\ closeStep = "tornDown"
  /\ closeStep' = "flagged"
  /\ UNCHANGED <<turnVars, interruptVars, callerVars, seen>>

MarkClosed ==
  /\ closeStep = "flagged"
  /\ closeStep' = "closed"
  /\ inFlight' = 0
  /\ drainRequested' = TRUE
  /\ phase' = "closed"
  /\ UNCHANGED <<completedTurns, rejectedTurns, interruptVars, callerVars, seen>>

CloseStep == TearDown \/ SetClosedFlag \/ MarkClosed

-----------------------------------------------------------------------------
(* A session used directly: several threads call run_turn at once, one of  *)
(* them owns it and closes it when no turn is in flight.                   *)

InTurn == {c \in Callers : at[c] \in {"acting", "returned", "finish"}}
Inside == {c \in Callers : at[c] \in {"begin", "acting", "returned", "finish", "observe"}}

DirectBeginDrain ==
  /\ ~drainRequested
  /\ SessionBeginDrain
  /\ UNCHANGED <<interruptVars, closeStep, callerVars, seen>>

DirectClose ==
  /\ Inside = {}
  /\ MarkClosing

LifecycleNext ==
  \/ \E c \in Callers : Call(c) /\ closeStep \in {"open", "closed"}
  \/ \E c \in Callers : TurnStep(c) \/ DeadlineTrips(c)
  \/ Cancel
  \/ DirectBeginDrain
  \/ Snapshot
  \/ DirectClose
  \/ CloseStep /\ Inside = {}

LifecycleSpec == LifecycleInit /\ [][LifecycleNext]_lifecycleVars

-----------------------------------------------------------------------------
LifecycleTypeOK ==
  /\ phase \in Phases
  /\ inFlight \in Nat
  /\ completedTurns \in Nat
  /\ rejectedTurns \in Nat
  /\ drainRequested \in BOOLEAN
  /\ reason \in Reasons
  /\ armed \in BOOLEAN
  /\ closeStep \in CloseSteps
  /\ at \in [Callers -> TurnSteps]
  /\ result \in [Callers -> Results]
  /\ seen \in Phases

\* A session admits at most one turn at a time, and the counter a host reads
\* tells the truth about it (GUARANTEES.md, Single-Owner Execution).
OneTurnInFlight ==
  /\ Cardinality(InTurn) <= 1
  /\ inFlight = Cardinality(InTurn)

\* The stored phase, the counter and the drain request agree: `ready` really
\* means that a turn may start, `running` that one runs, and a drain request
\* is never forgotten by the turn that finishes after it.
PhaseAgrees ==
  /\ phase = "ready" => inFlight = 0 /\ ~drainRequested
  /\ phase = "running" => inFlight = 1 /\ ~drainRequested
  /\ phase = "poisoned" => reason # "none"
  /\ phase = "closed" <=> closeStep = "closed"

\* A deadline never outlives its turn on a session that stays usable: the next
\* turn would be interrupted by it (runtime_session_turn.v:181-183,201-203).
DeadlineEndsWithTurn == armed /\ reason = "none" => InTurn # {}

\* Whatever threads call, cancel, drain and look at once: the turns, the stored
\* phase and the deadline agree (runtime_session_turn.v:88-138).
SessionConsistent == OneTurnInFlight /\ PhaseAgrees /\ DeadlineEndsWithTurn

\* Once interrupted or asked to drain, no further turn is admitted, whatever
\* clear_deadline, begin_drain and the end of the current turn do in between.
NoTurnAfterPoisonOrDrain ==
  [][reason # "none" \/ drainRequested => inFlight' <= inFlight]_lifecycleVars
=============================================================================
