----------------------------- MODULE TimerGlobals -----------------------------
(***************************************************************************)
(* The timer globals of src/web/js/timer.js and the promise timer of       *)
(* src/web/js/node_timers_promises.js on the session's event loop.  In a   *)
(* session that owns its timers they are records of EventLoop.  Otherwise  *)
(* they are timers of qjs:os, which run only while the embedder pumps, and *)
(* the session is told of them by wakeup hints.                            *)
(*                                                                         *)
(* A handle is what setTimeout or setInterval returned.  It has one        *)
(* qjs:os timer at a time, so it also stands for that timer's wakeup id.   *)
(* There is one promise timer, with one AbortSignal.                       *)
(***************************************************************************)
EXTENDS EventLoop

ASSUME HandleAssumption == Hints \subseteq Nat \ {NoTimer}

VARIABLES
  kind,      \* what a handle is: "none", "timeout", "interval" or "promise"
  due,       \* when its qjs:os timer expires; Never: it has none
  every,     \* the delay of an interval
  cleared,   \* handles that were cleared; an interval's state.enabled is FALSE
  running,   \* the handle whose callback runs in a pump
  promise,   \* the promise timer: "none", "waiting", "resolved" or "aborted"
  timer,     \* its timer: an owned one or a handle
  listening, \* its onAbort listens to the signal
  woken,     \* a delivery returned, the embedder has not pumped since
  refused    \* history: handles whose wakeup hint was refused

osVars == <<kind, due, every, cleared, refused>>
promiseVars == <<promise, timer, listening>>
jsVars == <<osVars, promiseVars, running, woken>>
loopVars == <<clock, owned, timerVars, hints, wakeupVars, closed, interrupted,
              asyncVars, owner, current, failed>>
allVars == <<vars, jsVars>>

GlobalsInit ==
  /\ Init
  /\ kind = [h \in Hints |-> "none"]
  /\ due = [h \in Hints |-> Never]
  /\ every = [h \in Hints |-> 0]
  /\ cleared = {} /\ refused = {}
  /\ running = NoTimer
  /\ promise = "none"
  /\ timer = [owned |-> FALSE, id |-> NoTimer]
  /\ listening = FALSE
  /\ woken = FALSE

-----------------------------------------------------------------------------
(* Calls of the globals. *)

PromiseTimer(isOwned, id) == promise # "none" /\ timer = [owned |-> isOwned, id |-> id]

\* No script runs within the promise timer's own callback, and only an interrupt
\* makes it throw.
Script == ~(owner = "callback" /\ PromiseTimer(TRUE, current))

\* os.setTimeout and its wakeup hint.
Arm(h, delay) ==
  /\ due' = [due EXCEPT ![h] = clock + delay]
  /\ HintTimer(h, delay)
  /\ refused' = IF hints'[h] = Never THEN refused \cup {h} ELSE refused \ {h}

NewHandle(what, h, delay) ==
  /\ ApiCall /\ ~owned
  /\ kind[h] = "none" /\ \A g \in Hints : kind[g] = "none" => h <= g
  /\ kind' = [kind EXCEPT ![h] = what]
  /\ every' = [every EXCEPT ![h] = IF what = "interval" THEN delay ELSE 0]
  /\ Arm(h, delay)
  /\ UNCHANGED <<clock, owned, timerVars, closed, interrupted, asyncVars, owner,
                 current, failed, cleared, running, woken>>

SetTimeout(delay) ==
  \/ CreateTimer(delay, FALSE) /\ UNCHANGED jsVars
  \/ \E h \in Hints : NewHandle("timeout", h, delay) /\ UNCHANGED promiseVars

\* In a session that pumps an interval has a period; one of zero keeps the pump
\* busy for ever.
SetInterval(delay) ==
  \/ CreateTimer(delay, TRUE) /\ UNCHANGED jsVars
  \/ /\ delay > 0
     /\ \E h \in Hints : NewHandle("interval", h, delay) /\ UNCHANGED promiseVars

\* Mutant of ClearHandle: the hint is forgotten.
ClearHandleKeepsHint(h) ==
  /\ due' = [due EXCEPT ![h] = Never]
  /\ cleared' = cleared \cup {h}
  /\ UNCHANGED <<clock, owned, timerVars, hints, wakeupVars, closed, interrupted,
                 asyncVars, owner, current, failed, kind, every, refused>>

\* clearTimeout of a handle.
ClearHandle(h) ==
  /\ due' = [due EXCEPT ![h] = Never]
  /\ cleared' = cleared \cup {h}
  /\ ClearHint(h)
  /\ UNCHANGED <<clock, owned, timerVars, closed, interrupted, asyncVars, owner,
                 current, failed, kind, every, refused>>

\* clearTimeout and clearInterval of a timer the session owns.
ClearOwned(t) == CancelTimer(t) /\ UNCHANGED jsVars

ClearTimeout(h) ==
  /\ ApiCall
  /\ kind[h] = "timeout" /\ h \notin cleared
  /\ ClearHandle(h)
  /\ UNCHANGED <<promiseVars, running, woken>>

\* The qjs:os timer of an interval is not cleared: it finds the interval
\* disabled when it expires.
ClearInterval(h) ==
  /\ ApiCall
  /\ kind[h] = "interval" /\ h \notin cleared
  /\ cleared' = cleared \cup {h}
  /\ ClearHint(h)
  /\ UNCHANGED <<clock, owned, timerVars, closed, interrupted, asyncVars, owner,
                 current, failed, kind, due, every, refused, promiseVars, running,
                 woken>>

\* promiseSetTimeout with a signal that is not aborted yet.
PromiseTimeout(delay) ==
  /\ promise = "none"
  /\ promise' = "waiting" /\ listening' = TRUE
  /\ \/ /\ CreateTimer(delay, FALSE)
        /\ timer' = [owned |-> TRUE, id |-> nextTimer]
        /\ UNCHANGED <<osVars, running, woken>>
     \/ \E h \in Hints :
          /\ NewHandle("promise", h, delay)
          /\ timer' = [owned |-> FALSE, id |-> h]

\* Mutant of ClearPromiseTimer: the timer is left to expire.
ClearNothing == UNCHANGED <<loopVars, osVars>>

\* onAbort's clearTimeout.
ClearPromiseTimer ==
  IF timer.owned
  THEN IF timer.id \in Live
       THEN /\ timers' = [timers EXCEPT ![timer.id] = Nothing]
            /\ Reschedule(hints, timers', deadline)
            /\ UNCHANGED <<clock, owned, nextTimer, firedAt, hints, closed, interrupted,
                           asyncVars, owner, current, failed, osVars>>
       ELSE UNCHANGED <<loopVars, osVars>>
  ELSE ClearHandle(timer.id)

\* The signal is aborted: onAbort.
Abort ==
  /\ ApiCall
  /\ promise = "waiting"
  /\ promise' = "aborted" /\ listening' = FALSE
  /\ ClearPromiseTimer
  /\ UNCHANGED <<timer, running, woken>>

\* The callback of the promise timer.
Resolve ==
  IF promise = "waiting" THEN promise' = "resolved" /\ listening' = FALSE
  ELSE UNCHANGED <<promise, listening>>

-----------------------------------------------------------------------------
(* js_std_loop, called through pump_until_idle: it runs until qjs:os has no *)
(* timer left.                                                              *)

OsTimers == {h \in Hints : due[h] # Never}

PumpBegins ==
  /\ owner = "idle" /\ ~closed
  /\ OsTimers # {}
  /\ owner' = "pumping"
  /\ woken' = FALSE
  /\ UNCHANGED <<clock, owned, timerVars, hints, wakeupVars, closed, interrupted,
                 asyncVars, current, failed, osVars, promiseVars, running>>

\* The embedder pumps when a delivery has returned,
PumpAfterDelivery == woken /\ PumpBegins /\ UNCHANGED calls

\* and may at any other time, as every evaluation that awaits a Promise does.
PumpUnasked == ~woken /\ calls > 0 /\ calls' = calls - 1 /\ PumpBegins

\* Mutant of Runs: a disabled interval calls back once more.
RunsAnyway(h) == kind[h] # "promise"

\* The callback of the script is called.
Runs(h) == kind[h] = "timeout" \/ (kind[h] = "interval" /\ h \notin cleared)

\* A qjs:os timer expires: its hint is cleared, its callback called.
OsFires(h) ==
  /\ owner = "pumping"
  /\ h \in OsTimers /\ due[h] <= clock
  /\ due' = [due EXCEPT ![h] = Never]
  /\ ClearHint(h)
  /\ IF Runs(h) THEN owner' = "pumped" /\ running' = h
     ELSE UNCHANGED <<owner, running>>
  /\ IF kind[h] = "promise" THEN Resolve ELSE UNCHANGED <<promise, listening>>
  /\ UNCHANGED <<clock, owned, timerVars, closed, interrupted, asyncVars, current,
                 calls, failed, kind, every, cleared, refused, timer, woken>>

\* The callback returns; an interval is set again, cleared or not.
OsReturns ==
  /\ owner = "pumped"
  /\ owner' = "pumping" /\ running' = NoTimer
  /\ IF kind[running] = "interval" THEN Arm(running, every[running])
     ELSE UNCHANGED <<due, hints, wakeupVars, refused>>
  /\ UNCHANGED <<clock, owned, timerVars, closed, interrupted, asyncVars, current,
                 calls, failed, kind, every, cleared, promiseVars, woken>>

\* It throws: an interval ends, and the loop of quickjs-ng ends as well.
OsThrows ==
  /\ owner = "pumped"
  /\ owner' \in {"pumping", "idle"} /\ running' = NoTimer
  /\ UNCHANGED <<clock, owned, timerVars, hints, wakeupVars, closed, interrupted,
                 asyncVars, current, calls, failed, osVars, promiseVars, woken>>

PumpEnds ==
  /\ owner = "pumping" /\ OsTimers = {}
  /\ owner' = "idle"
  /\ UNCHANGED <<clock, owned, timerVars, hints, wakeupVars, closed, interrupted,
                 asyncVars, current, calls, failed, jsVars>>

-----------------------------------------------------------------------------
(* The event loop below, with what its steps mean above. *)

Returned == woken' = (OsTimers # {}) /\ UNCHANGED <<osVars, promiseVars, running>>

\* The embedder pumps before it delivers the next wakeup.
HostDeliversNext == (woken => OsTimers = {}) /\ HostDelivers

Deliver ==
  /\ HostDeliversNext \/ HostDeliversAnyway
  /\ woken' = FALSE
  /\ UNCHANGED <<osVars, promiseVars, running>>

OwnerStep ==
  \/ (FireTimer \/ Drain) /\ UNCHANGED jsVars
  \/ (FireFails \/ DrainFails) /\ Returned
  \/ /\ CallbackReturns
     /\ IF PromiseTimer(TRUE, current) THEN Resolve ELSE UNCHANGED <<promise, listening>>
     /\ UNCHANGED <<osVars, timer, running, woken>>
  \/ CallbackThrows /\ (Script \/ interrupted) /\ Returned
  \/ (DeliverEnd \/ DeliverFails) /\ Returned

PumpStep ==
  \/ PumpAfterDelivery
  \/ \E h \in Hints : OsFires(h)
  \/ OsReturns
  \/ OsThrows
  \/ PumpEnds

\* The context is freed with its timers; the Promise stays as it is.
SessionClose ==
  /\ Close
  /\ due' = [h \in Hints |-> Never]
  /\ UNCHANGED <<kind, every, cleared, refused, promiseVars, running, woken>>

Calls ==
  /\ Script
  /\ \/ \E delay \in Delays : SetTimeout(delay) \/ SetInterval(delay) \/ PromiseTimeout(delay)
     \/ \E h \in Hints : ClearTimeout(h) \/ ClearInterval(h)
     \/ \E t \in Timers : ClearOwned(t)
     \/ Abort
     \/ \E timeout \in Delays : StartOperation(timeout) /\ UNCHANGED jsVars
     \/ Configure /\ UNCHANGED jsVars

Next ==
  \/ Calls
  \/ Deliver
  \/ OwnerStep
  \/ PumpStep
  \/ PumpUnasked
  \/ SessionClose
  \/ Interrupt /\ UNCHANGED jsVars
  \/ (\E o \in Ops : WorkerCompletes(o)) /\ UNCHANGED jsVars
  \/ Tick /\ UNCHANGED jsVars

\* The embedder's side of the contract (RUNTIME_CONTRACT.md, Timer Contract):
\* time passes, requested wakeups and announced completions are delivered, a
\* delivery or a pump under way is carried on.
Fairness ==
  /\ WF_allVars(Tick /\ UNCHANGED jsVars)
  /\ WF_allVars(HostDeliversNext /\ Deliver)
  /\ WF_allVars(OwnerStep) /\ WF_allVars(PumpStep)

Spec == GlobalsInit /\ [][Next]_allVars
FairSpec == Spec /\ Fairness

-----------------------------------------------------------------------------
GlobalsTypeOK ==
  /\ TypeOK
  /\ kind \in [Hints -> {"none", "timeout", "interval", "promise"}]
  /\ due \in [Hints -> Moments] /\ every \in [Hints -> Nat]
  /\ cleared \subseteq Hints /\ refused \subseteq Hints
  /\ running \in Hints \cup {NoTimer}
  /\ promise \in {"none", "waiting", "resolved", "aborted"}
  /\ timer \in [owned : BOOLEAN, id : Nat]
  /\ listening \in BOOLEAN /\ woken \in BOOLEAN

\* The hints are "not timers. They only let the host schedule an efficient
\* lane/session wakeup instead of polling" (RUNTIME_CONTRACT.md:155-156): every
\* hint has its qjs:os timer, and every timer that will call back has its hint
\* unless the limit refused it (timer.js:47-54,79-93,101-113).  An interrupt may
\* cut a call of the globals short, and then nothing is claimed.
HintsTellTimers ==
  ~closed /\ ~interrupted => \A h \in Hints :
    /\ hints[h] # Never => hints[h] = due[h]
    /\ due[h] # Never /\ h \notin refused /\ (kind[h] = "interval" => h \notin cleared)
         => hints[h] = due[h]

\* A settled promise timer leaves nothing behind: no listener on a signal that
\* may live on, no timer, no hint that wakes the host for nothing
\* (node_timers_promises.js:29-53).
SettledLeavesNothing ==
  promise \in {"resolved", "aborted"} =>
    /\ ~listening
    /\ IF timer.owned THEN timer.id \notin Live ELSE due[timer.id] = Never

\* Once clearTimeout or clearInterval was called the callback does not run again,
\* although the qjs:os timer of an interval is still there, and set again when it
\* is cleared by its own callback (timer.js:83-92,105-112).
NoCallbackAfterClear ==
  [][running' \notin {running, NoTimer} => running' \notin cleared]_allVars

\* Timers whose time has come.  A refused hint tells nobody, a cleared interval
\* waits for nobody.
Overdue ==
  \/ \E t \in Live : timers[t].due <= clock /\ owner # "pumping"
  \/ \E h \in OsTimers \ (refused \cup cleared) : due[h] <= clock

\* Every timer's time comes: with a host that delivers the wakeups it was asked
\* for, and then pumps, again and again no timer is overdue, neither one of the
\* session nor one of qjs:os.  Not so once a callback of an owned timer throws
\* (failed), nor in an interrupted session, which runs no JavaScript; and in a
\* session that changed its ownership they wait while the pump blocks.
DueTimersFire == []<>(failed \/ interrupted \/ ~Overdue)

\* Again and again no operation waits that was completed or has timed out,
\* unless a timer callback throws first, the session is interrupted, so that it
\* settles nothing any more, or the embedder is in a pump, which blocks.
OperationsSettle ==
  []<>(failed \/ interrupted \/ owner = "pumping" \/ DrainSettles = {})
=============================================================================
