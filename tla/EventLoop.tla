------------------------------ MODULE EventLoop ------------------------------
(***************************************************************************)
(* The event loop of one RuntimeSession (src/runtime_event_loop.v): timers *)
(* owned by the session, wakeup hints for timers owned by QuickJS, the one *)
(* pending wakeup with its generation, and deliver_wakeup.  Everything     *)
(* here runs on the owner lane; the host side is the set of wakeups it was *)
(* asked for, the async-ready flag and the workers' completions.  Host     *)
(* operations appear only as far as the loop sees them: their deadlines    *)
(* and whether a terminal event is queued (HostAsync has the rest).  An    *)
(* interrupt may come at any time; from then on QuickJS runs nothing more, *)
(* and the calls of V code that need it fail.                              *)
(* TimerGlobals composes these actions with the JavaScript above them.     *)
(***************************************************************************)
EXTENDS Integers, FiniteSetsExt

CONSTANTS
  MaxTime,      \* bound: the clock stops here
  MaxCalls,     \* bound: calls into the timer and scheduling API
  MaxWakeups,   \* bound: the host delivers only below this generation
  Delays,       \* normalised delays in milliseconds
  Hints,        \* names of timer wakeup hints
  MaxHints,     \* limits.max_timer_wakeup_hints, zero for no limit
  MaxOps        \* bound: host operations

ASSUME EventLoopAssumption ==
  /\ MaxTime \in Nat /\ MaxCalls \in Nat /\ MaxWakeups \in Nat
  /\ Delays \subseteq Nat
  /\ MaxHints \in Nat /\ MaxOps \in Nat

Never == -1                     \* no time
NoTimer == 0                    \* create_runtime_timer's "not created"
Timers == 1 .. MaxCalls
Ops == 1 .. MaxOps
Nothing == [due |-> Never, interval |-> 0, repeating |-> FALSE]

VARIABLES
  clock,        \* now_fn()
  owned,        \* config.runtime_owned_timers
  timers,       \* state.owned_timers; due = Never: not in the map
  nextTimer,    \* state.next_timer_id
  hints,        \* state.timer_wakeup_hints; Never: not in the map
  pending,      \* state.has_pending_wakeup
  wakeAt,       \* state.next_wakeup_at_ms
  generation,   \* state.wakeup_generation
  closed,       \* event_loop_state.closed
  interrupted,  \* interrupt_reason() # .none: ensure_executable fails
  started,      \* host operations started so far
  deadline,     \* deadlines of operations without a terminal event
  completed,    \* operations whose terminal event is queued
  settled,      \* operations whose Promise was settled
  lost,         \* operations whose event was dropped or whose port nobody got
  notified,     \* async_ready_fn was called, deliver_wakeup(0) is due
  requested,    \* wakeups the host was asked for and still holds
  owner,        \* where the owner is in deliver_wakeup
  current,      \* the timer whose callback runs
  calls,        \* API calls left, an interrupt counted as one
  firedAt,      \* history: when each timer fired last
  lapsed,       \* history: wakeup cleared by a delivery, not recomputed yet
  failed        \* history: the last delivery ended before its drain was done

wakeupVars == <<pending, wakeAt, generation, requested, lapsed>>
timerVars == <<timers, nextTimer, firedAt>>
asyncVars == <<started, deadline, completed, settled, notified, lost>>
vars == <<clock, owned, timerVars, hints, wakeupVars, closed, interrupted, asyncVars,
          owner, current, calls, failed>>

Init ==
  /\ clock = 0
  /\ owned \in BOOLEAN
  /\ timers = [t \in Timers |-> Nothing]
  /\ nextTimer = 1
  /\ hints = [h \in Hints |-> Never]
  /\ pending = FALSE
  /\ wakeAt = Never
  /\ generation = 0
  /\ closed = FALSE
  /\ interrupted = FALSE
  /\ started = 0
  /\ deadline = [o \in Ops |-> Never]
  /\ completed = {}
  /\ settled = {}
  /\ lost = {}
  /\ notified = FALSE
  /\ requested = {}
  /\ owner = "idle"
  /\ current = NoTimer
  /\ calls = MaxCalls
  /\ firedAt = [t \in Timers |-> Never]
  /\ lapsed = FALSE
  /\ failed = FALSE

-----------------------------------------------------------------------------
(* The wakeup request. *)

Live == {t \in Timers : timers[t].due # Never}

\* Mutant of TimesOf: the session's own timers are left out.
TimesOfOthers(hs, ts, ds) == ({hs[h] : h \in Hints} \cup {ds[o] : o \in Ops}) \ {Never}

TimesOf(hs, ts, ds) ==
  ({hs[h] : h \in Hints} \cup {ts[t].due : t \in Timers} \cup {ds[o] : o \in Ops})
    \ {Never}

\* clear_wakeup_request, with cancel_wake_fn on the host's side.
ClearWakeup ==
  /\ requested' = {r \in requested : ~(pending /\ r.generation = generation)}
  /\ pending' = FALSE
  /\ wakeAt' = Never
  /\ UNCHANGED generation

\* request_wakeup_at, with wake_fn on the host's side.  An earlier request is
\* superseded, not cancelled: the host still holds it.
RequestWakeup(at) ==
  IF pending /\ wakeAt = at THEN UNCHANGED <<pending, wakeAt, generation, requested>>
  ELSE /\ pending' = TRUE
       /\ wakeAt' = at
       /\ generation' = generation + 1
       /\ requested' = requested \cup {[generation |-> generation + 1, at |-> at]}

\* Mutant of Reschedule: the latest deadline instead of the earliest.
RescheduleLatest(hs, ts, ds) ==
  LET times == TimesOf(hs, ts, ds)
  IN  /\ IF times = {} THEN ClearWakeup ELSE RequestWakeup(Max(times))
      /\ lapsed' = FALSE

\* reschedule_timer_wakeup over the maps as they are after the caller's change.
Reschedule(hs, ts, ds) ==
  LET times == TimesOf(hs, ts, ds)
  IN  /\ IF times = {} THEN ClearWakeup ELSE RequestWakeup(Min(times))
      /\ lapsed' = FALSE

-----------------------------------------------------------------------------
(* Calls JavaScript makes through the bridge in a turn, in a timer callback *)
(* or in a job, and calls the host makes between turns.                     *)

JsRunning == owner \in {"idle", "callback", "jobs", "pumping", "pumped"}

ApiCall ==
  /\ JsRunning /\ ~closed
  /\ calls > 0
  /\ calls' = calls - 1

CreateTimer(delay, repeating) ==
  /\ ApiCall /\ owned
  /\ timers' = [timers EXCEPT ![nextTimer] =
       [due |-> clock + delay, interval |-> delay, repeating |-> repeating]]
  /\ nextTimer' = nextTimer + 1
  /\ Reschedule(hints, timers', deadline)
  /\ UNCHANGED <<clock, owned, hints, closed, interrupted, asyncVars, owner, current,
                 firedAt, failed>>

CancelTimer(t) ==
  /\ ApiCall /\ t \in Live
  /\ timers' = [timers EXCEPT ![t] = Nothing]
  /\ Reschedule(hints, timers', deadline)
  /\ UNCHANGED <<clock, owned, hints, closed, interrupted, asyncVars, owner, current,
                 nextTimer, firedAt, failed>>

Hinted == {h \in Hints : hints[h] # Never}

\* request_timer_wakeup_after; a hint beyond the limit is refused.
HintTimer(h, delay) ==
  IF h \notin Hinted /\ MaxHints > 0 /\ Cardinality(Hinted) >= MaxHints
  THEN UNCHANGED <<hints, wakeupVars>>
  ELSE /\ hints' = [hints EXCEPT ![h] = clock + delay]
       /\ Reschedule(hints', timers, deadline)

\* clear_timer_wakeup.
ClearHint(h) ==
  IF h \notin Hinted THEN UNCHANGED <<hints, wakeupVars>>
  ELSE /\ hints' = [hints EXCEPT ![h] = Never]
       /\ Reschedule(hints', timers, deadline)

\* start_host_async_operation; only one with a timeout reschedules.  An
\* interrupt while it runs leaves the operation registered: there is no
\* reschedule then, and nobody gets the port.
StartOperation(timeout) ==
  /\ ApiCall /\ started < MaxOps
  /\ ~interrupted /\ interrupted' \in BOOLEAN
  /\ started' = started + 1
  /\ deadline' = [deadline EXCEPT ![started + 1] = IF timeout > 0 THEN clock + timeout ELSE Never]
  /\ lost' = IF interrupted' THEN lost \cup {started + 1} ELSE lost
  /\ IF timeout > 0 /\ ~interrupted' THEN Reschedule(hints, timers, deadline')
     ELSE UNCHANGED wakeupVars
  /\ UNCHANGED <<clock, owned, timerVars, hints, closed, completed, settled, notified,
                 owner, current, failed>>

\* configure_event_loop with the other ownership: timers of a session that
\* gives them up are dropped, the wakeup is not recomputed.
Configure ==
  /\ ApiCall /\ owner = "idle"
  /\ owned' = ~owned
  /\ timers' = IF owned THEN [t \in Timers |-> Nothing] ELSE timers
  /\ UNCHANGED <<clock, hints, wakeupVars, closed, interrupted, asyncVars, owner,
                 current, nextTimer, firedAt, failed>>

-----------------------------------------------------------------------------
(* deliver_wakeup. *)

\* A non-zero generation other than the pending one is ignored.
Obsolete(g) == pending /\ g # 0 /\ g # generation

DeliverBegin(g) ==
  /\ owner = "idle" /\ ~closed
  /\ generation < MaxWakeups
  /\ requested' = {r \in requested : r.generation # g}
  /\ notified' = (notified /\ g # 0)
  /\ IF Obsolete(g) THEN UNCHANGED <<pending, wakeAt, lapsed, owner, failed>>
     ELSE /\ pending' = FALSE
          /\ wakeAt' = Never
          /\ lapsed' = TRUE
          /\ owner' = "firing"
          /\ failed' = FALSE
  /\ UNCHANGED <<clock, owned, timerVars, hints, generation, closed, interrupted,
                 started, deadline, completed, settled, lost, current>>

\* The host's scheduler delivers a wakeup when its time has come, and
\* deliver_wakeup(0) when a completion was announced.
HostDelivers ==
  /\ \/ \E r \in requested : r.at <= clock /\ DeliverBegin(r.generation)
     \/ notified /\ DeliverBegin(0)
  /\ UNCHANGED calls

\* A host may also deliver early or without being asked.
HostDeliversAnyway ==
  /\ calls > 0
  /\ calls' = calls - 1
  /\ \E g \in {0} \cup {r.generation : r \in requested} : DeliverBegin(g)

DueTimers == {t \in Live : timers[t].due <= clock}

\* The earliest due timer; among equals the one created first.
NextDue ==
  CHOOSE t \in DueTimers : \A u \in DueTimers :
    timers[t].due < timers[u].due \/ (timers[t].due = timers[u].due /\ t <= u)

AtLeastOne(n) == IF n <= 0 THEN 1 ELSE n

\* Mutant of NextInterval: a zero interval is due again at once.
NextIntervalZero(t) ==
  LET next == timers[t].due + timers[t].interval
  IN  IF next < clock THEN clock + timers[t].interval ELSE next

\* A repeating timer keeps its period unless it fell behind.
NextInterval(t) ==
  LET step == AtLeastOne(timers[t].interval)
      next == timers[t].due + step
  IN  IF next <= clock THEN clock + step ELSE next

FireTimer ==
  /\ owner = "firing" /\ owned /\ DueTimers # {} /\ ~interrupted
  /\ LET t == NextDue
     IN  /\ timers' = [timers EXCEPT ![t] =
              IF @.repeating THEN [@ EXCEPT !.due = NextInterval(t)] ELSE Nothing]
         /\ firedAt' = [firedAt EXCEPT ![t] = clock]
         /\ current' = t
  /\ owner' = "callback"
  /\ UNCHANGED <<clock, owned, nextTimer, hints, wakeupVars, closed, interrupted,
                 asyncVars, calls, failed>>

\* The callback cannot be called: the error path of CallbackThrows at once.
FireFails ==
  /\ owner = "firing" /\ owned /\ DueTimers # {} /\ interrupted
  /\ timers' = [timers EXCEPT ![NextDue] = Nothing]
  /\ IF timers[NextDue].repeating THEN Reschedule(hints, timers', deadline)
     ELSE UNCHANGED wakeupVars
  /\ owner' = "idle" /\ failed' = TRUE
  /\ UNCHANGED <<clock, owned, nextTimer, firedAt, hints, closed, interrupted,
                 asyncVars, current, calls>>

CallbackReturns ==
  /\ owner = "callback"
  /\ owner' = "firing"
  /\ current' = NoTimer
  /\ UNCHANGED <<clock, owned, timerVars, hints, wakeupVars, closed, interrupted,
                 asyncVars, calls, failed>>

\* The error path: the timer is cancelled, if it still is in the map, and
\* deliver_wakeup returns without draining.
CallbackThrows ==
  /\ owner = "callback"
  /\ owner' = "idle"
  /\ current' = NoTimer
  /\ failed' = TRUE
  /\ timers' = [timers EXCEPT ![current] = Nothing]
  /\ IF current \in Live THEN Reschedule(hints, timers', deadline)
     ELSE UNCHANGED wakeupVars
  /\ UNCHANGED <<clock, owned, nextTimer, firedAt, hints, closed, interrupted,
                 asyncVars, calls>>

\* What drain_host_async_events settles: every queued terminal event and every
\* operation the sweep finds overdue.
DrainSettles == completed \cup {o \in Ops : deadline[o] # Never /\ deadline[o] <= clock}

\* drain_host_async_events, with its reschedule.
Drain ==
  /\ owner = "firing" /\ (owned => DueTimers = {})
  /\ interrupted => DrainSettles = {}
  /\ settled' = settled \cup DrainSettles
  /\ completed' = {}
  /\ deadline' = [o \in Ops |-> IF o \in DrainSettles THEN Never ELSE deadline[o]]
  /\ Reschedule(hints, timers, deadline')
  /\ owner' = "jobs"
  /\ UNCHANGED <<clock, owned, timerVars, hints, closed, interrupted, started, notified,
                 lost, current, calls, failed>>

\* A settlement fails, on a session interrupted by then: the rest of the batch is
\* gone, and deliver_wakeup returns without having rescheduled.
DrainFails ==
  /\ owner = "firing" /\ (owned => DueTimers = {})
  /\ interrupted' = TRUE
  /\ \E done \in SUBSET DrainSettles :
       /\ done # DrainSettles
       /\ interrupted => done = {}
       /\ settled' = settled \cup done
       /\ lost' = lost \cup (DrainSettles \ done)
  /\ completed' = {}
  /\ deadline' = [o \in Ops |-> IF o \in DrainSettles THEN Never ELSE deadline[o]]
  /\ owner' = "idle" /\ failed' = TRUE
  /\ UNCHANGED <<clock, owned, timerVars, hints, wakeupVars, closed, started, notified,
                 current, calls>>

\* The job queue is empty: reschedule and return.
DeliverEnd ==
  /\ owner = "jobs" /\ ~interrupted
  /\ owner' = "idle"
  /\ Reschedule(hints, timers, deadline)
  /\ UNCHANGED <<clock, owned, timerVars, hints, closed, interrupted, asyncVars,
                 current, calls, failed>>

\* A websocket listener or a job throws, or the session is interrupted: the second
\* reschedule is skipped.
DeliverFails ==
  /\ owner = "jobs"
  /\ owner' = "idle"
  /\ UNCHANGED <<clock, owned, timerVars, hints, wakeupVars, closed, interrupted,
                 asyncVars, current, calls, failed>>

-----------------------------------------------------------------------------
(* close, and the environment. *)

\* session.cancel() from any thread, or the execution deadline.
Interrupt ==
  /\ ~interrupted /\ ~closed
  /\ calls > 0 /\ calls' = calls - 1
  /\ interrupted' = TRUE
  /\ UNCHANGED <<clock, owned, timerVars, hints, wakeupVars, closed, asyncVars, owner,
                 current, failed>>

\* close_host_async_operations settles what is left if QuickJS still runs,
\* close_event_loop clears the wakeup, the timers and the hints.
Close ==
  /\ owner = "idle" /\ ~closed
  /\ closed' = TRUE
  /\ ClearWakeup
  /\ lapsed' = FALSE
  /\ timers' = [t \in Timers |-> Nothing]
  /\ hints' = [h \in Hints |-> Never]
  /\ settled' = IF interrupted THEN settled ELSE 1 .. started
  /\ completed' = {}
  /\ deadline' = [o \in Ops |-> Never]
  /\ UNCHANGED <<clock, owned, nextTimer, firedAt, interrupted, started, notified, lost,
                 owner, current, calls, failed>>

\* Mutant of WorkerCompletes: the host is not told.
WorkerCompletesUnheard(o) ==
  /\ ~closed
  /\ o \in (1 .. started) \ (settled \cup completed \cup lost)
  /\ completed' = completed \cup {o}
  /\ deadline' = [deadline EXCEPT ![o] = Never]
  /\ UNCHANGED <<clock, owned, timerVars, hints, wakeupVars, closed, interrupted,
                 started, settled, lost, notified, owner, current, calls, failed>>

\* A worker's terminal event: queued, and the host is told.
WorkerCompletes(o) ==
  /\ ~closed
  /\ o \in (1 .. started) \ (settled \cup completed \cup lost)
  /\ completed' = completed \cup {o}
  /\ deadline' = [deadline EXCEPT ![o] = Never]
  /\ notified' = TRUE
  /\ UNCHANGED <<clock, owned, timerVars, hints, wakeupVars, closed, interrupted,
                 started, settled, lost, owner, current, calls, failed>>

Tick ==
  /\ clock < MaxTime
  /\ clock' = clock + 1
  /\ UNCHANGED <<owned, timerVars, hints, wakeupVars, closed, interrupted, asyncVars,
                 owner, current, calls, failed>>

-----------------------------------------------------------------------------
\* The deadlines somebody waits for: not those of operations nobody knows of.
Deadlines ==
  TimesOf(hints, timers, [o \in Ops |-> IF o \in lost THEN Never ELSE deadline[o]])

Moments == Nat \cup {Never}

TypeOK ==
  /\ clock \in 0 .. MaxTime
  /\ owned \in BOOLEAN
  /\ timers \in [Timers -> [due : Moments, interval : Nat, repeating : BOOLEAN]]
  /\ nextTimer \in 1 .. MaxCalls + 1
  /\ hints \in [Hints -> Moments]
  /\ pending \in BOOLEAN
  /\ wakeAt \in Moments
  /\ generation \in Nat
  /\ closed \in BOOLEAN /\ interrupted \in BOOLEAN
  /\ started \in 0 .. MaxOps
  /\ deadline \in [Ops -> Moments]
  /\ settled \subseteq 1 .. started
  /\ completed \subseteq (1 .. started) \ settled
  /\ lost \subseteq 1 .. started
  /\ notified \in BOOLEAN
  /\ requested \subseteq [generation : Nat, at : Nat]
  /\ owner \in {"idle", "firing", "callback", "jobs", "pumping", "pumped"}
  /\ current \in Timers \cup {NoTimer}
  /\ calls \in 0 .. MaxCalls
  /\ firedAt \in [Timers -> Moments]
  /\ lapsed \in BOOLEAN
  /\ failed \in BOOLEAN

\* The host holds the pending wakeup, and it is no later than any deadline.
Covered ==
  Deadlines # {} =>
    /\ pending /\ wakeAt <= Min(Deadlines)
    /\ [generation |-> generation, at |-> wakeAt] \in requested

\* Whatever mix of calls, callbacks and deliveries came before, between turns
\* the session has asked for a wakeup no later than its earliest deadline, and
\* the host still holds that one: superseding, clearing and obsolete deliveries
\* never leave the session waiting for a wakeup that cannot come.  The exception
\* is a delivery that cleared the wakeup and then returned an error before it had
\* drained: a timer callback threw (runtime_event_loop.v:442-446), or an interrupt
\* made its call or a settlement fail (runtime_event_loop.v:467-468).
WakeupNeverLate ==
  owner = "idle" /\ ~closed /\ ~(lapsed /\ failed) => Covered

\* RUNTIME_CONTRACT.md, Timer Contract: deliver_wakeup(generation) "fires due
\* one-shot/interval callbacks on the owner lane and reschedules the earliest
\* remaining deadline."  So it should, too, when a callback throws; an interrupted
\* session is not meant.
DeliveryReschedules == owner = "idle" /\ ~closed /\ ~interrupted => Covered

\* One timer never fires twice at the same instant (however far an interval
\* fell behind), and a one-shot timer fires once.
NoDoubleFire ==
  [][current' \notin {current, NoTimer} =>
       firedAt[current'] < (IF timers[current'].repeating THEN clock ELSE 0)]_vars
=============================================================================
