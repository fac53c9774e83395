-------------------------- MODULE TimerGlobalsProofs --------------------------
(* Proofs about TimerGlobals, and with it about EventLoop, for any number of  *)
(* calls, timers, handles and operations and any clock.                       *)
EXTENDS TimerGlobals, WellFoundedInduction, TLAPS

-----------------------------------------------------------------------------
(* The steps, one by one. *)

Creates(delay, repeating) == CreateTimer(delay, repeating) /\ UNCHANGED jsVars

CreatesPromise(delay) ==
  /\ promise = "none" /\ promise' = "waiting" /\ listening' = TRUE
  /\ CreateTimer(delay, FALSE)
  /\ timer' = [owned |-> TRUE, id |-> nextTimer]
  /\ UNCHANGED <<osVars, running, woken>>

Handles(what, h, delay) == NewHandle(what, h, delay) /\ UNCHANGED promiseVars

HandlesPromise(h, delay) ==
  /\ promise = "none" /\ promise' = "waiting" /\ listening' = TRUE
  /\ NewHandle("promise", h, delay)
  /\ timer' = [owned |-> FALSE, id |-> h]

Starts(timeout) == StartOperation(timeout) /\ UNCHANGED jsVars
Configures == Configure /\ UNCHANGED jsVars

\* A call of the host, asked for or counted.
HostCall == UNCHANGED calls \/ (calls > 0 /\ calls' = calls - 1)

Delivers(g) ==
  DeliverBegin(g) /\ HostCall /\ woken' = FALSE /\ UNCHANGED <<osVars, promiseVars, running>>
Fires == FireTimer /\ UNCHANGED jsVars
FailsToFire == FireFails /\ Returned
Drains == Drain /\ UNCHANGED jsVars
FailsToDrain == DrainFails /\ Returned
Returns ==
  /\ CallbackReturns
  /\ IF PromiseTimer(TRUE, current) THEN Resolve ELSE UNCHANGED <<promise, listening>>
  /\ UNCHANGED <<osVars, timer, running, woken>>
Throws == CallbackThrows /\ Returned
Ends == DeliverEnd /\ Returned
FailsToEnd == DeliverFails /\ Returned
Interrupts == Interrupt /\ UNCHANGED jsVars
Completes(o) == WorkerCompletes(o) /\ UNCHANGED jsVars
Ticks == Tick /\ UNCHANGED jsVars
Pumps == PumpBegins /\ HostCall

ScriptStep ==
  \/ \E delay \in Delays : \E repeating \in BOOLEAN : Creates(delay, repeating)
  \/ \E delay \in Delays : CreatesPromise(delay)
  \/ \E delay \in Delays : \E h \in Hints : \E what \in {"timeout", "interval"} :
       Handles(what, h, delay)
  \/ \E delay \in Delays : \E h \in Hints : HandlesPromise(h, delay)
  \/ \E h \in Hints : ClearTimeout(h) \/ ClearInterval(h)
  \/ \E t \in Timers : ClearOwned(t)
  \/ Abort
  \/ \E timeout \in Delays : Starts(timeout)
  \/ Configures

HostStep ==
  \/ \E g : Delivers(g)
  \/ Fires \/ Drains \/ Returns \/ Throws \/ Ends \/ FailsToEnd
  \/ FailsToFire \/ FailsToDrain \/ Interrupts
  \/ SessionClose \/ (\E o \in Ops : Completes(o)) \/ Ticks

PumpingStep ==
  \/ Pumps \/ (\E h \in Hints : OsFires(h)) \/ OsReturns \/ OsThrows \/ PumpEnds

-----------------------------------------------------------------------------
(* Times. *)

TimerMap == [Timers -> [due : Moments, interval : Nat, repeating : BOOLEAN]]

\* A set of moments has an earliest one.
LEMMA Earliest ==
  ASSUME NEW S \in SUBSET Nat, S # {}
  PROVE  Min(S) \in S /\ \A m \in S : Min(S) <= m
<1> DEFINE less == OpToRel(<, Nat)
<1>1. IsWellFoundedOn(less, Nat)
  BY NatLessThanWellFounded
<1>2. \A x, y \in Nat : x < y => <<x, y>> \in less
  BY DEF OpToRel
<1> HIDE DEF less
<1>3. PICK x \in S : \A y \in S : <<y, x>> \notin less
  BY <1>1, WFMin
<1>4. ASSUME NEW y \in S PROVE x <= y
  <2>1. x \in Nat /\ y \in Nat /\ <<y, x>> \notin less
    BY <1>3
  <2>2. ~(y < x)
    BY <1>2, <2>1
  <2> QED BY <2>1, <2>2
<1> QED BY <1>3, <1>4 DEF Min

\* Whatever the maps hold, a deadline is a point in time.
LEMMA TimesAreMoments ==
  ASSUME NEW hs \in [Hints -> Moments], NEW ts \in TimerMap, NEW ds \in [Ops -> Moments]
  PROVE  TimesOf(hs, ts, ds) \subseteq Nat
<1>1. \A h \in Hints : hs[h] \in Nat \cup {Never}
  BY DEF Moments
<1>2. \A t \in Timers : ts[t].due \in Nat \cup {Never}
  BY DEF Moments, TimerMap
<1>3. \A o \in Ops : ds[o] \in Nat \cup {Never}
  BY DEF Moments
<1> QED BY <1>1, <1>2, <1>3 DEF TimesOf

\* There is a timer to fire when one is due.
LEMMA NextIsDue ==
  ASSUME timers \in TimerMap, DueTimers # {}
  PROVE  NextDue \in DueTimers
<1> DEFINE dues == {timers[t].due : t \in DueTimers}
           first == {t \in DueTimers : timers[t].due = Min(dues)}
<1>0. Timers \subseteq Nat
  BY EventLoopAssumption DEF Timers
<1>1. \A t \in DueTimers : timers[t].due \in Nat /\ t \in Nat
  BY <1>0 DEF DueTimers, Live, TimerMap, Moments
<1>2. dues \in SUBSET Nat /\ dues # {}
  BY <1>1
<1>3. Min(dues) \in dues /\ \A m \in dues : Min(dues) <= m
  <2> HIDE DEF dues
  <2> QED BY <1>2, Earliest
<1>4. first \in SUBSET Nat /\ first # {}
  BY <1>1, <1>3
<1>5. Min(first) \in first /\ \A t \in first : Min(first) <= t
  <2> HIDE DEF first
  <2> QED BY <1>4, Earliest
<1>6. \E t \in DueTimers : \A u \in DueTimers :
        timers[t].due < timers[u].due \/ (timers[t].due = timers[u].due /\ t <= u)
  <2>1. Min(first) \in DueTimers /\ timers[Min(first)].due = Min(dues)
    BY <1>5
  <2>2. ASSUME NEW u \in DueTimers
        PROVE  \/ timers[Min(first)].due < timers[u].due
               \/ timers[Min(first)].due = timers[u].due /\ Min(first) <= u
    <3>1. Min(dues) <= timers[u].due /\ Min(dues) \in Nat /\ timers[u].due \in Nat
      BY <1>1, <1>2, <1>3
    <3>2. CASE timers[u].due = Min(dues)
      BY <1>5, <2>1, <3>2
    <3>3. CASE timers[u].due # Min(dues)
      BY <2>1, <3>1, <3>3
    <3> QED BY <3>2, <3>3
  <2> QED BY <2>1, <2>2
<1> QED BY <1>6 DEF NextDue

LEMMA NextIntervalLater ==
  ASSUME timers \in TimerMap, clock \in Nat, NEW t \in DueTimers
  PROVE  /\ NextInterval(t) \in Nat
         /\ NextInterval(t) > clock /\ NextInterval(t) >= timers[t].due
BY DEF TimerMap, DueTimers, Live, Moments, NextInterval, AtLeastOne

-----------------------------------------------------------------------------
(* Types. *)

CoreTyped ==
  /\ clock \in 0 .. MaxTime /\ owned \in BOOLEAN /\ closed \in BOOLEAN
  /\ started \in 0 .. MaxOps
  /\ settled \subseteq 1 .. started
  /\ completed \subseteq (1 .. started) \ settled
  /\ lost \subseteq 1 .. started
  /\ notified \in BOOLEAN /\ failed \in BOOLEAN /\ interrupted \in BOOLEAN
  /\ owner \in {"idle", "firing", "callback", "jobs", "pumping", "pumped"}
  /\ current \in Timers \cup {NoTimer}
  /\ calls \in 0 .. MaxCalls /\ nextTimer \in 1 .. MaxCalls + 1
  /\ nextTimer + calls <= MaxCalls + 1
  /\ \A o \in Ops : deadline[o] # Never => o <= started

MapsTyped ==
  /\ timers \in TimerMap
  /\ hints \in [Hints -> Moments]
  /\ deadline \in [Ops -> Moments]
  /\ firedAt \in [Timers -> Moments]

WakeTyped ==
  /\ pending \in BOOLEAN
  /\ wakeAt \in Moments
  /\ generation \in Nat
  /\ requested \subseteq [generation : Nat, at : Nat]
  /\ lapsed \in BOOLEAN

HandlesTyped ==
  /\ kind \in [Hints -> {"none", "timeout", "interval", "promise"}]
  /\ due \in [Hints -> Moments] /\ every \in [Hints -> Nat]
  /\ cleared \subseteq Hints /\ refused \subseteq Hints
  /\ running \in Hints \cup {NoTimer}
  /\ owner = "pumped" => running \in Hints /\ kind[running] \in {"timeout", "interval"}

PromiseTyped ==
  /\ promise \in {"none", "waiting", "resolved", "aborted"}
  /\ timer \in [owned : BOOLEAN, id : Nat]
  /\ promise # "none" /\ ~timer.owned => timer.id \in Hints
  /\ listening \in BOOLEAN /\ woken \in BOOLEAN

Typed == CoreTyped /\ MapsTyped /\ WakeTyped /\ HandlesTyped /\ PromiseTyped

LEMMA NextCases == Next => ScriptStep \/ HostStep \/ PumpingStep
<1> SUFFICES ASSUME Next PROVE ScriptStep \/ HostStep \/ PumpingStep
  OBVIOUS
<1>1. CASE Calls
  BY <1>1 DEF Calls, SetTimeout, SetInterval, PromiseTimeout, Creates, CreatesPromise,
       Handles, HandlesPromise, Starts, Configures, ScriptStep
<1>2. CASE Deliver
  BY <1>2 DEF Deliver, HostDeliversNext, HostDelivers, HostDeliversAnyway, Delivers, HostCall, HostStep
<1>3. CASE OwnerStep
  BY <1>3 DEF OwnerStep, Fires, FailsToFire, Drains, FailsToDrain, Returns, Throws, Ends,
       FailsToEnd, HostStep
<1>4. CASE PumpStep
  BY <1>4 DEF PumpStep, PumpAfterDelivery, Pumps, HostCall, PumpingStep
<1>5. CASE PumpUnasked
  BY <1>5 DEF PumpUnasked, Pumps, HostCall, PumpingStep
<1>6. CASE SessionClose
  BY <1>6 DEF HostStep
<1>7. CASE (\E o \in Ops : WorkerCompletes(o)) /\ UNCHANGED jsVars
  BY <1>7 DEF Completes, HostStep
<1>8. CASE Tick /\ UNCHANGED jsVars
  BY <1>8 DEF Ticks, HostStep
<1>9. CASE Interrupt /\ UNCHANGED jsVars
  BY <1>9 DEF Interrupts, HostStep
<1> QED BY <1>1, <1>2, <1>3, <1>4, <1>5, <1>6, <1>7, <1>8, <1>9 DEF Next

LEMMA RequestTyped ==
  ASSUME WakeTyped, NEW at \in Nat, RequestWakeup(at), lapsed' = FALSE
  PROVE  WakeTyped'
<1>1. CASE pending /\ wakeAt = at
  BY <1>1 DEF RequestWakeup, WakeTyped
<1>2. CASE ~(pending /\ wakeAt = at)
  <2>1. [generation |-> generation + 1, at |-> at] \in [generation : Nat, at : Nat]
    BY DEF WakeTyped
  <2>2. requested' \subseteq [generation : Nat, at : Nat]
    BY <1>2, <2>1 DEF RequestWakeup, WakeTyped
  <2>3. pending' \in BOOLEAN /\ lapsed' \in BOOLEAN
    BY <1>2 DEF RequestWakeup
  <2>4. wakeAt' \in Moments /\ generation' \in Nat
    BY <1>2 DEF RequestWakeup, WakeTyped, Moments
  <2> QED BY <2>2, <2>3, <2>4 DEF WakeTyped
<1> QED BY <1>1, <1>2

LEMMA RescheduleTyped ==
  ASSUME WakeTyped, NEW hs \in [Hints -> Moments], NEW ts \in TimerMap,
         NEW ds \in [Ops -> Moments], Reschedule(hs, ts, ds)
  PROVE  WakeTyped'
<1> DEFINE times == TimesOf(hs, ts, ds)
<1>1. times \subseteq Nat
  BY TimesAreMoments
<1>2. CASE times = {}
  BY <1>2 DEF Reschedule, ClearWakeup, WakeTyped, Moments
<1>3. CASE times # {}
  <2>1. Min(times) \in Nat /\ RequestWakeup(Min(times)) /\ lapsed' = FALSE
    <3> HIDE DEF times
    <3>1. Min(times) \in times
      BY <1>1, <1>3, Earliest
    <3>2. times = TimesOf(hs, ts, ds)
      BY DEF times
    <3> QED BY <1>1, <1>3, <3>1, <3>2 DEF Reschedule
  <2> HIDE DEF times
  <2> QED BY <2>1, RequestTyped
<1> QED BY <1>2, <1>3

LEMMA CreatesTyped ==
  ASSUME Typed, NEW delay \in Delays, NEW repeating \in BOOLEAN,
         CreateTimer(delay, repeating)
  PROVE  CoreTyped' /\ MapsTyped' /\ WakeTyped' /\ nextTimer \in Nat
<1>1. delay \in Nat /\ clock \in Nat /\ nextTimer \in Nat
  BY EventLoopAssumption DEF Typed, CoreTyped
<1>2. CoreTyped'
  <2>1. /\ calls' \in 0 .. MaxCalls /\ nextTimer' \in 1 .. MaxCalls + 1
        /\ nextTimer' + calls' <= MaxCalls + 1
    BY EventLoopAssumption DEF CreateTimer, ApiCall, Typed, CoreTyped
  <2> QED BY <2>1 DEF CreateTimer, Typed, CoreTyped, asyncVars
<1>3. timers' \in TimerMap
  <2> DEFINE new == [due |-> clock + delay, interval |-> delay, repeating |-> repeating]
  <2>1. clock + delay \in Moments
    BY <1>1 DEF Moments
  <2>2. new \in [due : Moments, interval : Nat, repeating : BOOLEAN]
    BY <1>1, <2>1
  <2>3. timers' = [timers EXCEPT ![nextTimer] = new]
    BY DEF CreateTimer
  <2> HIDE DEF new
  <2> QED BY <2>2, <2>3 DEF Typed, MapsTyped, TimerMap
<1>4. MapsTyped'
  BY <1>3 DEF CreateTimer, Typed, MapsTyped, asyncVars
<1>5. WakeTyped'
  BY <1>3, RescheduleTyped DEF CreateTimer, Typed, MapsTyped
<1> QED BY <1>1, <1>2, <1>4, <1>5

LEMMA HintTimerTyped ==
  ASSUME Typed, NEW h \in Hints, NEW delay \in Nat, HintTimer(h, delay)
  PROVE  hints' \in [Hints -> Moments] /\ WakeTyped'
<1>1. clock + delay \in Moments
  BY EventLoopAssumption DEF Typed, CoreTyped, Moments
<1>2. CASE UNCHANGED <<hints, wakeupVars>>
  BY <1>2 DEF Typed, MapsTyped, WakeTyped, wakeupVars
<1>3. CASE hints' = [hints EXCEPT ![h] = clock + delay] /\ Reschedule(hints', timers, deadline)
  <2>1. hints' \in [Hints -> Moments]
    BY <1>1, <1>3 DEF Typed, MapsTyped
  <2> QED BY <1>3, <2>1, RescheduleTyped DEF Typed, MapsTyped
<1> QED BY <1>2, <1>3 DEF HintTimer

LEMMA ClearHintTyped ==
  ASSUME Typed, NEW h \in Hints, ClearHint(h)
  PROVE  hints' \in [Hints -> Moments] /\ WakeTyped'
<1>1. CASE UNCHANGED <<hints, wakeupVars>>
  BY <1>1 DEF Typed, MapsTyped, WakeTyped, wakeupVars
<1>2. CASE hints' = [hints EXCEPT ![h] = Never] /\ Reschedule(hints', timers, deadline)
  <2>1. hints' \in [Hints -> Moments]
    BY <1>2 DEF Typed, MapsTyped, Moments
  <2> QED BY <1>2, <2>1, RescheduleTyped DEF Typed, MapsTyped
<1> QED BY <1>1, <1>2 DEF ClearHint

LEMMA ArmTyped ==
  ASSUME Typed, NEW h \in Hints, NEW delay \in Nat, Arm(h, delay)
  PROVE  /\ hints' \in [Hints -> Moments] /\ WakeTyped'
         /\ due' \in [Hints -> Moments] /\ refused' \subseteq Hints
<1>1. clock + delay \in Moments
  BY EventLoopAssumption DEF Typed, CoreTyped, Moments
<1>2. due' \in [Hints -> Moments]
  BY <1>1 DEF Arm, Typed, HandlesTyped
<1>3. refused' \subseteq Hints
  BY DEF Arm, Typed, HandlesTyped
<1> QED BY <1>2, <1>3, HintTimerTyped DEF Arm

LEMMA NewHandleTyped ==
  ASSUME Typed, NEW what \in {"timeout", "interval", "promise"}, NEW h \in Hints,
         NEW delay \in Delays, NewHandle(what, h, delay)
  PROVE  CoreTyped' /\ MapsTyped' /\ WakeTyped' /\ HandlesTyped' /\ woken' \in BOOLEAN
<1>1. delay \in Nat
  BY EventLoopAssumption
<1>2. CoreTyped'
  BY EventLoopAssumption DEF NewHandle, ApiCall, JsRunning, Typed, CoreTyped, asyncVars, timerVars
<1>3. /\ hints' \in [Hints -> Moments] /\ WakeTyped'
      /\ due' \in [Hints -> Moments] /\ refused' \subseteq Hints
  BY <1>1, ArmTyped DEF NewHandle
<1>4. MapsTyped'
  BY <1>3 DEF NewHandle, Typed, MapsTyped, asyncVars, timerVars
<1>5. every' \in [Hints -> Nat] /\ kind' \in [Hints -> {"none", "timeout", "interval", "promise"}]
  BY <1>1 DEF NewHandle, Typed, HandlesTyped
<1>6. owner' = "pumped" => running' \in Hints /\ kind'[running'] \in {"timeout", "interval"}
  BY DEF NewHandle, Typed, HandlesTyped
<1>7. HandlesTyped'
  BY <1>3, <1>5, <1>6 DEF NewHandle, Typed, HandlesTyped
<1> QED BY <1>2, <1>3, <1>4, <1>7 DEF NewHandle, Typed, PromiseTyped

LEMMA ClearHandleTyped ==
  ASSUME Typed, NEW h \in Hints, ClearHandle(h)
  PROVE  /\ MapsTyped' /\ WakeTyped'
         /\ due' \in [Hints -> Moments] /\ cleared' \subseteq Hints
<1>1. hints' \in [Hints -> Moments] /\ WakeTyped'
  BY ClearHintTyped DEF ClearHandle
<1>2. MapsTyped'
  BY <1>1 DEF ClearHandle, Typed, MapsTyped, asyncVars, timerVars
<1> QED BY <1>1, <1>2 DEF ClearHandle, Typed, HandlesTyped, Moments

LEMMA CancelTyped ==
  ASSUME Typed, NEW t, timers' = [timers EXCEPT ![t] = Nothing]
  PROVE  timers' \in TimerMap
<1>1. Nothing \in [due : Moments, interval : Nat, repeating : BOOLEAN]
  BY DEF Nothing, Moments
<1> QED BY <1>1 DEF Typed, MapsTyped, TimerMap

\* What a call of the API leaves alone keeps its type.
LEMMA CallTyped ==
  ASSUME Typed, ApiCall,
         UNCHANGED <<clock, owned, closed, interrupted, asyncVars, owner, current, failed,
                     nextTimer>>
  PROVE  CoreTyped'
<1>1. calls' \in 0 .. MaxCalls /\ nextTimer' + calls' <= MaxCalls + 1
  BY EventLoopAssumption DEF ApiCall, Typed, CoreTyped
<1> QED BY <1>1 DEF asyncVars, Typed, CoreTyped

LEMMA ScriptTyped == Typed /\ ScriptStep => Typed'
<1> SUFFICES ASSUME Typed, ScriptStep PROVE Typed'
  OBVIOUS
<1>1. ASSUME NEW delay \in Delays, NEW repeating \in BOOLEAN, Creates(delay, repeating)
      PROVE  Typed'
  <2>1. CoreTyped' /\ MapsTyped' /\ WakeTyped'
    BY <1>1, CreatesTyped DEF Creates
  <2>2. HandlesTyped'
    BY <1>1 DEF Creates, CreateTimer, jsVars, osVars, Typed, HandlesTyped
  <2>3. PromiseTyped'
    BY <1>1 DEF Creates, jsVars, promiseVars, Typed, PromiseTyped
  <2> QED BY <2>1, <2>2, <2>3 DEF Typed
<1>2. ASSUME NEW delay \in Delays, CreatesPromise(delay)
      PROVE  Typed'
  <2>1. CoreTyped' /\ MapsTyped' /\ WakeTyped' /\ nextTimer \in Nat
    BY <1>2, CreatesTyped DEF CreatesPromise
  <2>2. HandlesTyped'
    BY <1>2 DEF CreatesPromise, CreateTimer, osVars, Typed, HandlesTyped
  <2>3. timer' \in [owned : BOOLEAN, id : Nat]
    BY <1>2, <2>1 DEF CreatesPromise
  <2>4. timer'.owned
    BY <1>2 DEF CreatesPromise
  <2>5. PromiseTyped'
    BY <1>2, <2>3, <2>4 DEF CreatesPromise, Typed, PromiseTyped
  <2> QED BY <2>1, <2>2, <2>5 DEF Typed
<1>3. ASSUME NEW delay \in Delays, NEW h \in Hints, NEW what \in {"timeout", "interval"},
             Handles(what, h, delay)
      PROVE  Typed'
  <2>1. CoreTyped' /\ MapsTyped' /\ WakeTyped' /\ HandlesTyped' /\ woken' \in BOOLEAN
    BY <1>3, NewHandleTyped DEF Handles
  <2>2. PromiseTyped'
    BY <1>3, <2>1 DEF Handles, promiseVars, Typed, PromiseTyped
  <2> QED BY <2>1, <2>2 DEF Typed
<1>4. ASSUME NEW delay \in Delays, NEW h \in Hints, HandlesPromise(h, delay)
      PROVE  Typed'
  <2>1. CoreTyped' /\ MapsTyped' /\ WakeTyped' /\ HandlesTyped' /\ woken' \in BOOLEAN
    BY <1>4, NewHandleTyped DEF HandlesPromise
  <2>2. timer' \in [owned : BOOLEAN, id : Nat] /\ timer'.id \in Hints
    BY <1>4, HandleAssumption DEF HandlesPromise
  <2>3. PromiseTyped'
    BY <1>4, <2>1, <2>2 DEF HandlesPromise, PromiseTyped
  <2> QED BY <2>1, <2>3 DEF Typed
<1>5. ASSUME NEW h \in Hints, ClearTimeout(h)
      PROVE  Typed'
  <2>1. /\ MapsTyped' /\ WakeTyped'
        /\ due' \in [Hints -> Moments] /\ cleared' \subseteq Hints
    BY <1>5, ClearHandleTyped DEF ClearTimeout
  <2>2. CoreTyped'
    BY <1>5, CallTyped DEF ClearTimeout, ClearHandle, timerVars
  <2>3. HandlesTyped'
    BY <1>5, <2>1 DEF ClearTimeout, ClearHandle, Typed, HandlesTyped
  <2>4. PromiseTyped'
    BY <1>5 DEF ClearTimeout, promiseVars, Typed, PromiseTyped
  <2> QED BY <2>1, <2>2, <2>3, <2>4 DEF Typed
<1>6. ASSUME NEW h \in Hints, ClearInterval(h)
      PROVE  Typed'
  <2>1. hints' \in [Hints -> Moments] /\ WakeTyped'
    BY <1>6, ClearHintTyped DEF ClearInterval
  <2>2. CoreTyped'
    BY <1>6, CallTyped DEF ClearInterval, timerVars
  <2>3. MapsTyped'
    BY <1>6, <2>1 DEF ClearInterval, Typed, MapsTyped, asyncVars, timerVars
  <2>4. HandlesTyped'
    BY <1>6 DEF ClearInterval, Typed, HandlesTyped
  <2>5. PromiseTyped'
    BY <1>6 DEF ClearInterval, promiseVars, Typed, PromiseTyped
  <2> QED BY <2>1, <2>2, <2>3, <2>4, <2>5 DEF Typed
<1>7. ASSUME NEW t \in Timers, ClearOwned(t)
      PROVE  Typed'
  <2>1. timers' \in TimerMap
    BY <1>7, CancelTyped DEF ClearOwned, CancelTimer
  <2>2. WakeTyped'
    BY <1>7, <2>1, RescheduleTyped DEF ClearOwned, CancelTimer, Typed, MapsTyped
  <2>3. CoreTyped'
    BY <1>7, CallTyped DEF ClearOwned, CancelTimer
  <2>4. MapsTyped'
    BY <1>7, <2>1 DEF ClearOwned, CancelTimer, Typed, MapsTyped, asyncVars
  <2>5. HandlesTyped'
    BY <1>7 DEF ClearOwned, CancelTimer, jsVars, osVars, Typed, HandlesTyped
  <2>6. PromiseTyped'
    BY <1>7 DEF ClearOwned, jsVars, promiseVars, Typed, PromiseTyped
  <2> QED BY <2>2, <2>3, <2>4, <2>5, <2>6 DEF Typed

<1>8. CASE Abort
  <2>1. CASE timer.owned /\ timer.id \in Live
    <3>1. /\ timers' = [timers EXCEPT ![timer.id] = Nothing]
          /\ Reschedule(hints, timers', deadline)
          /\ UNCHANGED <<clock, owned, nextTimer, firedAt, hints, closed, interrupted,
                         asyncVars, owner, current, failed, osVars>>
      BY <1>8, <2>1 DEF Abort, ClearPromiseTimer
    <3>2. timers' \in TimerMap
      BY <3>1, CancelTyped
    <3>3. WakeTyped'
      BY <3>1, <3>2, RescheduleTyped DEF Typed, MapsTyped
    <3>4. CoreTyped'
      BY <1>8, <3>1, CallTyped DEF Abort
    <3>5. MapsTyped'
      BY <3>1, <3>2 DEF Typed, MapsTyped, asyncVars
    <3>6. HandlesTyped'
      BY <1>8, <3>1 DEF Abort, osVars, Typed, HandlesTyped
    <3>7. PromiseTyped'
      BY <1>8 DEF Abort, Typed, PromiseTyped
    <3> QED BY <3>3, <3>4, <3>5, <3>6, <3>7 DEF Typed
  <2>2. CASE timer.owned /\ timer.id \notin Live
    <3>1. UNCHANGED <<loopVars, osVars>>
      BY <1>8, <2>2 DEF Abort, ClearPromiseTimer
    <3>2. CoreTyped'
      BY <1>8, <3>1, CallTyped DEF Abort, loopVars, timerVars
    <3>3. MapsTyped' /\ WakeTyped'
      BY <3>1 DEF loopVars, timerVars, wakeupVars, asyncVars, Typed, MapsTyped, WakeTyped
    <3>4. HandlesTyped'
      BY <1>8, <3>1 DEF Abort, loopVars, osVars, Typed, HandlesTyped
    <3>5. PromiseTyped'
      BY <1>8 DEF Abort, Typed, PromiseTyped
    <3> QED BY <3>2, <3>3, <3>4, <3>5 DEF Typed
  <2>3. CASE ~timer.owned
    <3>1. ClearHandle(timer.id) /\ timer.id \in Hints
      BY <1>8, <2>3 DEF Abort, ClearPromiseTimer, Typed, PromiseTyped
    <3>2. /\ MapsTyped' /\ WakeTyped'
          /\ due' \in [Hints -> Moments] /\ cleared' \subseteq Hints
      BY <3>1, ClearHandleTyped
    <3>3. CoreTyped'
      BY <1>8, <3>1, CallTyped DEF Abort, ClearHandle, timerVars
    <3>4. HandlesTyped'
      BY <1>8, <3>1, <3>2 DEF Abort, ClearHandle, Typed, HandlesTyped
    <3>5. PromiseTyped'
      BY <1>8 DEF Abort, Typed, PromiseTyped
    <3> QED BY <3>2, <3>3, <3>4, <3>5 DEF Typed
  <2> QED BY <2>1, <2>2, <2>3
<1>9. ASSUME NEW timeout \in Delays, Starts(timeout)
      PROVE  Typed'
  <2>1. timeout \in Nat /\ clock \in Nat /\ started \in Nat /\ MaxOps \in Nat
    BY EventLoopAssumption DEF Typed, CoreTyped
  <2>2. deadline' \in [Ops -> Moments]
    <3> DEFINE at == IF timeout > 0 THEN clock + timeout ELSE Never
    <3>1. at \in Moments
      BY <2>1 DEF Moments
    <3>2. deadline' = [deadline EXCEPT ![started + 1] = at]
      BY <1>9 DEF Starts, StartOperation
    <3> HIDE DEF at
    <3> QED BY <3>1, <3>2 DEF Typed, MapsTyped
  <2>3. WakeTyped'
    <3>1. CASE Reschedule(hints, timers, deadline')
      BY <2>2, <3>1, RescheduleTyped DEF Typed, MapsTyped
    <3>2. CASE UNCHANGED wakeupVars
      BY <3>2 DEF wakeupVars, Typed, WakeTyped
    <3> QED BY <1>9, <3>1, <3>2 DEF Starts, StartOperation
  <2>4. started' \in 0 .. MaxOps /\ calls' \in 0 .. MaxCalls
        /\ nextTimer + calls' <= MaxCalls + 1
    BY <1>9, <2>1, EventLoopAssumption DEF Starts, StartOperation, ApiCall, Typed, CoreTyped
  <2>5. /\ settled \subseteq 1 .. started' /\ completed \subseteq (1 .. started') \ settled
        /\ lost' \subseteq 1 .. started' /\ interrupted' \in BOOLEAN
    <3>1. started' = started + 1 /\ lost' \subseteq lost \cup {started + 1}
          /\ interrupted' \in BOOLEAN
      BY <1>9 DEF Starts, StartOperation
    <3> QED BY <2>1, <3>1 DEF Typed, CoreTyped
  <2>6. \A o \in Ops : deadline'[o] # Never => o <= started'
    <3> SUFFICES ASSUME NEW o \in Ops, deadline'[o] # Never PROVE o <= started'
      OBVIOUS
    <3>1. started' = started + 1 /\ o \in Nat
      BY <1>9, <2>1 DEF Starts, StartOperation, Ops
    <3>2. CASE o = started + 1
      BY <2>1, <3>1, <3>2
    <3>3. CASE o # started + 1
      <4>1. deadline'[o] = deadline[o]
        BY <1>9, <3>3 DEF Starts, StartOperation, Typed, MapsTyped
      <4> QED BY <2>1, <3>1, <4>1 DEF Typed, CoreTyped
    <3> QED BY <3>2, <3>3
  <2>7. CoreTyped'
    BY <1>9, <2>4, <2>5, <2>6 DEF Starts, StartOperation, timerVars, Typed, CoreTyped
  <2>8. MapsTyped'
    BY <1>9, <2>2 DEF Starts, StartOperation, timerVars, Typed, MapsTyped
  <2>9. HandlesTyped' /\ PromiseTyped'
    BY <1>9 DEF Starts, StartOperation, jsVars, osVars, promiseVars, Typed, HandlesTyped,
         PromiseTyped
  <2> QED BY <2>3, <2>7, <2>8, <2>9 DEF Typed
<1>10. CASE Configures
  <2>1. timers' \in TimerMap
    <3>1. Nothing \in [due : Moments, interval : Nat, repeating : BOOLEAN]
      BY DEF Nothing, Moments
    <3> QED BY <1>10, <3>1 DEF Configures, Configure, Typed, MapsTyped, TimerMap
  <2>2. MapsTyped' /\ WakeTyped'
    BY <1>10, <2>1 DEF Configures, Configure, wakeupVars, asyncVars, Typed, MapsTyped, WakeTyped
  <2>3. owned' \in BOOLEAN
    BY <1>10 DEF Configures, Configure
  <2>4. CoreTyped'
    <3>1. calls' \in 0 .. MaxCalls /\ nextTimer + calls' <= MaxCalls + 1
      BY <1>10, EventLoopAssumption DEF Configures, Configure, ApiCall, Typed, CoreTyped
    <3> QED BY <1>10, <2>3, <3>1 DEF Configures, Configure, asyncVars, Typed, CoreTyped
  <2>5. HandlesTyped' /\ PromiseTyped'
    BY <1>10 DEF Configures, Configure, jsVars, osVars, promiseVars, Typed, HandlesTyped,
         PromiseTyped
  <2> QED BY <2>2, <2>4, <2>5 DEF Typed
<1> QED
  BY <1>1, <1>2, <1>3, <1>4, <1>5, <1>6, <1>7, <1>8, <1>9, <1>10 DEF ScriptStep

\* The steps of the loop below leave the handles as they are.
LEMMA HandlesStay ==
  ASSUME Typed, UNCHANGED <<osVars, running>>, owner' # "pumped"
  PROVE  HandlesTyped'
BY DEF osVars, Typed, HandlesTyped

LEMMA PromiseStays ==
  ASSUME Typed, UNCHANGED promiseVars, woken' \in BOOLEAN
  PROVE  PromiseTyped'
BY DEF promiseVars, Typed, PromiseTyped

LEMMA HostTyped == Typed /\ HostStep => Typed'
<1> SUFFICES ASSUME Typed, HostStep PROVE Typed'
  OBVIOUS
<1> USE DEF loopVars, timerVars, wakeupVars, asyncVars, jsVars
<1>1. ASSUME NEW g, Delivers(g)
      PROVE  Typed'
  <2>0. calls' \in 0 .. MaxCalls /\ nextTimer + calls' <= MaxCalls + 1
    BY <1>1, EventLoopAssumption DEF Delivers, HostCall, Typed, CoreTyped
  <2>1. notified' \in BOOLEAN
    BY <1>1 DEF Delivers, DeliverBegin
  <2>2. requested' \subseteq [generation : Nat, at : Nat]
    BY <1>1 DEF Delivers, DeliverBegin, Typed, WakeTyped
  <2>3. CASE UNCHANGED <<pending, wakeAt, lapsed, owner, failed>>
    <3>1. CoreTyped' /\ MapsTyped' /\ WakeTyped'
      BY <1>1, <2>0, <2>1, <2>2, <2>3 DEF Delivers, DeliverBegin, Typed, CoreTyped, MapsTyped, WakeTyped
    <3>2. HandlesTyped' /\ PromiseTyped'
      BY <1>1, <2>3, HandlesStay, PromiseStays DEF Delivers, DeliverBegin
    <3> QED BY <3>1, <3>2 DEF Typed
  <2>4. CASE pending' = FALSE /\ wakeAt' = Never /\ lapsed' = TRUE /\ owner' = "firing"
             /\ failed' = FALSE
    <3>1. CoreTyped' /\ MapsTyped'
      BY <1>1, <2>0, <2>1, <2>4 DEF Delivers, DeliverBegin, Typed, CoreTyped, MapsTyped
    <3>2. WakeTyped'
      BY <1>1, <2>2, <2>4 DEF Delivers, DeliverBegin, Typed, WakeTyped, Moments
    <3>3. HandlesTyped' /\ PromiseTyped'
      BY <1>1, <2>4, HandlesStay, PromiseStays DEF Delivers, DeliverBegin
    <3> QED BY <3>1, <3>2, <3>3 DEF Typed
  <2> QED BY <1>1, <2>3, <2>4 DEF Delivers, DeliverBegin
<1>2. CASE Fires
  <2>1. clock \in Nat /\ clock \in Moments /\ timers \in TimerMap
    BY DEF Typed, CoreTyped, MapsTyped, Moments
  <2>2. NextDue \in DueTimers /\ NextDue \in Timers
    BY <1>2, <2>1, NextIsDue DEF Fires, FireTimer, DueTimers, Live
  <2>3. NextInterval(NextDue) \in Moments
    BY <2>1, <2>2, NextIntervalLater DEF Moments
  <2>4. timers' \in TimerMap
    <3>1. CASE timers[NextDue].repeating
      <4> DEFINE next == [timers[NextDue] EXCEPT !.due = NextInterval(NextDue)]
      <4>1. next \in [due : Moments, interval : Nat, repeating : BOOLEAN]
        <5>1. timers[NextDue] \in [due : Moments, interval : Nat, repeating : BOOLEAN]
          BY <2>1, <2>2 DEF TimerMap
        <5> QED BY <2>3, <5>1
      <4>2. timers' = [timers EXCEPT ![NextDue] = next]
        BY <1>2, <2>1, <2>2, <3>1 DEF Fires, FireTimer, TimerMap
      <4> HIDE DEF next
      <4> QED BY <2>1, <4>1, <4>2 DEF TimerMap
    <3>2. CASE ~timers[NextDue].repeating
      <4>1. timers' = [timers EXCEPT ![NextDue] = Nothing]
        BY <1>2, <2>1, <2>2, <3>2 DEF Fires, FireTimer, TimerMap
      <4> QED BY <4>1, CancelTyped
    <3> QED BY <3>1, <3>2
  <2>5. firedAt' \in [Timers -> Moments] /\ current' \in Timers
    BY <1>2, <2>1, <2>2 DEF Fires, FireTimer, Typed, MapsTyped
  <2>6. MapsTyped' /\ WakeTyped'
    BY <1>2, <2>4, <2>5 DEF Fires, FireTimer, Typed, MapsTyped, WakeTyped
  <2>7. CoreTyped'
    BY <1>2, <2>5 DEF Fires, FireTimer, Typed, CoreTyped
  <2>8. HandlesTyped' /\ PromiseTyped'
    BY <1>2, HandlesStay, PromiseStays DEF Fires, FireTimer, Typed, PromiseTyped
  <2> QED BY <2>6, <2>7, <2>8 DEF Typed
<1>3. CASE Drains
  <2>1. deadline' \in [Ops -> Moments]
    BY <1>3 DEF Drains, Drain, Typed, MapsTyped, Moments
  <2>2. WakeTyped'
    BY <1>3, <2>1, RescheduleTyped DEF Drains, Drain, Typed, MapsTyped
  <2>3. settled' \subseteq 1 .. started
    <3>1. started \in Nat /\ MaxOps \in Nat
      BY EventLoopAssumption DEF Typed, CoreTyped
    <3>2. \A o \in Ops : deadline[o] # Never => o \in 1 .. started
      BY <3>1 DEF Typed, CoreTyped, Ops
    <3> QED BY <1>3, <3>2 DEF Drains, Drain, DrainSettles, Typed, CoreTyped
  <2>4. CoreTyped' /\ MapsTyped'
    BY <1>3, <2>1, <2>3 DEF Drains, Drain, Typed, CoreTyped, MapsTyped
  <2>5. HandlesTyped' /\ PromiseTyped'
    BY <1>3, HandlesStay, PromiseStays DEF Drains, Drain, Typed, PromiseTyped
  <2> QED BY <2>2, <2>4, <2>5 DEF Typed
<1>4. CASE Returns
  <2>1. CoreTyped' /\ MapsTyped' /\ WakeTyped'
    BY <1>4 DEF Returns, CallbackReturns, Typed, CoreTyped, MapsTyped, WakeTyped
  <2>2. HandlesTyped'
    BY <1>4, HandlesStay DEF Returns, CallbackReturns
  <2>3. PromiseTyped'
    BY <1>4 DEF Returns, PromiseTimer, Resolve, Typed, PromiseTyped
  <2> QED BY <2>1, <2>2, <2>3 DEF Typed
<1>5. CASE Throws
  <2>1. timers' \in TimerMap
    BY <1>5, CancelTyped DEF Throws, CallbackThrows
  <2>2. CASE Reschedule(hints, timers', deadline)
    <3>1. WakeTyped'
      BY <2>1, <2>2, RescheduleTyped DEF Typed, MapsTyped
    <3>2. CoreTyped' /\ MapsTyped'
      BY <1>5, <2>1 DEF Throws, CallbackThrows, Typed, CoreTyped, MapsTyped
    <3> QED BY <3>1, <3>2, <1>5, HandlesStay, PromiseStays DEF Throws, CallbackThrows, Returned, Typed
  <2>3. CASE UNCHANGED wakeupVars
    <3>1. CoreTyped' /\ MapsTyped' /\ WakeTyped'
      BY <1>5, <2>1, <2>3 DEF Throws, CallbackThrows, Typed, CoreTyped, MapsTyped, WakeTyped
    <3> QED BY <3>1, <1>5, HandlesStay, PromiseStays DEF Throws, CallbackThrows, Returned, Typed
  <2> QED BY <1>5, <2>2, <2>3 DEF Throws, CallbackThrows
<1>6. CASE Ends
  <2>1. WakeTyped'
    BY <1>6, RescheduleTyped DEF Ends, DeliverEnd, Typed, MapsTyped
  <2>2. CoreTyped' /\ MapsTyped'
    BY <1>6 DEF Ends, DeliverEnd, Typed, CoreTyped, MapsTyped
  <2> QED BY <2>1, <2>2, <1>6, HandlesStay, PromiseStays DEF Ends, DeliverEnd, Returned, Typed
<1>7. CASE FailsToEnd
  <2>1. CoreTyped' /\ MapsTyped' /\ WakeTyped'
    BY <1>7 DEF FailsToEnd, DeliverFails, Typed, CoreTyped, MapsTyped, WakeTyped
  <2> QED BY <2>1, <1>7, HandlesStay, PromiseStays DEF FailsToEnd, DeliverFails, Returned, Typed
<1>8. CASE SessionClose
  <2>1. timers' \in TimerMap
    <3>1. Nothing \in [due : Moments, interval : Nat, repeating : BOOLEAN]
      BY DEF Nothing, Moments
    <3> QED BY <1>8, <3>1 DEF SessionClose, Close, TimerMap
  <2>2. /\ hints' \in [Hints -> Moments] /\ deadline' \in [Ops -> Moments]
        /\ due' \in [Hints -> Moments]
    BY <1>8 DEF SessionClose, Close, Moments
  <2>3. WakeTyped'
    BY <1>8 DEF SessionClose, Close, ClearWakeup, Typed, WakeTyped, Moments
  <2>4. CoreTyped'
    BY <1>8 DEF SessionClose, Close, Typed, CoreTyped
  <2>5. MapsTyped'
    BY <1>8, <2>1, <2>2 DEF SessionClose, Close, Typed, MapsTyped
  <2>6. HandlesTyped'
    BY <1>8, <2>2 DEF SessionClose, Close, Typed, HandlesTyped
  <2>7. PromiseTyped'
    BY <1>8, PromiseStays DEF SessionClose, Typed, PromiseTyped
  <2> QED BY <2>3, <2>4, <2>5, <2>6, <2>7 DEF Typed
<1>9. ASSUME NEW o \in Ops, Completes(o)
      PROVE  Typed'
  <2>1. deadline' \in [Ops -> Moments] /\ completed' \subseteq (1 .. started) \ settled
    BY <1>9 DEF Completes, WorkerCompletes, Typed, CoreTyped, MapsTyped, Moments
  <2>2. CoreTyped'
    BY <1>9, <2>1 DEF Completes, WorkerCompletes, Typed, CoreTyped
  <2>3. MapsTyped' /\ WakeTyped'
    BY <1>9, <2>1 DEF Completes, WorkerCompletes, Typed, MapsTyped, WakeTyped
  <2>4. HandlesTyped' /\ PromiseTyped'
    BY <1>9 DEF Completes, WorkerCompletes, osVars, promiseVars, Typed, HandlesTyped, PromiseTyped
  <2> QED BY <2>2, <2>3, <2>4 DEF Typed
<1>10. CASE Ticks
  <2>1. clock' \in 0 .. MaxTime
    BY <1>10, EventLoopAssumption DEF Ticks, Tick, Typed, CoreTyped
  <2>2. CoreTyped'
    BY <1>10, <2>1 DEF Ticks, Tick, Typed, CoreTyped
  <2>3. MapsTyped' /\ WakeTyped'
    BY <1>10 DEF Ticks, Tick, Typed, MapsTyped, WakeTyped
  <2>4. HandlesTyped' /\ PromiseTyped'
    BY <1>10 DEF Ticks, Tick, osVars, promiseVars, Typed, HandlesTyped, PromiseTyped
  <2> QED BY <2>2, <2>3, <2>4 DEF Typed
<1>11. CASE FailsToFire
  <2>1. timers' \in TimerMap
    BY <1>11, CancelTyped DEF FailsToFire, FireFails
  <2>2. CoreTyped' /\ MapsTyped'
    BY <1>11, <2>1 DEF FailsToFire, FireFails, Typed, CoreTyped, MapsTyped
  <2>3. WakeTyped'
    <3>1. CASE Reschedule(hints, timers', deadline)
      BY <2>1, <3>1, RescheduleTyped DEF Typed, MapsTyped
    <3>2. CASE UNCHANGED wakeupVars
      BY <3>2 DEF Typed, WakeTyped
    <3> QED BY <1>11, <3>1, <3>2 DEF FailsToFire, FireFails
  <2> QED
    BY <2>2, <2>3, <1>11, HandlesStay, PromiseStays DEF FailsToFire, FireFails, Returned, Typed
<1>12. CASE FailsToDrain
  <2>1. deadline' \in [Ops -> Moments]
    BY <1>12 DEF FailsToDrain, DrainFails, Typed, MapsTyped, Moments
  <2>2. DrainSettles \subseteq 1 .. started
    <3>1. started \in Nat /\ MaxOps \in Nat
      BY EventLoopAssumption DEF Typed, CoreTyped
    <3>2. \A o \in Ops : deadline[o] # Never => o \in 1 .. started
      BY <3>1 DEF Typed, CoreTyped, Ops
    <3> QED BY <3>2 DEF DrainSettles, Typed, CoreTyped
  <2>3. /\ settled' \subseteq settled \cup DrainSettles
        /\ lost' \subseteq lost \cup DrainSettles
        /\ completed' = {} /\ interrupted' = TRUE /\ owner' = "idle" /\ failed' = TRUE
    BY <1>12 DEF FailsToDrain, DrainFails
  <2>4. \A o \in Ops : deadline'[o] # Never => o <= started
    BY <1>12 DEF FailsToDrain, DrainFails, Typed, CoreTyped
  <2>5. UNCHANGED <<clock, owned, closed, started, notified, current, calls, nextTimer>>
    BY <1>12 DEF FailsToDrain, DrainFails
  <2>6. CoreTyped'
    BY <2>2, <2>3, <2>4, <2>5 DEF Typed, CoreTyped
  <2>7. MapsTyped' /\ WakeTyped'
    BY <1>12, <2>1 DEF FailsToDrain, DrainFails, Typed, MapsTyped, WakeTyped
  <2> QED
    BY <2>6, <2>7, <1>12, HandlesStay, PromiseStays
    DEF FailsToDrain, DrainFails, Returned, Typed
<1>13. CASE Interrupts
  <2>1. calls' \in 0 .. MaxCalls /\ nextTimer + calls' <= MaxCalls + 1
    BY <1>13, EventLoopAssumption DEF Interrupts, Interrupt, Typed, CoreTyped
  <2>2. CoreTyped'
    BY <1>13, <2>1 DEF Interrupts, Interrupt, Typed, CoreTyped
  <2>3. MapsTyped' /\ WakeTyped'
    BY <1>13 DEF Interrupts, Interrupt, Typed, MapsTyped, WakeTyped
  <2>4. HandlesTyped' /\ PromiseTyped'
    BY <1>13 DEF Interrupts, Interrupt, osVars, promiseVars, Typed, HandlesTyped,
         PromiseTyped
  <2> QED BY <2>2, <2>3, <2>4 DEF Typed
<1> QED
  BY <1>1, <1>2, <1>3, <1>4, <1>5, <1>6, <1>7, <1>8, <1>9, <1>10, <1>11, <1>12, <1>13
  DEF HostStep

LEMMA PumpingTyped == Typed /\ PumpingStep => Typed'
<1> SUFFICES ASSUME Typed, PumpingStep PROVE Typed'
  OBVIOUS
<1> USE DEF timerVars, wakeupVars, asyncVars, jsVars, promiseVars
<1>1. CASE Pumps
  <2>1. calls' \in 0 .. MaxCalls /\ nextTimer + calls' <= MaxCalls + 1
    BY <1>1, EventLoopAssumption DEF Pumps, HostCall, Typed, CoreTyped
  <2>2. CoreTyped' /\ MapsTyped' /\ WakeTyped'
    BY <1>1, <2>1 DEF Pumps, PumpBegins, Typed, CoreTyped, MapsTyped, WakeTyped
  <2> QED BY <2>2, <1>1, HandlesStay, PromiseStays DEF Pumps, PumpBegins, Typed
<1>2. ASSUME NEW h \in Hints, OsFires(h)
      PROVE  Typed'
  <2>1. hints' \in [Hints -> Moments] /\ WakeTyped'
    BY <1>2, ClearHintTyped DEF OsFires
  <2>2. MapsTyped'
    BY <1>2, <2>1 DEF OsFires, Typed, MapsTyped
  <2>3. owner' \in {"pumping", "pumped"}
        /\ (owner' = "pumped" => running' = h /\ kind[h] \in {"timeout", "interval"})
    BY <1>2 DEF OsFires, Runs
  <2>4. CoreTyped'
    BY <1>2, <2>3 DEF OsFires, Typed, CoreTyped
  <2>5. running' \in Hints \cup {NoTimer}
    BY <1>2 DEF OsFires, Typed, HandlesTyped
  <2>6. HandlesTyped'
    BY <1>2, <2>3, <2>5 DEF OsFires, Typed, HandlesTyped, Moments
  <2>7. PromiseTyped'
    BY <1>2 DEF OsFires, Resolve, Typed, PromiseTyped
  <2> QED BY <2>1, <2>2, <2>4, <2>6, <2>7 DEF Typed
<1>3. CASE OsReturns
  <2>1. /\ hints' \in [Hints -> Moments] /\ WakeTyped'
        /\ due' \in [Hints -> Moments] /\ refused' \subseteq Hints
    <3>1. running \in Hints /\ every[running] \in Nat
      BY <1>3 DEF OsReturns, Typed, HandlesTyped
    <3>2. CASE Arm(running, every[running])
      BY <3>1, <3>2, ArmTyped
    <3>3. CASE UNCHANGED <<due, hints, wakeupVars, refused>>
      BY <3>3 DEF Typed, MapsTyped, WakeTyped, HandlesTyped
    <3> QED BY <1>3, <3>2, <3>3 DEF OsReturns
  <2>2. CoreTyped' /\ MapsTyped'
    BY <1>3, <2>1 DEF OsReturns, Typed, CoreTyped, MapsTyped
  <2>3. HandlesTyped' /\ PromiseTyped'
    BY <1>3, <2>1, PromiseStays DEF OsReturns, Typed, HandlesTyped, PromiseTyped
  <2> QED BY <2>1, <2>2, <2>3 DEF Typed
<1>4. CASE OsThrows
  <2>1. CoreTyped' /\ MapsTyped' /\ WakeTyped'
    BY <1>4 DEF OsThrows, Typed, CoreTyped, MapsTyped, WakeTyped
  <2>2. HandlesTyped' /\ PromiseTyped'
    BY <1>4, PromiseStays DEF OsThrows, osVars, Typed, HandlesTyped, PromiseTyped
  <2> QED BY <2>1, <2>2 DEF Typed
<1>5. CASE PumpEnds
  <2>1. CoreTyped' /\ MapsTyped' /\ WakeTyped'
    BY <1>5 DEF PumpEnds, Typed, CoreTyped, MapsTyped, WakeTyped
  <2> QED BY <2>1, <1>5, HandlesStay, PromiseStays DEF PumpEnds, Typed, PromiseTyped
<1> QED
  BY <1>1, <1>2, <1>3, <1>4, <1>5 DEF PumpingStep

LEMMA InitTyped == GlobalsInit => Typed
<1> SUFFICES ASSUME GlobalsInit PROVE Typed
  OBVIOUS
<1>1. timers \in TimerMap
  BY DEF GlobalsInit, Init, TimerMap, Nothing, Moments
<1>2. CoreTyped
  <2>1. MaxTime \in Nat /\ MaxCalls \in Nat /\ MaxOps \in Nat
    BY EventLoopAssumption
  <2>2. \A o \in Ops : deadline[o] = Never
    BY DEF GlobalsInit, Init
  <2>3. closed \in BOOLEAN /\ notified \in BOOLEAN /\ failed \in BOOLEAN /\ owned \in BOOLEAN
        /\ interrupted \in BOOLEAN
    BY DEF GlobalsInit, Init
  <2>4. clock \in 0 .. MaxTime /\ started \in 0 .. MaxOps /\ calls \in 0 .. MaxCalls
        /\ nextTimer \in 1 .. MaxCalls + 1 /\ nextTimer + calls <= MaxCalls + 1
    BY <2>1 DEF GlobalsInit, Init
  <2>5. settled = {} /\ completed = {} /\ lost = {} /\ owner = "idle" /\ current = NoTimer
    BY DEF GlobalsInit, Init
  <2> QED BY <2>2, <2>3, <2>4, <2>5 DEF CoreTyped
<1>3. MapsTyped /\ WakeTyped
  BY <1>1 DEF GlobalsInit, Init, MapsTyped, WakeTyped, Moments
<1>4. HandlesTyped /\ PromiseTyped
  BY DEF GlobalsInit, Init, HandlesTyped, PromiseTyped, NoTimer, Moments
<1> QED BY <1>1, <1>2, <1>3, <1>4 DEF Typed

LEMMA StaysTyped == Typed /\ [Next]_allVars => Typed'
<1> SUFFICES ASSUME Typed, [Next]_allVars PROVE Typed'
  OBVIOUS
<1>1. CASE Next
  BY <1>1, NextCases, ScriptTyped, HostTyped, PumpingTyped
<1>2. CASE UNCHANGED allVars
  <2>1. CoreTyped' /\ MapsTyped' /\ WakeTyped'
    BY <1>2 DEF allVars, vars, timerVars, wakeupVars, asyncVars, Typed, CoreTyped,
         MapsTyped, WakeTyped
  <2>2. HandlesTyped' /\ PromiseTyped'
    BY <1>2 DEF allVars, vars, jsVars, osVars, promiseVars, Typed, HandlesTyped, PromiseTyped
  <2> QED BY <2>1, <2>2 DEF Typed
<1> QED BY <1>1, <1>2

LEMMA AlwaysTyped == Spec => []Typed
BY InitTyped, StaysTyped, PTL DEF Spec

\* Every variable of the event loop and of the timer globals keeps its type,
\* whatever the calls, callbacks, pumps and deliveries; no timer id is given out
\* beyond the counted calls, no operation settles that was not started.
THEOREM TypeCorrect == Spec => []GlobalsTypeOK
<1>1. Typed => GlobalsTypeOK
  BY DEF Typed, CoreTyped, MapsTyped, WakeTyped, HandlesTyped, PromiseTyped, TimerMap,
     GlobalsTypeOK, TypeOK
<1> QED BY <1>1, AlwaysTyped, PTL

-----------------------------------------------------------------------------
(* The wakeup. *)

\* The host holds the pending request.
Held == pending => [generation |-> generation, at |-> wakeAt] \in requested

Asked(times) == times # {} => pending /\ \A m \in times : wakeAt <= m

\* A wakeup is missing only from the beginning of a delivery to its drain, or
\* after a delivery that failed before it had drained.
LapseExcused == lapsed => owner \in {"firing", "callback"} \/ failed

WakeInv == Held /\ (closed \/ lapsed \/ Asked(Deadlines)) /\ LapseExcused

\* Leaving out the deadlines of some operations adds no time.
LEMMA FewerTimes ==
  ASSUME NEW hs \in [Hints -> Moments], NEW ts \in TimerMap, NEW ds \in [Ops -> Moments],
         NEW gone
  PROVE  LET times == TimesOf(hs, ts, [o \in Ops |-> IF o \in gone THEN Never ELSE ds[o]])
         IN  times \subseteq TimesOf(hs, ts, ds) /\ times \subseteq Nat
<1> DEFINE kept == [o \in Ops |-> IF o \in gone THEN Never ELSE ds[o]]
<1>1. \A o \in Ops : kept[o] \in {ds[o], Never}
  OBVIOUS
<1> HIDE DEF kept
<1>2. TimesOf(hs, ts, kept) \subseteq TimesOf(hs, ts, ds)
  BY <1>1 DEF TimesOf
<1>3. TimesOf(hs, ts, ds) \subseteq Nat
  BY TimesAreMoments
<1> QED BY <1>2, <1>3 DEF kept

LEMMA DeadlinesTyped ==
  ASSUME Typed
  PROVE  Deadlines \subseteq Nat
BY FewerTimes DEF Typed, MapsTyped, Deadlines

LEMMA RescheduleAsks ==
  ASSUME WakeTyped, Held, NEW hs \in [Hints -> Moments], NEW ts \in TimerMap,
         NEW ds \in [Ops -> Moments], Reschedule(hs, ts, ds)
  PROVE  /\ Held' /\ lapsed' = FALSE
         /\ TimesOf(hs, ts, ds) # {} =>
              pending' /\ \A m \in TimesOf(hs, ts, ds) : wakeAt' <= m
<1> DEFINE times == TimesOf(hs, ts, ds)
<1>1. times \subseteq Nat
  BY TimesAreMoments
<1>2. CASE times = {}
  BY <1>2 DEF Reschedule, ClearWakeup, Held
<1>3. CASE times # {}
  <2>1. RequestWakeup(Min(times)) /\ lapsed' = FALSE
    BY <1>3 DEF Reschedule
  <2>2. \A m \in times : Min(times) <= m
    <3> HIDE DEF times
    <3> QED BY <1>1, <1>3, Earliest
  <2> HIDE DEF times
  <2>3. Held' /\ pending' /\ wakeAt' = Min(times)
    BY <2>1 DEF RequestWakeup, Held
  <2> USE DEF times
  <2> QED BY <2>1, <2>2, <2>3
<1> QED BY <1>2, <1>3

LEMMA RescheduleKeeps ==
  ASSUME Typed, MapsTyped', WakeInv, Reschedule(hints', timers', deadline')
  PROVE  WakeInv'
<1> DEFINE times == TimesOf(hints', timers', deadline')
<1>1. /\ Held' /\ lapsed' = FALSE
      /\ times # {} => pending' /\ \A m \in times : wakeAt' <= m
  BY RescheduleAsks DEF WakeInv, MapsTyped, Typed
<1>2. Deadlines' \subseteq times
  BY FewerTimes DEF MapsTyped, Deadlines
<1> HIDE DEF times
<1> QED BY <1>1, <1>2 DEF WakeInv, LapseExcused, Asked

\* Deadlines that are not earlier need no other wakeup.
LEMMA LaterKeeps ==
  ASSUME Typed, MapsTyped', WakeInv, UNCHANGED wakeupVars, closed => closed',
         LapseExcused', \A m \in Deadlines' : \E n \in Deadlines : n <= m
  PROVE  WakeInv'
<1>1. Held'
  BY DEF WakeInv, Held, wakeupVars
<1>2. CASE closed \/ lapsed
  BY <1>1, <1>2 DEF WakeInv, wakeupVars
<1>3. CASE Asked(Deadlines)
  <2>1. Deadlines \subseteq Nat /\ Deadlines' \subseteq Nat
    <3>1. Deadlines' \subseteq Nat
      BY FewerTimes DEF MapsTyped, Deadlines
    <3> QED BY <3>1, DeadlinesTyped
  <2>2. Asked(Deadlines)'
    <3> SUFFICES ASSUME Deadlines' # {}
                 PROVE  pending /\ \A m \in Deadlines' : wakeAt <= m
      BY DEF Asked, wakeupVars
    <3>1. pending /\ \A n \in Deadlines : wakeAt <= n
      BY <1>3 DEF Asked
    <3>2. ASSUME NEW m \in Deadlines' PROVE wakeAt <= m
      <4>1. PICK n \in Deadlines : n <= m
        OBVIOUS
      <4>2. wakeAt <= n /\ n \in Nat /\ m \in Nat /\ wakeAt \in Nat \cup {-1}
        BY <2>1, <3>1, <4>1 DEF Typed, WakeTyped, Moments, Never
      <4> QED BY <4>1, <4>2
    <3> QED BY <3>1, <3>2
  <2> QED BY <1>1, <2>2 DEF WakeInv
<1> QED BY <1>2, <1>3 DEF WakeInv

LEMMA SameKeeps ==
  ASSUME Typed, WakeInv,
         UNCHANGED <<wakeupVars, timers, hints, deadline, lost, closed, failed>>,
         owner' = owner \/ owner' \in {"firing", "callback"}
                        \/ owner \notin {"firing", "callback"}
  PROVE  WakeInv'
<1>1. Held' /\ LapseExcused'
  BY DEF WakeInv, Held, LapseExcused, wakeupVars
<1>2. Deadlines' = Deadlines
  BY DEF Deadlines, TimesOf
<1> QED BY <1>1, <1>2 DEF WakeInv, Asked, wakeupVars

LEMMA HintsKeep ==
  ASSUME Typed, MapsTyped', WakeInv, UNCHANGED <<timers, deadline, lost, closed, failed>>,
         owner' = owner \/ owner \notin {"firing", "callback"},
         UNCHANGED <<hints, wakeupVars>> \/ Reschedule(hints', timers, deadline)
  PROVE  WakeInv'
<1>1. CASE UNCHANGED <<hints, wakeupVars>>
  BY <1>1, SameKeeps
<1>2. CASE Reschedule(hints', timers, deadline)
  BY <1>2, RescheduleKeeps
<1> QED BY <1>1, <1>2

LEMMA TimersKeep ==
  ASSUME Typed, MapsTyped', WakeInv, UNCHANGED <<hints, deadline>>,
         Reschedule(hints, timers', deadline)
  PROVE  WakeInv'
BY RescheduleKeeps

\* A timer that is no longer there asks for nothing.
LEMMA FewerDeadlines ==
  ASSUME Typed, MapsTyped', UNCHANGED hints,
         \A t \in Timers : timers'[t].due \in {timers[t].due, Never},
         \A o \in Ops : deadline'[o] \in {deadline[o], Never} \/ o \in lost',
         lost \subseteq lost'
  PROVE  \A m \in Deadlines' : \E n \in Deadlines : n <= m
<1>1. Deadlines' \subseteq Nat
  BY FewerTimes DEF MapsTyped, Deadlines
<1> DEFINE awaited == [o \in Ops |-> IF o \in lost THEN Never ELSE deadline[o]]
<1>2. \A o \in Ops : awaited'[o] \in {awaited[o], Never}
  OBVIOUS
<1>3. Deadlines = TimesOf(hints, timers, awaited)
      /\ Deadlines' = TimesOf(hints', timers', awaited')
  BY DEF Deadlines
<1> HIDE DEF awaited
<1>4. Deadlines' \subseteq Deadlines
  BY <1>2, <1>3 DEF TimesOf
<1> QED BY <1>1, <1>4

LEMMA ScriptWakes == Typed /\ MapsTyped' /\ WakeInv /\ ScriptStep => WakeInv'
<1> SUFFICES ASSUME Typed, MapsTyped', WakeInv, ScriptStep PROVE WakeInv'
  OBVIOUS
<1> USE DEF timerVars, asyncVars, loopVars
<1>1. ASSUME NEW delay \in Delays, NEW repeating \in BOOLEAN, CreateTimer(delay, repeating)
      PROVE  WakeInv'
  BY <1>1, TimersKeep DEF CreateTimer
<1>2. ASSUME NEW what, NEW h \in Hints, NEW delay \in Delays, NewHandle(what, h, delay)
      PROVE  WakeInv'
  BY <1>2, HintsKeep DEF NewHandle, Arm, HintTimer
<1>3. ASSUME NEW h \in Hints, ClearTimeout(h) \/ ClearInterval(h)
      PROVE  WakeInv'
  BY <1>3, HintsKeep DEF ClearTimeout, ClearInterval, ClearHandle, ClearHint
<1>4. ASSUME NEW t \in Timers, ClearOwned(t)
      PROVE  WakeInv'
  BY <1>4, TimersKeep DEF ClearOwned, CancelTimer
<1>5. CASE Abort
  <2>1. CASE timer.owned /\ timer.id \in Live
    BY <1>5, <2>1, TimersKeep DEF Abort, ClearPromiseTimer
  <2>2. CASE timer.owned /\ timer.id \notin Live
    BY <1>5, <2>2, SameKeeps DEF Abort, ClearPromiseTimer
  <2>3. CASE ~timer.owned
    BY <1>5, <2>3, HintsKeep DEF Abort, ClearPromiseTimer, ClearHandle, ClearHint
  <2> QED BY <2>1, <2>2, <2>3
<1>6. ASSUME NEW timeout \in Delays, Starts(timeout)
      PROVE  WakeInv'
  <2>1. CASE timeout > 0 /\ ~interrupted'
    BY <1>6, <2>1, RescheduleKeeps DEF Starts, StartOperation
  <2>2. CASE ~(timeout > 0 /\ ~interrupted')
    <3>1. UNCHANGED <<wakeupVars, hints, timers, closed, owner, failed>> /\ lost \subseteq lost'
      BY <1>6, <2>2 DEF Starts, StartOperation
    <3>2. \A o \in Ops : o # started + 1 => deadline'[o] = deadline[o]
      BY <1>6 DEF Starts, StartOperation, Typed, MapsTyped
    <3>3. started + 1 \in Ops =>
            deadline'[started + 1] = Never \/ started + 1 \in lost'
      BY <1>6, <2>2 DEF Starts, StartOperation, Typed, MapsTyped
    <3>4. \A o \in Ops : deadline'[o] \in {deadline[o], Never} \/ o \in lost'
      BY <3>2, <3>3
    <3>5. LapseExcused'
      BY <3>1 DEF WakeInv, LapseExcused, wakeupVars
    <3> QED BY <3>1, <3>4, <3>5, FewerDeadlines, LaterKeeps
  <2> QED BY <2>1, <2>2
<1>7. CASE Configures
  <2>1. UNCHANGED <<wakeupVars, hints, deadline, lost, closed, owner, failed>>
    BY <1>7 DEF Configures, Configure
  <2>2. \A t \in Timers : timers'[t].due \in {timers[t].due, Never}
    BY <1>7 DEF Configures, Configure, Nothing
  <2>3. LapseExcused'
    BY <2>1 DEF WakeInv, LapseExcused, wakeupVars
  <2> QED BY <2>1, <2>2, <2>3, FewerDeadlines, LaterKeeps
<1> QED
  BY <1>1, <1>2, <1>3, <1>4, <1>5, <1>6, <1>7
  DEF ScriptStep, Creates, CreatesPromise, Handles, HandlesPromise

LEMMA HostWakes == Typed /\ MapsTyped' /\ WakeInv /\ HostStep => WakeInv'
<1> SUFFICES ASSUME Typed, MapsTyped', WakeInv, HostStep PROVE WakeInv'
  OBVIOUS
<1> USE DEF timerVars, asyncVars, loopVars
<1>1. ASSUME NEW g, Delivers(g)
      PROVE  WakeInv'
  <2>1. CASE Obsolete(g)
    <3>1. /\ UNCHANGED <<pending, wakeAt, generation, lapsed, owner, failed, timers, hints,
                         deadline, lost, closed>>
          /\ requested' = {r \in requested : r.generation # g}
      BY <1>1, <2>1 DEF Delivers, DeliverBegin
    <3>2. Held'
      BY <2>1, <3>1 DEF Obsolete, WakeInv, Held
    <3>3. Deadlines' = Deadlines
      BY <3>1 DEF Deadlines, TimesOf
    <3> QED BY <3>1, <3>2, <3>3 DEF WakeInv, Asked, LapseExcused
  <2>2. CASE ~Obsolete(g)
    BY <1>1, <2>2 DEF Delivers, DeliverBegin, WakeInv, Held, LapseExcused
  <2> QED BY <2>1, <2>2
<1>2. CASE Fires
  <2> DEFINE t == NextDue
  <2>1. clock \in Nat /\ timers \in TimerMap /\ t \in DueTimers /\ t \in Timers
    BY <1>2, NextIsDue DEF Fires, FireTimer, Typed, CoreTyped, MapsTyped, DueTimers, Live
  <2>2. NextInterval(t) \in Nat /\ NextInterval(t) >= timers[t].due
    BY <2>1, NextIntervalLater
  <2>3. /\ UNCHANGED <<wakeupVars, hints, deadline, lost, closed, failed>> /\ owner' = "callback"
        /\ timers' = [timers EXCEPT ![t] =
             IF @.repeating THEN [@ EXCEPT !.due = NextInterval(t)] ELSE Nothing]
    BY <1>2 DEF Fires, FireTimer
  <2> HIDE DEF t
  <2>4. \A u \in Timers : \/ timers'[u].due \in {timers[u].due, Never}
                          \/ u = t /\ timers'[u].due = NextInterval(t)
    BY <2>1, <2>3 DEF TimerMap, Nothing
  <2>5. timers[t].due \in Deadlines
    BY <2>1 DEF DueTimers, Live, Deadlines, TimesOf
  <2>6. ASSUME NEW m \in Deadlines' PROVE \E n \in Deadlines : n <= m
    <3>1. m \in Nat
      BY FewerTimes DEF MapsTyped, Deadlines
    <3>2. m \in Deadlines \/ m = NextInterval(t)
      BY <2>3, <2>4 DEF Deadlines, TimesOf
    <3> QED BY <2>2, <2>5, <3>1, <3>2
  <2>7. LapseExcused'
    BY <2>3 DEF LapseExcused
  <2> QED BY <2>3, <2>6, <2>7, LaterKeeps
<1>3. CASE Drains
  BY <1>3, RescheduleKeeps DEF Drains, Drain
<1>4. CASE Returns
  BY <1>4, SameKeeps DEF Returns, CallbackReturns
<1>5. CASE Throws
  <2>1. CASE current \in Live
    BY <1>5, <2>1, TimersKeep DEF Throws, CallbackThrows
  <2>2. CASE current \notin Live
    <3>1. /\ UNCHANGED <<wakeupVars, hints, deadline, lost, closed>> /\ failed'
          /\ timers' = [timers EXCEPT ![current] = Nothing]
      BY <1>5, <2>2 DEF Throws, CallbackThrows
    <3>2. \A t \in Timers : timers'[t].due \in {timers[t].due, Never}
      BY <3>1 DEF Typed, MapsTyped, TimerMap, Nothing
    <3>3. LapseExcused'
      BY <3>1 DEF LapseExcused
    <3> QED BY <3>1, <3>2, <3>3, FewerDeadlines, LaterKeeps
  <2> QED BY <2>1, <2>2
<1>6. CASE Ends
  BY <1>6, RescheduleKeeps DEF Ends, DeliverEnd
<1>7. CASE FailsToEnd
  BY <1>7, SameKeeps DEF FailsToEnd, DeliverFails
<1>8. CASE SessionClose
  BY <1>8 DEF SessionClose, Close, ClearWakeup, WakeInv, Held, LapseExcused
<1>9. ASSUME NEW o \in Ops, Completes(o)
      PROVE  WakeInv'
  <2>1. UNCHANGED <<wakeupVars, hints, timers, lost, closed, owner, failed>>
    BY <1>9 DEF Completes, WorkerCompletes
  <2>2. \A p \in Ops : deadline'[p] \in {deadline[p], Never}
    BY <1>9 DEF Completes, WorkerCompletes, Typed, MapsTyped
  <2>3. LapseExcused'
    BY <2>1 DEF WakeInv, LapseExcused, wakeupVars
  <2> QED BY <2>1, <2>2, <2>3, FewerDeadlines, LaterKeeps
<1>10. CASE Ticks \/ Interrupts
  BY <1>10, SameKeeps DEF Ticks, Tick, Interrupts, Interrupt
<1>11. CASE FailsToFire
  <2>1. CASE timers[NextDue].repeating
    BY <1>11, <2>1, TimersKeep DEF FailsToFire, FireFails
  <2>2. CASE ~timers[NextDue].repeating
    <3>1. /\ UNCHANGED <<wakeupVars, hints, deadline, lost, closed>> /\ failed'
          /\ timers' = [timers EXCEPT ![NextDue] = Nothing]
      BY <1>11, <2>2 DEF FailsToFire, FireFails
    <3>2. \A t \in Timers : timers'[t].due \in {timers[t].due, Never}
      BY <3>1 DEF Typed, MapsTyped, TimerMap, Nothing
    <3>3. LapseExcused'
      BY <3>1 DEF LapseExcused
    <3> QED BY <3>1, <3>2, <3>3, FewerDeadlines, LaterKeeps
  <2> QED BY <2>1, <2>2
<1>12. CASE FailsToDrain
  <2>1. UNCHANGED <<wakeupVars, hints, timers, closed>> /\ failed' /\ lost \subseteq lost'
    BY <1>12 DEF FailsToDrain, DrainFails
  <2>2. \A o \in Ops : deadline'[o] \in {deadline[o], Never}
    BY <1>12 DEF FailsToDrain, DrainFails
  <2>3. LapseExcused'
    BY <2>1 DEF LapseExcused
  <2> QED BY <2>1, <2>2, <2>3, FewerDeadlines, LaterKeeps
<1> QED
  BY <1>1, <1>2, <1>3, <1>4, <1>5, <1>6, <1>7, <1>8, <1>9, <1>10, <1>11, <1>12 DEF HostStep

LEMMA PumpingWakes == Typed /\ MapsTyped' /\ WakeInv /\ PumpingStep => WakeInv'
<1> SUFFICES ASSUME Typed, MapsTyped', WakeInv, PumpingStep PROVE WakeInv'
  OBVIOUS
<1> USE DEF timerVars, asyncVars
<1>1. CASE Pumps
  BY <1>1, SameKeeps DEF Pumps, PumpBegins
<1>2. ASSUME NEW h \in Hints, OsFires(h)
      PROVE  WakeInv'
  BY <1>2, HintsKeep DEF OsFires, ClearHint
<1>3. CASE OsReturns
  BY <1>3, HintsKeep DEF OsReturns, Arm, HintTimer
<1>4. CASE OsThrows
  BY <1>4, SameKeeps DEF OsThrows
<1>5. CASE PumpEnds
  BY <1>5, SameKeeps DEF PumpEnds
<1> QED
  BY <1>1, <1>2, <1>3, <1>4, <1>5 DEF PumpingStep

LEMMA AlwaysWakes == Spec => []WakeInv
<1>1. GlobalsInit => WakeInv
  BY DEF GlobalsInit, Init, WakeInv, Held, LapseExcused, Asked, Deadlines, TimesOf, Nothing
<1>2. Typed /\ Typed' /\ WakeInv /\ [Next]_allVars => WakeInv'
  <2> SUFFICES ASSUME Typed, Typed', WakeInv, [Next]_allVars PROVE WakeInv'
    OBVIOUS
  <2>1. MapsTyped'
    BY DEF Typed
  <2>2. CASE Next
    BY <2>1, <2>2, NextCases, ScriptWakes, HostWakes, PumpingWakes
  <2>3. CASE UNCHANGED allVars
    BY <2>3, SameKeeps DEF allVars, vars, timerVars, asyncVars
  <2> QED BY <2>2, <2>3
<1> QED BY <1>1, <1>2, AlwaysTyped, PTL DEF Spec

\* Whatever mix of calls, callbacks, pumps and deliveries came before, between
\* turns an open session has asked for a wakeup no later than its earliest
\* deadline and the host still holds it, unless the last delivery was cut short
\* before it had drained: by a throwing timer callback, or by an interrupt that
\* made the call of a callback or a settlement fail.
THEOREM NeverLate == Spec => []WakeupNeverLate
<1>1. Typed /\ WakeInv => WakeupNeverLate
  <2> SUFFICES ASSUME Typed, WakeInv, owner = "idle", ~closed, ~(lapsed /\ failed),
                      Deadlines # {}
               PROVE  /\ pending /\ wakeAt <= Min(Deadlines)
                      /\ [generation |-> generation, at |-> wakeAt] \in requested
    BY DEF WakeupNeverLate, Covered
  <2>1. Asked(Deadlines)
    BY DEF WakeInv, LapseExcused
  <2>2. Deadlines \subseteq Nat
    BY DeadlinesTyped
  <2>3. Min(Deadlines) \in Deadlines
    BY <2>2, Earliest
  <2> QED BY <2>1, <2>3 DEF Asked, WakeInv, Held
<1> QED BY <1>1, AlwaysTyped, AlwaysWakes, PTL

-----------------------------------------------------------------------------
(* Timers fire once each time. *)

\* What fired is older than its deadline; an id that was not given out yet has
\* no timer and no past.
TimerInv ==
  \A t \in Timers :
    /\ t \in Live =>
         /\ t < nextTimer /\ firedAt[t] < timers[t].due
         /\ ~timers[t].repeating => firedAt[t] = Never
    /\ firedAt[t] # Never => t < nextTimer

TimersOnlyGo ==
  UNCHANGED <<nextTimer, firedAt>> /\ \A t \in Timers : timers'[t] \in {timers[t], Nothing}

\* What a step does to the session's timers.
LEMMA TimerSteps ==
  ASSUME Typed, [Next]_allVars
  PROVE  \/ \E delay \in Delays : \E repeating \in BOOLEAN : CreateTimer(delay, repeating)
         \/ FireTimer
         \/ TimersOnlyGo
<1> USE DEF timerVars, loopVars, TimersOnlyGo
<1>1. CASE UNCHANGED allVars
  BY <1>1 DEF allVars, vars
<1>2. ASSUME NEW h \in Hints, ClearTimeout(h) \/ ClearInterval(h)
      PROVE  TimersOnlyGo
  BY <1>2 DEF ClearTimeout, ClearInterval, ClearHandle
<1>3. ASSUME NEW u, timers' = [timers EXCEPT ![u] = Nothing], UNCHANGED <<nextTimer, firedAt>>
      PROVE  TimersOnlyGo
  BY <1>3 DEF Typed, MapsTyped, TimerMap
<1>4. CASE Abort
  <2>1. CASE timer.owned /\ timer.id \in Live
    BY <1>3, <1>4, <2>1 DEF Abort, ClearPromiseTimer
  <2>2. CASE ~(timer.owned /\ timer.id \in Live)
    BY <1>4, <2>2 DEF Abort, ClearPromiseTimer, ClearHandle
  <2> QED BY <2>1, <2>2
<1>5. CASE Configures
  BY <1>5 DEF Configures, Configure
<1>6. CASE SessionClose
  BY <1>6 DEF SessionClose, Close
<1>7. CASE ScriptStep
  <2>1. ASSUME NEW delay \in Delays, NEW h \in Hints, NEW what, NewHandle(what, h, delay)
        PROVE  TimersOnlyGo
    BY <2>1 DEF NewHandle
  <2>2. ASSUME NEW t \in Timers, ClearOwned(t)
        PROVE  TimersOnlyGo
    BY <1>3, <2>2 DEF ClearOwned, CancelTimer
  <2>3. ASSUME NEW timeout \in Delays, Starts(timeout)
        PROVE  TimersOnlyGo
    BY <2>3 DEF Starts, StartOperation
  <2> QED
    BY <1>2, <1>4, <1>5, <1>7, <2>1, <2>2, <2>3
    DEF ScriptStep, Creates, CreatesPromise, Handles, HandlesPromise
<1>8. CASE HostStep
  <2>1. ASSUME NEW g, Delivers(g) PROVE TimersOnlyGo
    BY <2>1 DEF Delivers, DeliverBegin
  <2>2. CASE Throws
    BY <1>3, <2>2 DEF Throws, CallbackThrows
  <2>3. CASE Drains \/ FailsToDrain \/ Returns \/ Ends \/ FailsToEnd \/ Interrupts \/ Ticks
    BY <2>3 DEF Drains, Drain, FailsToDrain, DrainFails, Returns, CallbackReturns, Ends,
         DeliverEnd, FailsToEnd, DeliverFails, Interrupts, Interrupt, Ticks, Tick
  <2>4. ASSUME NEW o \in Ops, Completes(o) PROVE TimersOnlyGo
    BY <2>4 DEF Completes, WorkerCompletes
  <2>5. CASE FailsToFire
    BY <1>3, <2>5 DEF FailsToFire, FireFails
  <2> QED BY <1>6, <1>8, <2>1, <2>2, <2>3, <2>4, <2>5 DEF HostStep, Fires
<1>9. CASE PumpingStep
  BY <1>9 DEF PumpingStep, Pumps, PumpBegins, OsFires, OsReturns, OsThrows, PumpEnds
<1> QED BY <1>1, <1>7, <1>8, <1>9, NextCases

\* The id a call gives out is a new one.
LEMMA NewTimer ==
  ASSUME Typed, NEW delay \in Delays, NEW repeating \in BOOLEAN, CreateTimer(delay, repeating)
  PROVE  /\ nextTimer \in Timers /\ nextTimer \in Nat /\ nextTimer' = nextTimer + 1
         /\ firedAt' = firedAt /\ clock + delay \in Nat
         /\ timers' = [timers EXCEPT ![nextTimer] =
              [due |-> clock + delay, interval |-> delay, repeating |-> repeating]]
<1>1. delay \in Nat /\ clock \in Nat
  BY EventLoopAssumption DEF Typed, CoreTyped
<1>2. nextTimer \in Timers /\ nextTimer \in Nat
  BY EventLoopAssumption DEF CreateTimer, ApiCall, Timers, Typed, CoreTyped
<1> QED BY <1>1, <1>2 DEF CreateTimer

\* What firing does to the timer and to the others.
LEMMA FiredTimer ==
  ASSUME Typed, FireTimer
  PROVE  /\ NextDue \in Live /\ NextDue \in Timers
         /\ clock \in Nat /\ timers[NextDue].due <= clock /\ timers[NextDue].due \in Nat
         /\ firedAt' = [firedAt EXCEPT ![NextDue] = clock] /\ current' = NextDue
         /\ UNCHANGED nextTimer /\ owner' = "callback"
         /\ \A t \in Timers : t # NextDue => timers'[t] = timers[t]
         /\ IF timers[NextDue].repeating
            THEN /\ timers'[NextDue].due \in Nat /\ timers'[NextDue].due > clock
                 /\ timers'[NextDue].repeating
            ELSE timers'[NextDue] = Nothing
<1> DEFINE t == NextDue
<1>1. clock \in Nat /\ timers \in TimerMap
  BY DEF Typed, CoreTyped, MapsTyped
<1>2. t \in DueTimers
  BY <1>1, NextIsDue DEF FireTimer
<1>3. t \in Live /\ t \in Timers /\ timers[t].due <= clock /\ timers[t].due \in Nat
  BY <1>1, <1>2 DEF DueTimers, Live, TimerMap, Moments
<1>4. NextInterval(t) \in Nat /\ NextInterval(t) > clock
  BY <1>1, <1>2, NextIntervalLater
<1>5. timers' = [timers EXCEPT ![t] =
        IF @.repeating THEN [@ EXCEPT !.due = NextInterval(t)] ELSE Nothing]
  BY DEF FireTimer
<1>6. /\ firedAt' = [firedAt EXCEPT ![t] = clock] /\ current' = t
      /\ UNCHANGED nextTimer /\ owner' = "callback"
  BY DEF FireTimer
<1> HIDE DEF t
<1>7. \A u \in Timers : u # t => timers'[u] = timers[u]
  BY <1>1, <1>5 DEF TimerMap
<1>8. CASE timers[t].repeating
  <2>1. timers'[t] = [timers[t] EXCEPT !.due = NextInterval(t)]
    BY <1>1, <1>3, <1>5, <1>8 DEF TimerMap
  <2>2. timers[t] \in [due : Moments, interval : Nat, repeating : BOOLEAN]
    BY <1>1, <1>3 DEF TimerMap
  <2>3. timers'[t].due = NextInterval(t) /\ timers'[t].repeating
    BY <1>8, <2>1, <2>2
  <2> QED BY <1>1, <1>3, <1>4, <1>6, <1>7, <1>8, <2>3 DEF t
<1>9. CASE ~timers[t].repeating
  <2>1. timers'[t] = Nothing
    BY <1>1, <1>3, <1>5, <1>9 DEF TimerMap
  <2> QED BY <1>1, <1>3, <1>6, <1>7, <1>9, <2>1 DEF t
<1> QED BY <1>8, <1>9

LEMMA TimerInvStep == Typed /\ Typed' /\ TimerInv /\ [Next]_allVars => TimerInv'
<1> SUFFICES ASSUME Typed, Typed', TimerInv, [Next]_allVars PROVE TimerInv'
  OBVIOUS
<1>0. nextTimer \in Nat /\ Timers \subseteq Nat /\ Never = -1
  BY EventLoopAssumption DEF Typed, CoreTyped, Timers, Never
<1>1. ASSUME NEW delay \in Delays, NEW repeating \in BOOLEAN, CreateTimer(delay, repeating)
      PROVE  TimerInv'
  <2> SUFFICES ASSUME NEW t \in Timers
               PROVE  /\ timers'[t].due # Never =>
                           /\ t < nextTimer' /\ firedAt'[t] < timers'[t].due
                           /\ ~timers'[t].repeating => firedAt'[t] = Never
                      /\ firedAt'[t] # Never => t < nextTimer'
    BY DEF TimerInv, Live
  <2>1. /\ nextTimer' = nextTimer + 1 /\ firedAt' = firedAt /\ clock + delay \in Nat
        /\ timers' = [timers EXCEPT ![nextTimer] =
             [due |-> clock + delay, interval |-> delay, repeating |-> repeating]]
    BY <1>1, NewTimer
  <2>2. CASE t = nextTimer
    <3>1. firedAt[t] = Never
      BY <1>0, <2>2 DEF TimerInv
    <3>2. timers'[t].due = clock + delay
      BY <2>1, <2>2 DEF Typed, MapsTyped, TimerMap
    <3> QED BY <1>0, <2>1, <2>2, <3>1, <3>2
  <2>3. CASE t # nextTimer
    <3>1. timers'[t] = timers[t]
      BY <2>1, <2>3 DEF Typed, MapsTyped, TimerMap
    <3> QED BY <1>0, <2>1, <3>1 DEF TimerInv, Live
  <2> QED BY <2>2, <2>3
<1>2. CASE FireTimer
  <2> SUFFICES ASSUME NEW t \in Timers
               PROVE  /\ timers'[t].due # Never =>
                           /\ t < nextTimer' /\ firedAt'[t] < timers'[t].due
                           /\ ~timers'[t].repeating => firedAt'[t] = Never
                      /\ firedAt'[t] # Never => t < nextTimer'
    BY DEF TimerInv, Live
  <2>1. CASE t = NextDue
    <3>1. firedAt'[t] = clock /\ nextTimer' = nextTimer /\ t < nextTimer
      BY <1>2, <2>1, FiredTimer DEF TimerInv, Typed, MapsTyped
    <3>2. CASE timers[t].repeating
      BY <1>2, <2>1, <3>1, <3>2, FiredTimer
    <3>3. CASE ~timers[t].repeating
      <4>1. timers'[t] = Nothing
        BY <1>2, <2>1, <3>3, FiredTimer
      <4> QED BY <3>1, <4>1 DEF Nothing
    <3> QED BY <3>2, <3>3
  <2>2. CASE t # NextDue
    <3>1. timers'[t] = timers[t] /\ firedAt'[t] = firedAt[t] /\ nextTimer' = nextTimer
      BY <1>2, <2>2, FiredTimer DEF Typed, MapsTyped
    <3> QED BY <3>1 DEF TimerInv, Live
  <2> QED BY <2>1, <2>2
<1>3. CASE TimersOnlyGo
  BY <1>3 DEF TimersOnlyGo, TimerInv, Live, Nothing
<1> QED BY <1>1, <1>2, <1>3, TimerSteps

LEMMA AlwaysTimers == Spec => []TimerInv
<1>1. GlobalsInit => TimerInv
  BY DEF GlobalsInit, Init, TimerInv, Live, Nothing
<1> QED BY <1>1, TimerInvStep, AlwaysTyped, PTL DEF Spec

\* No timer of the session fires twice at one instant, however late the host
\* delivers and however far an interval fell behind, and a one-shot timer fires
\* once.
THEOREM FiresOnce == Spec => NoDoubleFire
<1>1. ASSUME Typed, TimerInv, [Next]_allVars
      PROVE  current' \notin {current, NoTimer} =>
               firedAt[current'] < (IF timers[current'].repeating THEN clock ELSE 0)
  <2> SUFFICES ASSUME current' \notin {current, NoTimer}
               PROVE  firedAt[current'] < (IF timers[current'].repeating THEN clock ELSE 0)
    OBVIOUS
  <2>1. FireTimer
    <3>1. CASE UNCHANGED allVars
      BY <3>1 DEF allVars, vars
    <3>2. CASE ScriptStep
      <4>1. UNCHANGED current
        BY <3>2 DEF ScriptStep, Creates, CreatesPromise, CreateTimer, Handles, HandlesPromise,
             NewHandle, ClearTimeout, ClearInterval, ClearHandle, ClearOwned, CancelTimer,
             Abort, ClearPromiseTimer, Starts, StartOperation, Configures, Configure, loopVars
      <4> QED BY <4>1
    <3>3. CASE HostStep
      BY <3>3 DEF HostStep, Delivers, DeliverBegin, Fires, FailsToFire, FireFails, Drains,
           Drain, FailsToDrain, DrainFails, Returns, CallbackReturns, Throws, CallbackThrows,
           Ends, DeliverEnd, FailsToEnd, DeliverFails, Interrupts, Interrupt, SessionClose,
           Close, Completes, WorkerCompletes, Ticks, Tick
    <3>4. CASE PumpingStep
      BY <3>4 DEF PumpingStep, Pumps, PumpBegins, OsFires, OsReturns, OsThrows, PumpEnds
    <3> QED BY <1>1, <3>1, <3>2, <3>3, <3>4, NextCases
  <2>2. current' \in Live /\ current' \in Timers /\ timers[current'].due <= clock
        /\ timers[current'].due \in Nat /\ clock \in Nat
    BY <1>1, <2>1, FiredTimer
  <2>3. firedAt[current'] < timers[current'].due /\ firedAt[current'] \in Nat \cup {-1}
        /\ (~timers[current'].repeating => firedAt[current'] = -1)
    BY <1>1, <2>2 DEF TimerInv, Typed, MapsTyped, Moments, Never
  <2> QED BY <2>2, <2>3
<1>2. Typed /\ TimerInv /\ [Next]_allVars =>
        [current' \notin {current, NoTimer} =>
           firedAt[current'] < (IF timers[current'].repeating THEN clock ELSE 0)]_vars
  BY <1>1
<1> QED BY <1>2, AlwaysTyped, AlwaysTimers, PTL DEF Spec, NoDoubleFire

-----------------------------------------------------------------------------
(* Handles, their hints and the promise timer. *)

\* Between a handle's qjs:os timer and its hint.
HintTold(h) ==
  /\ hints[h] # Never => hints[h] = due[h]
  /\ due[h] # Never /\ h \notin refused /\ (kind[h] = "interval" => h \notin cleared)
       => hints[h] = due[h]

\* A cleared handle was one; only an interval keeps its qjs:os timer.
ClearedGone(h) ==
  h \in cleared => kind[h] # "none" /\ (kind[h] # "interval" => due[h] = Never)

HandleInv == \A h \in Hints : (closed \/ HintTold(h)) /\ ClearedGone(h)

\* The promise timer is one timer, and it is alone.
PromiseOwned ==
  promise # "none" /\ timer.owned =>
    /\ timer.id \in Timers /\ timer.id < nextTimer
    /\ ~timers[timer.id].repeating
    /\ owner = "callback" /\ current = timer.id => timer.id \notin Live
    /\ promise # "waiting" => timer.id \notin Live

PromiseHandle ==
  promise # "none" /\ ~timer.owned =>
    /\ kind[timer.id] = "promise"
    /\ promise # "waiting" => due[timer.id] = Never

OneHandle == \A h \in Hints : kind[h] = "promise" => promise # "none" /\ ~timer.owned /\ timer.id = h

Unheard == promise \in {"resolved", "aborted"} => ~listening

\* What setting a handle's timer means for its hint.
LEMMA ArmTells ==
  ASSUME Typed, NEW h \in Hints, NEW delay \in Nat, Arm(h, delay)
  PROVE  /\ hints'[h] # Never => hints'[h] = due'[h]
         /\ h \notin refused' => hints'[h] = due'[h]
         /\ \A g \in Hints \ {h} : /\ hints'[g] = hints[g] /\ due'[g] = due[g]
                                   /\ g \in refused' <=> g \in refused
<1>1. due' = [due EXCEPT ![h] = clock + delay] /\ HintTimer(h, delay)
      /\ refused' = IF hints'[h] = Never THEN refused \cup {h} ELSE refused \ {h}
  BY DEF Arm
<1>2. CASE UNCHANGED <<hints, wakeupVars>> /\ h \notin Hinted
  BY <1>1, <1>2 DEF Hinted, Typed, MapsTyped, HandlesTyped
<1>3. CASE hints' = [hints EXCEPT ![h] = clock + delay]
  BY <1>1, <1>3 DEF Typed, MapsTyped, HandlesTyped
<1> QED BY <1>1, <1>2, <1>3 DEF HintTimer

LEMMA ClearForgets ==
  ASSUME Typed, NEW h \in Hints, ClearHint(h)
  PROVE  hints'[h] = Never /\ \A g \in Hints \ {h} : hints'[g] = hints[g]
BY DEF ClearHint, Hinted, Typed, MapsTyped

LEMMA ArmedStays ==
  ASSUME Typed, HandleInv, NEW h \in Hints, NEW delay \in Nat, Arm(h, delay),
         UNCHANGED <<closed, cleared>>, \A g \in Hints \ {h} : kind'[g] = kind[g],
         kind'[h] = "interval" \/ (kind[h] = "none" /\ kind'[h] # "none")
  PROVE  HandleInv'
<1>1. ASSUME NEW g \in Hints, g # h
      PROVE  (closed' \/ HintTold(g)') /\ ClearedGone(g)'
  <2>1. /\ hints'[g] = hints[g] /\ due'[g] = due[g] /\ kind'[g] = kind[g]
        /\ g \in refused' <=> g \in refused
    BY <1>1, ArmTells
  <2> QED BY <2>1 DEF HandleInv, HintTold, ClearedGone
<1>2. HintTold(h)' /\ ClearedGone(h)'
  BY ArmTells DEF HandleInv, HintTold, ClearedGone
<1> QED BY <1>1, <1>2 DEF HandleInv

\* A handle whose qjs:os timer is gone and whose hint is cleared.
LEMMA ForgottenStays ==
  ASSUME Typed, HandleInv, NEW h \in Hints, ClearHint(h), due' = [due EXCEPT ![h] = Never],
         UNCHANGED <<closed, refused, kind>>,
         cleared' = cleared \/ (cleared' = cleared \cup {h} /\ kind[h] # "none")
  PROVE  HandleInv'
<1>1. ASSUME NEW g \in Hints, g # h
      PROVE  (closed' \/ HintTold(g)') /\ ClearedGone(g)'
  <2>1. hints'[g] = hints[g] /\ due'[g] = due[g] /\ (g \in cleared' <=> g \in cleared)
    BY <1>1, ClearForgets DEF Typed, HandlesTyped
  <2> QED BY <2>1 DEF HandleInv, HintTold, ClearedGone
<1>2. HintTold(h)' /\ ClearedGone(h)'
  <2>1. hints'[h] = Never /\ due'[h] = Never
    BY ClearForgets DEF Typed, HandlesTyped
  <2> QED BY <2>1 DEF HandleInv, HintTold, ClearedGone
<1> QED BY <1>1, <1>2 DEF HandleInv

LEMMA NewHandleStays ==
  ASSUME Typed, HandleInv, NEW what \in {"timeout", "interval", "promise"}, NEW h \in Hints,
         NEW delay \in Delays, NewHandle(what, h, delay)
  PROVE  HandleInv'
<1>1. delay \in Nat
  BY EventLoopAssumption
<1>2. kind[h] = "none" /\ kind' = [kind EXCEPT ![h] = what] /\ Arm(h, delay)
      /\ UNCHANGED <<closed, cleared>>
  BY DEF NewHandle
<1>3. kind'[h] # "none" /\ \A g \in Hints \ {h} : kind'[g] = kind[g]
  BY <1>2 DEF Typed, HandlesTyped
<1> QED BY <1>1, <1>2, <1>3, ArmedStays

\* Nothing about handles changes.
HandlesSame == UNCHANGED <<hints, due, kind, cleared, refused, closed>>

LEMMA HandleStep ==
  ASSUME Typed, HandleInv, PromiseHandle, [Next]_allVars
  PROVE  HandleInv'
<1> USE DEF timerVars, loopVars, osVars, jsVars
<1>0. ASSUME HandlesSame PROVE HandleInv'
  BY <1>0 DEF HandlesSame, HandleInv, HintTold, ClearedGone
<1>1. CASE UNCHANGED allVars
  BY <1>0, <1>1 DEF HandlesSame, allVars, vars
<1>2. CASE ScriptStep
  <2>1. ASSUME NEW delay \in Delays, NEW repeating \in BOOLEAN, Creates(delay, repeating)
        PROVE  HandleInv'
    BY <1>0, <2>1 DEF HandlesSame, Creates, CreateTimer
  <2>2. ASSUME NEW delay \in Delays, CreatesPromise(delay)
        PROVE  HandleInv'
    BY <1>0, <2>2 DEF HandlesSame, CreatesPromise, CreateTimer
  <2>3. ASSUME NEW delay \in Delays, NEW h \in Hints, NEW what \in {"timeout", "interval"},
               Handles(what, h, delay)
        PROVE  HandleInv'
    BY <2>3, NewHandleStays DEF Handles
  <2>4. ASSUME NEW delay \in Delays, NEW h \in Hints, HandlesPromise(h, delay)
        PROVE  HandleInv'
    BY <2>4, NewHandleStays DEF HandlesPromise
  <2>5. ASSUME NEW h \in Hints, ClearTimeout(h)
        PROVE  HandleInv'
    BY <2>5, ForgottenStays DEF ClearTimeout, ClearHandle
  <2>6. ASSUME NEW h \in Hints, ClearInterval(h)
        PROVE  HandleInv'
    <3>1. ASSUME NEW g \in Hints, g # h
          PROVE  (closed' \/ HintTold(g)') /\ ClearedGone(g)'
      <4>1. hints'[g] = hints[g] /\ (g \in cleared' <=> g \in cleared)
            /\ UNCHANGED <<due, kind, refused, closed>>
        BY <2>6, <3>1, ClearForgets DEF ClearInterval
      <4> QED BY <4>1 DEF HandleInv, HintTold, ClearedGone
    <3>2. HintTold(h)' /\ ClearedGone(h)'
      BY <2>6, ClearForgets DEF ClearInterval, HintTold, ClearedGone
    <3> QED BY <3>1, <3>2 DEF HandleInv
  <2>7. ASSUME NEW t \in Timers, ClearOwned(t)
        PROVE  HandleInv'
    BY <1>0, <2>7 DEF HandlesSame, ClearOwned, CancelTimer
  <2>8. CASE Abort
    <3>1. CASE timer.owned
      BY <1>0, <2>8, <3>1 DEF HandlesSame, Abort, ClearPromiseTimer
    <3>2. CASE ~timer.owned
      <4>1. timer.id \in Hints /\ kind[timer.id] = "promise" /\ ClearHandle(timer.id)
        BY <2>8, <3>2 DEF Abort, ClearPromiseTimer, PromiseHandle, Typed, PromiseTyped
      <4> QED BY <4>1, ForgottenStays DEF ClearHandle
    <3> QED BY <3>1, <3>2
  <2>9. ASSUME NEW timeout \in Delays, Starts(timeout)
        PROVE  HandleInv'
    BY <1>0, <2>9 DEF HandlesSame, Starts, StartOperation
  <2>10. CASE Configures
    BY <1>0, <2>10 DEF HandlesSame, Configures, Configure
  <2> QED
    BY <1>2, <2>1, <2>2, <2>3, <2>4, <2>5, <2>6, <2>7, <2>8, <2>9, <2>10 DEF ScriptStep
<1>3. CASE HostStep
  <2>1. CASE SessionClose
    BY <2>1 DEF SessionClose, Close, HandleInv, ClearedGone
  <2>2. ASSUME NEW g, Delivers(g) PROVE HandleInv'
    BY <1>0, <2>2 DEF HandlesSame, Delivers, DeliverBegin
  <2>3. CASE Fires \/ Drains \/ Interrupts \/ Ticks
    BY <1>0, <2>3 DEF HandlesSame, Fires, FireTimer, Drains, Drain, Interrupts, Interrupt,
         Ticks, Tick
  <2>4. CASE Returns \/ Throws \/ Ends \/ FailsToEnd
    BY <1>0, <2>4 DEF HandlesSame, Returns, CallbackReturns, Throws, CallbackThrows,
         Ends, DeliverEnd, FailsToEnd, DeliverFails, Returned
  <2>5. ASSUME NEW o \in Ops, Completes(o) PROVE HandleInv'
    BY <1>0, <2>5 DEF HandlesSame, Completes, WorkerCompletes
  <2>6. CASE FailsToFire \/ FailsToDrain
    BY <1>0, <2>6 DEF HandlesSame, FailsToFire, FireFails, FailsToDrain, DrainFails, Returned
  <2> QED BY <1>3, <2>1, <2>2, <2>3, <2>4, <2>5, <2>6 DEF HostStep
<1>4. CASE PumpingStep
  <2>1. CASE Pumps \/ OsThrows \/ PumpEnds
    BY <1>0, <2>1 DEF HandlesSame, Pumps, PumpBegins, OsThrows, PumpEnds
  <2>2. ASSUME NEW h \in Hints, OsFires(h)
        PROVE  HandleInv'
    BY <2>2, ForgottenStays DEF OsFires
  <2>3. CASE OsReturns
    <3>1. CASE kind[running] = "interval"
      <4>1. running \in Hints /\ every[running] \in Nat
        BY <2>3 DEF OsReturns, Typed, HandlesTyped
      <4> QED BY <2>3, <3>1, <4>1, ArmedStays DEF OsReturns
    <3>2. CASE kind[running] # "interval"
      BY <1>0, <2>3, <3>2 DEF HandlesSame, OsReturns
    <3> QED BY <3>1, <3>2
  <2> QED BY <1>4, <2>1, <2>2, <2>3 DEF PumpingStep
<1> QED BY <1>1, <1>2, <1>3, <1>4, NextCases

\* A callback of the session's timers runs for an id that was given out.
CurrentGiven == owner = "callback" => current < nextTimer

PromiseInv == PromiseOwned /\ PromiseHandle /\ OneHandle /\ Unheard /\ CurrentGiven

\* Only a delivery that fires starts a callback.
LEMMA CallbackSteps ==
  ASSUME Typed, [Next]_allVars
  PROVE  FireTimer \/ (owner' = "callback" => owner = "callback" /\ current' = current)
<1>1. CASE UNCHANGED allVars
  BY <1>1 DEF allVars, vars
<1>2. CASE ScriptStep
  <2>1. UNCHANGED <<owner, current>>
    BY <1>2 DEF ScriptStep, Creates, CreatesPromise, CreateTimer, Handles, HandlesPromise,
         NewHandle, ClearTimeout, ClearInterval, ClearHandle, ClearOwned, CancelTimer,
         Abort, ClearPromiseTimer, Starts, StartOperation, Configures, Configure, loopVars
  <2> QED BY <2>1
<1>3. CASE HostStep
  BY <1>3 DEF HostStep, Delivers, DeliverBegin, Fires, FailsToFire, FireFails, Drains,
       Drain, FailsToDrain, DrainFails, Returns, CallbackReturns, Throws, CallbackThrows,
       Ends, DeliverEnd, FailsToEnd, DeliverFails, Interrupts, Interrupt, SessionClose, Close,
       Completes, WorkerCompletes, Ticks, Tick
<1>4. CASE PumpingStep
  BY <1>4 DEF PumpingStep, Pumps, PumpBegins, OsFires, OsReturns, OsThrows, PumpEnds
<1> QED BY <1>1, <1>2, <1>3, <1>4, NextCases

\* The qjs:os timers of promises stay, or are gone.
PromiseDues ==
  \A h \in Hints : /\ kind'[h] = "promise" <=> kind[h] = "promise"
                   /\ kind[h] = "promise" => due'[h] \in {due[h], Never}

LEMMA PromiseKinds ==
  ASSUME Typed, [Next]_allVars
  PROVE  \/ \E delay \in Delays : \E h \in Hints : HandlesPromise(h, delay)
         \/ PromiseDues
<1> USE DEF loopVars, osVars, jsVars
<1>0. ASSUME UNCHANGED <<kind, due>> PROVE PromiseDues
  BY <1>0 DEF PromiseDues
<1>1. CASE UNCHANGED allVars
  BY <1>0, <1>1 DEF allVars
<1>2. ASSUME NEW h \in Hints, UNCHANGED kind, due' = [due EXCEPT ![h] = Never] PROVE PromiseDues
  BY <1>2 DEF PromiseDues, Typed, HandlesTyped
<1>3. CASE ScriptStep
  <2>1. ASSUME NEW delay \in Delays, NEW repeating \in BOOLEAN, Creates(delay, repeating)
        PROVE  PromiseDues
    BY <1>0, <2>1 DEF Creates
  <2>2. ASSUME NEW delay \in Delays, CreatesPromise(delay)
        PROVE  PromiseDues
    BY <1>0, <2>2 DEF CreatesPromise
  <2>3. ASSUME NEW delay \in Delays, NEW h \in Hints, NEW what \in {"timeout", "interval"},
               Handles(what, h, delay)
        PROVE  PromiseDues
    BY <2>3 DEF PromiseDues, Handles, NewHandle, Arm, Typed, HandlesTyped
  <2>4. ASSUME NEW h \in Hints, ClearTimeout(h)
        PROVE  PromiseDues
    BY <1>2, <2>4 DEF ClearTimeout, ClearHandle
  <2>5. ASSUME NEW h \in Hints, ClearInterval(h)
        PROVE  PromiseDues
    BY <1>0, <2>5 DEF ClearInterval
  <2>6. ASSUME NEW t \in Timers, ClearOwned(t)
        PROVE  PromiseDues
    BY <1>0, <2>6 DEF ClearOwned
  <2>7. CASE Abort
    <3>1. CASE timer.owned
      <4>1. UNCHANGED <<kind, due>>
        BY <2>7, <3>1 DEF Abort, ClearPromiseTimer
      <4> QED BY <1>0, <4>1
    <3>2. CASE ~timer.owned
      <4>1. timer.id \in Hints
        BY <2>7, <3>2 DEF Abort, Typed, PromiseTyped
      <4>2. UNCHANGED kind /\ due' = [due EXCEPT ![timer.id] = Never]
        BY <2>7, <3>2 DEF Abort, ClearPromiseTimer, ClearHandle
      <4> QED BY <1>2, <4>1, <4>2
    <3> QED BY <3>1, <3>2
  <2>8. ASSUME NEW timeout \in Delays, Starts(timeout)
        PROVE  PromiseDues
    BY <1>0, <2>8 DEF Starts
  <2>9. CASE Configures
    BY <1>0, <2>9 DEF Configures
  <2> QED
    BY <1>3, <2>1, <2>2, <2>3, <2>4, <2>5, <2>6, <2>7, <2>8, <2>9 DEF ScriptStep
<1>4. CASE HostStep
  <2>1. CASE SessionClose
    BY <2>1 DEF PromiseDues, SessionClose
  <2>2. CASE ~SessionClose
    <3>1. UNCHANGED <<kind, due>>
      BY <1>4, <2>2 DEF HostStep, Delivers, Fires, FailsToFire, Drains, FailsToDrain,
           Returns, Throws, Ends, FailsToEnd, Interrupts, Returned, Completes, Ticks
    <3> QED BY <1>0, <3>1
  <2> QED BY <2>1, <2>2
<1>5. CASE PumpingStep
  <2>1. ASSUME NEW h \in Hints, OsFires(h)
        PROVE  PromiseDues
    BY <1>2, <2>1 DEF OsFires
  <2>2. CASE OsReturns
    <3>1. CASE kind[running] = "interval"
      BY <2>2, <3>1 DEF PromiseDues, OsReturns, Arm, Typed, HandlesTyped
    <3>2. CASE kind[running] # "interval"
      BY <1>0, <2>2, <3>2 DEF OsReturns
    <3> QED BY <3>1, <3>2
  <2>3. CASE Pumps \/ OsThrows \/ PumpEnds
    BY <1>0, <2>3 DEF Pumps, PumpBegins, OsThrows, PumpEnds
  <2> QED BY <1>5, <2>1, <2>2, <2>3 DEF PumpingStep
<1> QED BY <1>1, <1>3, <1>4, <1>5, NextCases

\* What a step does to the promise timer.
LEMMA PromiseSteps ==
  ASSUME Typed, [Next]_allVars
  PROVE  \/ \E delay \in Delays : CreatesPromise(delay)
         \/ \E delay \in Delays : \E h \in Hints : HandlesPromise(h, delay)
         \/ Abort \/ Returns
         \/ \E h \in Hints : OsFires(h)
         \/ UNCHANGED promiseVars
<1> USE DEF jsVars, promiseVars
<1>1. CASE UNCHANGED allVars
  BY <1>1 DEF allVars
<1>2. CASE ScriptStep
  BY <1>2 DEF ScriptStep, Creates, Handles, ClearTimeout, ClearInterval, ClearOwned, Starts,
       Configures
<1>3. CASE HostStep
  BY <1>3 DEF HostStep, Delivers, Fires, FailsToFire, Drains, FailsToDrain, Throws, Ends,
       FailsToEnd, Interrupts, Returned, SessionClose, Completes, Ticks
<1>4. CASE PumpingStep
  BY <1>4 DEF PumpingStep, Pumps, PumpBegins, OsReturns, OsThrows, PumpEnds
<1> QED BY <1>1, <1>2, <1>3, <1>4, NextCases

LEMMA CurrentStays ==
  ASSUME Typed, TimerInv, CurrentGiven, [Next]_allVars
  PROVE  CurrentGiven'
<1>1. CASE FireTimer
  BY <1>1, FiredTimer DEF TimerInv, CurrentGiven
<1>2. CASE ~FireTimer
  <2>1. nextTimer' = nextTimer \/ nextTimer' = nextTimer + 1
    BY <1>2, TimerSteps, NewTimer DEF TimersOnlyGo
  <2>2. owner' = "callback" => owner = "callback" /\ current' = current
    BY <1>2, CallbackSteps
  <2>3. nextTimer \in Nat /\ current \in Nat
    BY EventLoopAssumption DEF Typed, CoreTyped, Timers, NoTimer
  <2> QED BY <2>1, <2>2, <2>3 DEF CurrentGiven
<1> QED BY <1>1, <1>2

\* The session's timer of a Promise, while the Promise does not change.
LEMMA OwnedStays ==
  ASSUME Typed, PromiseOwned, [Next]_allVars, UNCHANGED <<promise, timer>>
  PROVE  PromiseOwned'
<1> SUFFICES ASSUME promise # "none", timer.owned
             PROVE  /\ timer.id \in Timers /\ timer.id < nextTimer'
                    /\ ~timers'[timer.id].repeating
                    /\ owner' = "callback" /\ current' = timer.id => timers'[timer.id].due = Never
                    /\ promise # "waiting" => timers'[timer.id].due = Never
  BY DEF PromiseOwned, Live
<1>0. /\ timer.id \in Timers /\ timer.id < nextTimer
      /\ ~timers[timer.id].repeating
      /\ owner = "callback" /\ current = timer.id => timers[timer.id].due = Never
      /\ promise # "waiting" => timers[timer.id].due = Never
      /\ timer.id \in Nat /\ nextTimer \in Nat
  BY EventLoopAssumption DEF PromiseOwned, Live, Typed, CoreTyped, PromiseTyped
<1>1. ASSUME NEW delay \in Delays, NEW repeating \in BOOLEAN, CreateTimer(delay, repeating)
      PROVE  /\ timers'[timer.id] = timers[timer.id] /\ nextTimer' = nextTimer + 1
             /\ UNCHANGED <<owner, current>>
  <2>1. /\ nextTimer' = nextTimer + 1
        /\ timers' = [timers EXCEPT ![nextTimer] =
             [due |-> clock + delay, interval |-> delay, repeating |-> repeating]]
    BY <1>1, NewTimer
  <2>2. timers'[timer.id] = timers[timer.id]
    BY <1>0, <2>1 DEF Typed, MapsTyped, TimerMap
  <2> QED BY <1>1, <2>1, <2>2 DEF CreateTimer
<1>2. CASE FireTimer
  <2>1. CASE NextDue = timer.id
    <3>1. timers'[timer.id] = Nothing /\ nextTimer' = nextTimer
      BY <1>0, <1>2, <2>1, FiredTimer
    <3> QED BY <1>0, <3>1 DEF Nothing
  <2>2. CASE NextDue # timer.id
    <3>1. timers'[timer.id] = timers[timer.id] /\ nextTimer' = nextTimer /\ current' # timer.id
      BY <1>0, <1>2, <2>2, FiredTimer
    <3> QED BY <1>0, <3>1
  <2> QED BY <2>1, <2>2
<1>3. CASE TimersOnlyGo /\ ~FireTimer
  <2>1. timers'[timer.id] = timers[timer.id] \/ timers'[timer.id] = Nothing
    BY <1>0, <1>3 DEF TimersOnlyGo
  <2>2. nextTimer' = nextTimer
        /\ (owner' = "callback" => owner = "callback" /\ current' = current)
    BY <1>3, CallbackSteps DEF TimersOnlyGo
  <2> QED BY <1>0, <2>1, <2>2 DEF Nothing
<1>4. CASE \E delay \in Delays : \E repeating \in BOOLEAN : CreateTimer(delay, repeating)
  <2>1. /\ timers'[timer.id] = timers[timer.id] /\ nextTimer' = nextTimer + 1
        /\ UNCHANGED <<owner, current>>
    BY <1>1, <1>4
  <2> QED BY <1>0, <2>1
<1> QED BY <1>2, <1>3, <1>4, TimerSteps

\* Its qjs:os timer, when it is settled with it.
LEMMA HandleStays ==
  ASSUME Typed, PromiseHandle, OneHandle, PromiseDues, UNCHANGED timer,
         promise' = promise \/ (promise = "waiting" /\ promise' # "none"),
         promise' = promise \/ timer.owned \/ due'[timer.id] = Never
  PROVE  PromiseHandle' /\ OneHandle'
<1>1. OneHandle'
  BY DEF PromiseDues, OneHandle
<1>2. PromiseHandle'
  <2> SUFFICES ASSUME promise' # "none", ~timer.owned
               PROVE  /\ kind'[timer.id] = "promise"
                      /\ promise' # "waiting" => due'[timer.id] = Never
    BY DEF PromiseHandle
  <2>1. promise # "none" /\ timer.id \in Hints
    BY DEF Typed, PromiseTyped
  <2>2. kind[timer.id] = "promise" /\ (promise # "waiting" => due[timer.id] = Never)
    BY <2>1 DEF PromiseHandle
  <2> QED BY <2>1, <2>2 DEF PromiseDues
<1> QED BY <1>1, <1>2

LEMMA PromiseStep ==
  ASSUME Typed, Typed', TimerInv, PromiseInv, [Next]_allVars
  PROVE  PromiseInv'
<1> USE DEF promiseVars, osVars
<1>1. CurrentGiven'
  BY CurrentStays DEF PromiseInv
<1>2. ASSUME NEW delay \in Delays, CreatesPromise(delay)
      PROVE  PromiseInv'
  <2>1. /\ promise = "none" /\ promise' = "waiting" /\ CreateTimer(delay, FALSE)
        /\ timer' = [owned |-> TRUE, id |-> nextTimer] /\ UNCHANGED <<kind, due>>
    BY <1>2 DEF CreatesPromise
  <2>2. /\ nextTimer \in Timers /\ nextTimer \in Nat /\ nextTimer' = nextTimer + 1
        /\ timers' = [timers EXCEPT ![nextTimer] =
             [due |-> clock + delay, interval |-> delay, repeating |-> FALSE]]
    BY <2>1, NewTimer
  <2>3. ~timers'[nextTimer].repeating
    BY <2>2 DEF Typed, MapsTyped, TimerMap
  <2>4. ~(owner' = "callback" /\ current' = nextTimer)
    <3>1. UNCHANGED <<owner, current>> /\ current \in Nat
      BY <2>1, EventLoopAssumption DEF CreateTimer, Typed, CoreTyped, Timers, NoTimer
    <3> QED BY <2>2, <3>1 DEF PromiseInv, CurrentGiven
  <2>5. PromiseOwned'
    BY <2>1, <2>2, <2>3, <2>4 DEF PromiseOwned
  <2>6. PromiseHandle' /\ Unheard'
    BY <2>1 DEF PromiseHandle, Unheard
  <2>7. OneHandle'
    BY <2>1 DEF PromiseInv, OneHandle
  <2> QED BY <1>1, <2>5, <2>6, <2>7 DEF PromiseInv
<1>3. ASSUME NEW delay \in Delays, NEW h \in Hints, HandlesPromise(h, delay)
      PROVE  PromiseInv'
  <2>1. /\ promise = "none" /\ promise' = "waiting"
        /\ timer' = [owned |-> FALSE, id |-> h] /\ kind' = [kind EXCEPT ![h] = "promise"]
    BY <1>3 DEF HandlesPromise, NewHandle
  <2>2. PromiseOwned' /\ Unheard'
    BY <2>1 DEF PromiseOwned, Unheard
  <2>3. PromiseHandle' /\ OneHandle'
    BY <2>1 DEF PromiseInv, PromiseHandle, OneHandle, Typed, HandlesTyped
  <2> QED BY <1>1, <2>2, <2>3 DEF PromiseInv
<1>4. CASE PromiseDues /\ UNCHANGED promiseVars
  <2>1. UNCHANGED <<promise, timer, listening>>
    BY <1>4
  <2>2. PromiseHandle' /\ OneHandle'
    BY <1>4, <2>1, HandleStays DEF PromiseInv
  <2>3. PromiseOwned' /\ Unheard'
    BY <2>1, OwnedStays DEF PromiseInv, Unheard
  <2> QED BY <1>1, <2>2, <2>3 DEF PromiseInv
<1>5. CASE PromiseDues /\ Abort
  <2>1. /\ promise = "waiting" /\ promise' = "aborted" /\ ~listening' /\ UNCHANGED timer
        /\ ClearPromiseTimer
    BY <1>5 DEF Abort
  <2>2. CASE timer.owned
    <3>1. PromiseOwned /\ timer.id \in Timers
      BY <2>1, <2>2 DEF PromiseInv, PromiseOwned
    <3>2. /\ UNCHANGED <<nextTimer, owner, current>>
          /\ timers'[timer.id] = Nothing \/ (timer.id \notin Live /\ timers' = timers)
      BY <2>1, <2>2, <3>1 DEF ClearPromiseTimer, loopVars, timerVars, Typed, MapsTyped, TimerMap
    <3>3. PromiseOwned'
      BY <2>1, <2>2, <3>1, <3>2 DEF PromiseOwned, Live, Nothing
    <3> QED BY <1>1, HandleStays, <1>5, <2>1, <2>2, <3>3 DEF PromiseInv, Unheard
  <2>3. CASE ~timer.owned
    <3>1. PromiseOwned' /\ Unheard'
      BY <2>1, <2>3 DEF PromiseOwned, Unheard
    <3>2. due'[timer.id] = Never
      BY <2>1, <2>3 DEF ClearPromiseTimer, ClearHandle, Typed, HandlesTyped, PromiseTyped
    <3> QED BY <1>1, HandleStays, <1>5, <2>1, <3>1, <3>2 DEF PromiseInv
  <2> QED BY <2>2, <2>3
<1>6. CASE PromiseDues /\ Returns
  <2>1. CASE PromiseTimer(TRUE, current) /\ promise = "waiting"
    <3>1. /\ promise' = "resolved" /\ ~listening' /\ UNCHANGED <<timer, timers, nextTimer>>
          /\ owner = "callback" /\ owner' # "callback"
          /\ timer.owned /\ timer.id = current
      BY <1>6, <2>1 DEF Returns, CallbackReturns, Resolve, PromiseTimer, timerVars
    <3>2. PromiseOwned'
      BY <2>1, <3>1 DEF PromiseInv, PromiseOwned, Live
    <3> QED BY <1>1, HandleStays, <1>6, <2>1, <3>1, <3>2 DEF PromiseInv, Unheard
  <2>2. CASE ~(PromiseTimer(TRUE, current) /\ promise = "waiting")
    BY <1>4, <1>6, <2>2 DEF Returns, Resolve
  <2> QED BY <2>1, <2>2
<1>7. ASSUME PromiseDues, NEW h \in Hints, OsFires(h)
      PROVE  PromiseInv'
  <2>1. CASE kind[h] = "promise" /\ promise = "waiting"
    <3>1. /\ promise' = "resolved" /\ ~listening' /\ UNCHANGED timer
          /\ due' = [due EXCEPT ![h] = Never]
      BY <1>7, <2>1 DEF OsFires, Resolve
    <3>2. ~timer.owned /\ timer.id = h
      BY <2>1 DEF PromiseInv, OneHandle
    <3>3. PromiseOwned' /\ Unheard' /\ due'[timer.id] = Never
      BY <3>1, <3>2 DEF PromiseOwned, Unheard, Typed, HandlesTyped
    <3> QED BY <1>1, HandleStays, <1>7, <2>1, <3>1, <3>3 DEF PromiseInv
  <2>2. CASE ~(kind[h] = "promise" /\ promise = "waiting")
    BY <1>4, <1>7, <2>2 DEF OsFires, Resolve
  <2> QED BY <2>1, <2>2
<1>8. CASE PromiseDues
  BY <1>2, <1>3, <1>4, <1>5, <1>6, <1>7, <1>8, PromiseSteps
<1> QED BY <1>3, <1>8, PromiseKinds

HandlesInv == HandleInv /\ PromiseInv

LEMMA AlwaysHandles == Spec => []HandlesInv
<1>1. GlobalsInit => HandlesInv
  BY DEF GlobalsInit, Init, HandlesInv, HandleInv, HintTold, ClearedGone, PromiseInv,
     PromiseOwned, PromiseHandle, OneHandle, Unheard, CurrentGiven
<1>2. Typed /\ Typed' /\ TimerInv /\ HandlesInv /\ [Next]_allVars => HandlesInv'
  BY HandleStep, PromiseStep DEF HandlesInv, PromiseInv
<1> QED BY <1>1, <1>2, AlwaysTyped, AlwaysTimers, PTL DEF Spec

\* Every hint has its qjs:os timer at the same time, and every qjs:os timer that
\* will call back has its hint unless the limit refused it, whatever was set,
\* cleared, fired and set again before.
THEOREM HintsAreTold == Spec => []HintsTellTimers
<1>1. HandlesInv => HintsTellTimers
  BY DEF HandlesInv, HandleInv, HintTold, HintsTellTimers
<1> QED BY <1>1, AlwaysHandles, PTL

\* A settled promise timer has left no listener, no timer of the session and no
\* qjs:os timer behind, whether its time came or its signal was aborted, in
\* either kind of session and in one that changed its ownership between.
THEOREM NothingLeft == Spec => []SettledLeavesNothing
<1>1. HandlesInv => SettledLeavesNothing
  BY DEF HandlesInv, PromiseInv, PromiseOwned, PromiseHandle, Unheard, SettledLeavesNothing
<1> QED BY <1>1, AlwaysHandles, PTL

\* No callback runs for a handle that was cleared before its timer expired.
THEOREM ClearedStaysQuiet == Spec => NoCallbackAfterClear
<1>1. ASSUME Typed, HandlesInv, [Next]_allVars, running' \notin {running, NoTimer}
      PROVE  running' \notin cleared
  <2>1. \E h \in Hints : OsFires(h)
    <3>1. CASE UNCHANGED allVars
      BY <1>1, <3>1 DEF allVars, jsVars
    <3>2. CASE ScriptStep
      <4>1. UNCHANGED running
        BY <3>2 DEF ScriptStep, Creates, CreatesPromise, Handles, HandlesPromise, NewHandle,
             ClearTimeout, ClearInterval, ClearOwned, Abort, Starts, Configures, jsVars
      <4> QED BY <1>1, <4>1
    <3>3. CASE HostStep
      <4>1. UNCHANGED running
        BY <3>3 DEF HostStep, Delivers, Fires, FailsToFire, Drains, FailsToDrain, Returns,
             Throws, Ends, FailsToEnd, Interrupts, Returned, SessionClose, Completes, Ticks,
             jsVars
      <4> QED BY <1>1, <4>1
    <3>4. CASE PumpingStep
      BY <1>1, <3>4 DEF PumpingStep, Pumps, PumpBegins, OsReturns, OsThrows, PumpEnds, jsVars
    <3> QED BY <1>1, <3>1, <3>2, <3>3, <3>4, NextCases
  <2>2. PICK h \in Hints : OsFires(h)
    BY <2>1
  <2>3. running' = h /\ Runs(h) /\ due[h] # Never
    BY <1>1, <2>2 DEF OsFires, OsTimers
  <2>4. ClearedGone(h)
    BY <1>1 DEF HandlesInv, HandleInv
  <2> QED BY <2>3, <2>4 DEF Runs, ClearedGone
<1>2. Typed /\ HandlesInv /\ [Next]_allVars =>
        [running' \notin {running, NoTimer} => running' \notin cleared]_allVars
  BY <1>1
<1> QED BY <1>2, AlwaysTyped, AlwaysHandles, PTL DEF Spec, NoCallbackAfterClear

=============================================================================
