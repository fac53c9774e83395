-------------------------------- MODULE Fetch --------------------------------
(***************************************************************************)
(* fetch() (src/web/js/fetch.js) over the native transport of              *)
(* src/host_fetch.v: a worker thread for every admitted request, a slot    *)
(* for every worker, a host-async operation that decides between response, *)
(* abort and timeout, and a compatibility timer that drains it.            *)
(*                                                                         *)
(* The operation's gate is HostAsync's: the first terminal event is kept,  *)
(* and it marks the token if it cancels.  All fetches with a signal share  *)
(* one.  A drain and the dispatch of an abort event are single steps,      *)
(* since no other JavaScript runs within them; a Promise job is a step of  *)
(* its own.  An interrupt may come between steps and ends all JavaScript;  *)
(* one within a step counts as one behind it.                              *)
(***************************************************************************)
EXTENDS Integers, FiniteSets

CONSTANTS
  Fetches,    \* calls of fetch()
  Signalled,  \* those with an AbortSignal
  Limit       \* config.max_concurrent_requests

ASSUME FetchAssumption ==
  IsFiniteSet(Fetches) /\ Signalled \subseteq Fetches /\ Limit \in Nat

\* What decides an operation: the worker's result, an abort, the deadline, or
\* the close of the session.
Outcomes == {"resolved", "rejected", "cancelled", "timedOut", "closed"}
Cancelling == {"cancelled", "timedOut", "closed"}

VARIABLES
  stage,     \* where requestPromise is
  race,      \* the first of requestPromise and abortPromise to be settled
  result,    \* how fetch's own Promise was settled
  aborted,   \* signal.aborted
  listeners, \* fetches whose onAbort listens to the signal
  op,        \* the operation: "none", "pending" or its terminal event
  settled,   \* the operation's Promise is settled and its record is gone
  token,     \* the operation's cancellation token
  armed,     \* the compatibility timer of the operation is set
  worker,    \* where the worker is
  reply,     \* what the transport returned
  results,   \* a result is in the channel of capacity one
  active,    \* workers.active
  late,      \* the deadline has passed
  tardy,     \* history: the transport returned after the deadline
  leaked,    \* history: slots of requests that failed half started
  stranded,  \* history: fetches whose timer was lost before they were settled
  interrupted, \* the session is interrupted: ensure_executable fails
  closed       \* the session is closed

jsVars == <<stage, race, result, aborted, listeners>>
opVars == <<op, settled, token, armed>>
workerVars == <<worker, reply, results, active, tardy>>
lifeVars == <<stranded, interrupted, closed>>
vars == <<jsVars, opVars, workerVars, late, leaked, lifeVars>>

Init ==
  /\ stage = [f \in Fetches |-> "idle"]
  /\ race = [f \in Fetches |-> "none"]
  /\ result = [f \in Fetches |-> "none"]
  /\ aborted = FALSE /\ listeners = {}
  /\ op = [f \in Fetches |-> "none"]
  /\ settled = [f \in Fetches |-> FALSE]
  /\ token = [f \in Fetches |-> FALSE]
  /\ armed = [f \in Fetches |-> FALSE]
  /\ worker = [f \in Fetches |-> "none"]
  /\ reply = [f \in Fetches |-> "none"]
  /\ results = [f \in Fetches |-> FALSE]
  /\ active = 0
  /\ late = [f \in Fetches |-> FALSE]
  /\ tardy = [f \in Fetches |-> FALSE]
  /\ leaked = {} /\ stranded = {}
  /\ interrupted = FALSE /\ closed = FALSE

\* JavaScript is run.
Runs == ~closed /\ ~interrupted

Aborted(f) == f \in Signalled /\ aborted

-----------------------------------------------------------------------------
(* core_fetch: fetch_start_native on the owner lane. *)

\* No slot is free: the request is rejected at once.
Refused(f) ==
  /\ active >= Limit
  /\ stage' = [stage EXCEPT ![f] = "failed"]
  /\ UNCHANGED <<op, settled, token, armed, worker, active, leaked>>

\* Everything is in place and the worker is spawned.
Started(f) ==
  /\ active < Limit
  /\ active' = active + 1
  /\ op' = [op EXCEPT ![f] = "pending"]
  /\ armed' = [armed EXCEPT ![f] = TRUE]
  /\ worker' = [worker EXCEPT ![f] = "spawned"]
  /\ stage' = [stage EXCEPT ![f] = "waiting"]
  /\ UNCHANGED <<settled, token, leaked>>

\* Operations whose terminal event is in the queue.
Decided(op_) == {f \in Fetches : op_[f] \in Outcomes /\ ~settled[f]}

Drain(op_) == settled' = [f \in Fetches |-> settled[f] \/ f \in Decided(op_)]

\* The timer cannot be set: the slot is given back, the operation is rejected
\* and drained.
NotScheduled(f) ==
  /\ active < Limit
  /\ op' = [op EXCEPT ![f] = "rejected"]
  /\ Drain(op')
  /\ stage' = [stage EXCEPT ![f] = "failed"]
  /\ UNCHANGED <<active, token, armed, worker, leaked>>

\* A call into JavaScript fails after the operation was registered: slot and
\* operation stay behind.
HalfStarted(f) ==
  /\ active < Limit
  /\ active' = active + 1
  /\ op' = [op EXCEPT ![f] = "pending"]
  /\ leaked' = leaked \cup {f}
  /\ stage' = [stage EXCEPT ![f] = "failed"]
  /\ UNCHANGED <<settled, token, armed, worker>>

CoreFetch(f) == Refused(f) \/ Started(f) \/ NotScheduled(f) \/ HalfStarted(f)

-----------------------------------------------------------------------------
(* fetch() and its Promise jobs. *)

\* fetch() up to its first await: the body is at hand.
Fetch(f) ==
  /\ Runs
  /\ stage[f] = "idle" /\ ~Aborted(f)
  /\ listeners' = listeners \cup ({f} \cap Signalled)
  /\ CoreFetch(f)
  /\ UNCHANGED <<race, result, aborted, reply, results, tardy, late, lifeVars>>

\* Or it has to be read from the request first.
FetchWithBody(f) ==
  /\ Runs
  /\ stage[f] = "idle" /\ ~Aborted(f)
  /\ listeners' = listeners \cup ({f} \cap Signalled)
  /\ stage' = [stage EXCEPT ![f] = "body"]
  /\ UNCHANGED <<race, result, aborted, opVars, workerVars, late, leaked, lifeVars>>

\* Or the signal is aborted already.
FetchAborted(f) ==
  /\ Runs
  /\ stage[f] = "idle" /\ Aborted(f)
  /\ stage' = [stage EXCEPT ![f] = "over"]
  /\ result' = [result EXCEPT ![f] = "abort"]
  /\ UNCHANGED <<race, aborted, listeners, opVars, workerVars, late, leaked, lifeVars>>

\* Mutant of BodyRead: the signal is not looked at again.
BodyReadBlindly(f) ==
  /\ Runs
  /\ stage[f] = "body"
  /\ CoreFetch(f)
  /\ UNCHANGED <<race, result, aborted, listeners, reply, results, tardy, late, lifeVars>>

\* requestPromise after `await req.text()`.
BodyRead(f) ==
  /\ Runs
  /\ stage[f] = "body"
  /\ IF Aborted(f)
     THEN stage' = [stage EXCEPT ![f] = "failed"]
          /\ UNCHANGED <<opVars, worker, active, leaked>>
     ELSE CoreFetch(f)
  /\ UNCHANGED <<race, result, aborted, listeners, reply, results, tardy, late, lifeVars>>

\* The first one to be settled decides the race.
Decide(f, how) == race' = [race EXCEPT ![f] = IF @ = "none" THEN how ELSE @]

\* The operation is fulfilled: the owner takes the result out of the channel,
\* and would wait for one.
OnResponse(f) ==
  /\ Runs
  /\ stage[f] = "waiting" /\ settled[f] /\ op[f] = "resolved"
  /\ results[f]
  /\ results' = [results EXCEPT ![f] = FALSE]
  /\ stage' = [stage EXCEPT ![f] = "response"]
  /\ UNCHANGED <<race, result, aborted, listeners, opVars, worker, reply, active, tardy,
                 late, leaked, lifeVars>>

\* requestPromise goes on with the response.
UseResponse(f) ==
  /\ Runs
  /\ stage[f] = "response"
  /\ stage' = [stage EXCEPT ![f] = "over"]
  /\ Decide(f, IF Aborted(f) THEN "abort" ELSE "response")
  /\ UNCHANGED <<result, aborted, listeners, opVars, workerVars, late, leaked, lifeVars>>

\* How a rejected requestPromise tells what went wrong.
Failure(f) ==
  CASE op[f] = "cancelled" \/ (op[f] = "none" /\ Aborted(f)) -> "abort"
    [] op[f] = "timedOut" -> "timeout"
    [] OTHER -> "error"

\* requestPromise is rejected.
RequestFails(f) ==
  /\ Runs
  /\ \/ stage[f] = "failed"
     \/ stage[f] = "waiting" /\ settled[f] /\ op[f] # "resolved"
  /\ stage' = [stage EXCEPT ![f] = "over"]
  /\ Decide(f, Failure(f))
  /\ UNCHANGED <<result, aborted, listeners, opVars, workerVars, late, leaked, lifeVars>>

\* fetch's own continuation behind the race, with its finally block.
Settle(f) ==
  /\ Runs
  /\ race[f] # "none" /\ result[f] = "none"
  /\ result' = [result EXCEPT ![f] = race[f]]
  /\ listeners' = listeners \ {f}
  /\ UNCHANGED <<stage, race, aborted, opVars, workerVars, late, leaked, lifeVars>>

-----------------------------------------------------------------------------
(* Terminal events. *)

\* Mutant of Cancellable: only requests whose worker has not returned yet.
CancellableWhileRunning(f) == op[f] = "pending" /\ worker[f] \in {"spawned", "running"}

\* cancelCoreFetch has an operation to cancel.
Cancellable(f) == op[f] = "pending" /\ stage[f] = "waiting"

\* controller.abort(): the event is dispatched to every onAbort, once.
Abort ==
  /\ Runs /\ ~aborted
  /\ aborted' = TRUE
  /\ LET hit == {f \in listeners : Cancellable(f)}
     IN  /\ op' = [f \in Fetches |-> IF f \in hit THEN "cancelled" ELSE op[f]]
         /\ token' = [f \in Fetches |-> token[f] \/ f \in hit]
  /\ race' = [f \in Fetches |->
       IF f \in listeners /\ race[f] = "none" THEN "abort" ELSE race[f]]
  /\ listeners' = {}
  /\ UNCHANGED <<stage, result, settled, armed, workerVars, late, leaked, lifeVars>>

\* The deadline has passed and nothing was decided.
Overdue(f) == late[f] /\ op[f] = "pending"

\* fetch_native_schedule's runner submits the timeout.
TimeOut(f) ==
  /\ op' = [op EXCEPT ![f] = IF Overdue(f) THEN "timedOut" ELSE @]
  /\ token' = [token EXCEPT ![f] = @ \/ Overdue(f)]

\* Mutant of Runner: one look.
RunnerOnce(f) ==
  /\ ~closed /\ armed[f]
  /\ \/ settled[f] /\ UNCHANGED <<op, token, settled>>
     \/ ~settled[f] /\ ~interrupted /\ TimeOut(f) /\ Drain(op')
  /\ armed' = [armed EXCEPT ![f] = FALSE]
  /\ UNCHANGED <<jsVars, workerVars, late, leaked, lifeVars>>

\* The compatibility timer fires: it times an overdue operation out, drains, and
\* sets itself again while the operation is pending.
Runner(f) ==
  /\ ~closed /\ armed[f]
  /\ \/ /\ settled[f]
        /\ armed' = [armed EXCEPT ![f] = FALSE]
        /\ UNCHANGED <<op, token, settled>>
     \/ /\ ~settled[f] /\ ~interrupted
        /\ TimeOut(f)
        /\ Drain(op')
        /\ UNCHANGED armed
  /\ UNCHANGED <<jsVars, workerVars, late, leaked, lifeVars>>

\* It is not set again: on an interrupted session it does not run or its drain
\* fails; otherwise a job it runs behind the drain throws, or setTimeout fails and
\* the operation is rejected, with no timer left that would drain it.
RunnerFails(f) ==
  /\ ~closed /\ armed[f] /\ ~settled[f]
  /\ \/ interrupted /\ UNCHANGED <<op, token, settled>>
     \/ interrupted /\ TimeOut(f) /\ UNCHANGED settled
     \/ ~interrupted /\ TimeOut(f) /\ Drain(op')
     \/ /\ ~interrupted /\ op[f] = "pending" /\ ~late[f]
        /\ op' = [op EXCEPT ![f] = "rejected"]
        /\ Drain(op)
        /\ UNCHANGED token
  /\ armed' = [armed EXCEPT ![f] = FALSE]
  /\ stranded' = IF settled'[f] \/ interrupted THEN stranded ELSE stranded \cup {f}
  /\ UNCHANGED <<jsVars, workerVars, late, leaked, interrupted, closed>>

\* The embedder drains without being asked by the timer.
HostDrains ==
  /\ Runs
  /\ Decided(op) # {}
  /\ Drain(op)
  /\ UNCHANGED <<jsVars, op, token, armed, workerVars, late, leaked, lifeVars>>

\* session.cancel() from any thread, or the execution deadline.
Interrupt ==
  /\ Runs
  /\ interrupted' = TRUE
  /\ UNCHANGED <<jsVars, opVars, workerVars, late, leaked, stranded, closed>>

\* The session closes: every pending operation is cancelled, no job runs again.
SessionClose ==
  /\ ~closed
  /\ closed' = TRUE
  /\ op' = [f \in Fetches |-> IF op[f] = "pending" THEN "closed" ELSE op[f]]
  /\ token' = [f \in Fetches |-> token[f] \/ op[f] = "pending"]
  /\ settled' = [f \in Fetches |-> settled[f] \/ (op[f] # "none" /\ ~interrupted)]
  /\ armed' = [f \in Fetches |-> FALSE]
  /\ UNCHANGED <<jsVars, workerVars, late, leaked, stranded, interrupted>>

-----------------------------------------------------------------------------
(* fetch_native_worker. *)

Goes(f, next) == worker' = [worker EXCEPT ![f] = next]

WorkerStarts(f) ==
  /\ worker[f] = "spawned"
  /\ Goes(f, IF token[f] THEN "leaving" ELSE "running")
  /\ UNCHANGED <<jsVars, opVars, reply, results, active, tardy, late, leaked, lifeVars>>

\* The transport returns; its own timeouts see to that.
TransportReturns(f, how) ==
  /\ worker[f] = "running"
  /\ reply' = [reply EXCEPT ![f] = how]
  /\ tardy' = [tardy EXCEPT ![f] = late[f]]
  /\ Goes(f, "returned")
  /\ UNCHANGED <<jsVars, opVars, results, active, late, leaked, lifeVars>>

\* The worker's submit: the first terminal event is kept.
Submit(f, outcome) ==
  /\ op' = [op EXCEPT ![f] = IF @ = "pending" THEN outcome ELSE @]
  /\ token' = [token EXCEPT ![f] = @ \/ (outcome \in Cancelling /\ op[f] = "pending")]

\* Mutant of WorkerChecks: the deadline is left to the owner.
WorkerChecksToken(f) ==
  /\ worker[f] = "returned"
  /\ IF token[f]
     THEN Goes(f, "leaving") /\ UNCHANGED <<op, token>>
     ELSE Goes(f, "sending") /\ UNCHANGED <<op, token>>
  /\ UNCHANGED <<jsVars, settled, armed, reply, results, active, tardy, late, leaked,
                 lifeVars>>

\* A cancelled result is dropped, and a late one becomes a timeout.
WorkerChecks(f) ==
  /\ worker[f] = "returned"
  /\ IF token[f] THEN Goes(f, "leaving") /\ UNCHANGED <<op, token>>
     ELSE IF late[f] THEN Goes(f, "leaving") /\ Submit(f, "timedOut")
     ELSE Goes(f, "sending") /\ UNCHANGED <<op, token>>
  /\ UNCHANGED <<jsVars, settled, armed, reply, results, active, tardy, late, leaked,
                 lifeVars>>

\* Mutant of WorkerSends: the operation is resolved before the result is sent.
WorkerSendsLater(f) ==
  /\ worker[f] = "sending" /\ ~results[f]
  /\ Goes(f, "submitting")
  /\ UNCHANGED <<jsVars, opVars, reply, results, active, tardy, late, leaked, lifeVars>>

\* The result goes into the channel, which has room for it.
WorkerSends(f) ==
  /\ worker[f] = "sending" /\ ~results[f]
  /\ results' = [results EXCEPT ![f] = TRUE]
  /\ Goes(f, "submitting")
  /\ UNCHANGED <<jsVars, opVars, reply, active, tardy, late, leaked, lifeVars>>

WorkerSubmits(f) ==
  /\ worker[f] = "submitting"
  /\ Submit(f, IF reply[f] = "ok" THEN "resolved" ELSE "rejected")
  /\ Goes(f, "leaving")
  /\ UNCHANGED <<jsVars, settled, armed, reply, results, active, tardy, late, leaked,
                 lifeVars>>

\* Mutant of WorkerLeaves: a cancelled worker keeps its slot.
WorkerLeavesCancelled(f) ==
  /\ worker[f] = "leaving"
  /\ active' = IF token[f] THEN active ELSE active - 1
  /\ Goes(f, "done")
  /\ UNCHANGED <<jsVars, opVars, reply, results, tardy, late, leaked, lifeVars>>

\* The deferred block: the slot comes back.
WorkerLeaves(f) ==
  /\ worker[f] = "leaving"
  /\ active' = active - 1
  /\ Goes(f, "done")
  /\ UNCHANGED <<jsVars, opVars, reply, results, tardy, late, leaked, lifeVars>>

\* Nobody looks at the deadline of a decided operation whose worker is past its
\* own check.
DeadlinePasses(f) ==
  /\ op[f] = "pending" \/ worker[f] \in {"spawned", "running", "returned"}
  /\ ~late[f]
  /\ late' = [late EXCEPT ![f] = TRUE]
  /\ UNCHANGED <<jsVars, opVars, workerVars, leaked, lifeVars>>

-----------------------------------------------------------------------------
Job(f) ==
  \/ BodyRead(f)
  \/ OnResponse(f)
  \/ UseResponse(f)
  \/ RequestFails(f)
  \/ Settle(f)

WorkerStep(f) ==
  \/ WorkerStarts(f)
  \/ \E how \in {"ok", "error"} : TransportReturns(f, how)
  \/ WorkerChecks(f)
  \/ WorkerSends(f)
  \/ WorkerSubmits(f)
  \/ WorkerLeaves(f)

Next ==
  \/ \E f \in Fetches :
       \/ Fetch(f)
       \/ FetchWithBody(f)
       \/ FetchAborted(f)
       \/ Job(f)
       \/ Runner(f)
       \/ RunnerFails(f)
       \/ WorkerStep(f)
       \/ DeadlinePasses(f)
  \/ Abort
  \/ HostDrains
  \/ Interrupt
  \/ SessionClose

\* Jobs and timers run, threads are scheduled, time passes; and the transport
\* returns, since its reads and writes have timeouts.
Fairness ==
  \A f \in Fetches :
    /\ WF_vars(Job(f)) /\ WF_vars(Runner(f))
    /\ WF_vars(WorkerStep(f)) /\ WF_vars(DeadlinePasses(f))

Spec == Init /\ [][Next]_vars
FairSpec == Spec /\ Fairness

-----------------------------------------------------------------------------
Stages == {"idle", "body", "waiting", "response", "failed", "over"}
Ends == {"none", "response", "abort", "timeout", "error"}
WorkerSteps ==
  {"none", "spawned", "running", "returned", "sending", "submitting", "leaving", "done"}

TypeOK ==
  /\ stage \in [Fetches -> Stages]
  /\ race \in [Fetches -> Ends] /\ result \in [Fetches -> Ends]
  /\ aborted \in BOOLEAN /\ listeners \subseteq Fetches
  /\ op \in [Fetches -> Outcomes \cup {"none", "pending"}]
  /\ settled \in [Fetches -> BOOLEAN] /\ token \in [Fetches -> BOOLEAN]
  /\ armed \in [Fetches -> BOOLEAN] /\ results \in [Fetches -> BOOLEAN]
  /\ worker \in [Fetches -> WorkerSteps]
  /\ reply \in [Fetches -> {"none", "ok", "error"}]
  /\ active \in Nat
  /\ late \in [Fetches -> BOOLEAN] /\ tardy \in [Fetches -> BOOLEAN]
  /\ leaked \subseteq Fetches /\ stranded \subseteq Fetches
  /\ interrupted \in BOOLEAN /\ closed \in BOOLEAN

Live == {f \in Fetches : worker[f] \notin {"none", "done"}}

\* A slot is taken exactly as long as its worker runs, "A cancelled worker retains
\* its admission slot until its underlying operation finishes"
\* (docs/NODE_COMPATIBILITY.md); only a request that fails half started keeps it
\* for good (host_fetch.v:151,155).
SlotsAreWorkers == active = Cardinality(Live) + Cardinality(leaked) /\ active <= Limit

\* The owner never waits for a result: a fulfilled operation's is in the channel
\* (host_fetch.v:89-91,145-148).
ResponseIsThere ==
  \A f \in Fetches : stage[f] = "waiting" /\ op[f] = "resolved" => results[f]

\* "Do not let a response completed after the total deadline win that race"
\* (host_fetch.v:75-76).
LateIsDiscarded == \A f \in Fetches : tardy[f] => result[f] # "response"

\* An aborted fetch leaves no worker running on: its operation is decided, so the
\* token is marked unless the result was in before (fetch.js:36-40).
AbortReachesWorker ==
  \A f \in Fetches \ leaked : result[f] = "abort" => op[f] # "pending"

\* No request goes out for a signal that is aborted, not even if the abort comes
\* while the body is read (fetch.js:29-31,58-60).
NoWorkAfterAbort ==
  [][\A f \in Fetches : op[f] = "none" /\ op'[f] # "none" => ~Aborted(f)]_vars

Ended(f) == stage[f] = "idle" \/ result[f] # "none" \/ closed \/ interrupted

\* Every fetch is settled, whatever its worker does: a response, an abort, an
\* error, or a timeout.  One whose timer could not be set again, or met a throwing
\* job, needs a host that drains; an interrupted session settles nothing.  And
\* every worker ends, also one that was cancelled or has outlived its session, so
\* that its slot comes back (host_fetch.v:67-92,94-128).
FetchesEnd ==
  /\ []<>(\A f \in Fetches : /\ Ended(f) \/ f \in stranded
                             /\ worker[f] \in {"none", "done"})
  /\ WF_vars(HostDrains) => []<>(\A f \in Fetches : Ended(f))
=============================================================================
