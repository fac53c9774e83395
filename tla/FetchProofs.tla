----------------------------- MODULE FetchProofs -----------------------------
(* Proofs about Fetch for every set of fetches and every number of slots. *)
EXTENDS Fetch, FiniteSetTheorems, TLAPS

\* The steps of fetch f, its jobs and its worker's steps one by one.
StepOf(f) ==
  \/ Fetch(f) \/ FetchWithBody(f) \/ FetchAborted(f)
  \/ BodyRead(f) \/ OnResponse(f) \/ UseResponse(f) \/ RequestFails(f) \/ Settle(f)
  \/ Runner(f) \/ RunnerFails(f) \/ DeadlinePasses(f)
  \/ WorkerStarts(f) \/ (\E how \in {"ok", "error"} : TransportReturns(f, how))
  \/ WorkerChecks(f) \/ WorkerSends(f) \/ WorkerSubmits(f) \/ WorkerLeaves(f)

\* Every step is one fetch's or one that concerns all of them.
LEMMA StepCases ==
  ASSUME Next
  PROVE  (\E f \in Fetches : StepOf(f)) \/ Abort \/ HostDrains \/ Interrupt \/ SessionClose
BY DEF Next, Job, WorkerStep, StepOf

-----------------------------------------------------------------------------
\* Every variable keeps its type, active among them: a worker gives back a slot
\* that was taken. That part is proved with the slots.
Typed ==
  /\ stage \in [Fetches -> Stages]
  /\ race \in [Fetches -> Ends] /\ result \in [Fetches -> Ends]
  /\ aborted \in BOOLEAN /\ listeners \subseteq Fetches
  /\ op \in [Fetches -> Outcomes \cup {"none", "pending"}]
  /\ settled \in [Fetches -> BOOLEAN] /\ token \in [Fetches -> BOOLEAN]
  /\ armed \in [Fetches -> BOOLEAN] /\ results \in [Fetches -> BOOLEAN]
  /\ worker \in [Fetches -> WorkerSteps]
  /\ reply \in [Fetches -> {"none", "ok", "error"}]
  /\ late \in [Fetches -> BOOLEAN] /\ tardy \in [Fetches -> BOOLEAN]
  /\ leaked \subseteq Fetches /\ stranded \subseteq Fetches
  /\ interrupted \in BOOLEAN /\ closed \in BOOLEAN

LEMMA TypedStep ==
  ASSUME Typed, NEW f \in Fetches, StepOf(f)
  PROVE  Typed'
<1> USE DEF Typed, lifeVars
<1>1. CASE Fetch(f)
  <2>1. CASE Refused(f)
    BY <1>1, <2>1 DEF Fetch, Refused, Stages
  <2>2. CASE Started(f)
    BY <1>1, <2>2 DEF Fetch, Started, Stages, WorkerSteps
  <2>3. CASE NotScheduled(f)
    BY <1>1, <2>3 DEF Fetch, NotScheduled, Drain, Stages, Outcomes
  <2>4. CASE HalfStarted(f)
    BY <1>1, <2>4 DEF Fetch, HalfStarted, Stages
  <2> QED BY <1>1, <2>1, <2>2, <2>3, <2>4 DEF Fetch, CoreFetch
<1>2. CASE FetchWithBody(f)
  BY <1>2 DEF Stages, Ends, WorkerSteps, Outcomes, FetchWithBody, opVars, workerVars
<1>3. CASE FetchAborted(f)
  BY <1>3 DEF Stages, Ends, WorkerSteps, Outcomes, FetchAborted, opVars, workerVars
<1>4. CASE BodyRead(f)
  <2>1. CASE Refused(f)
    BY <1>4, <2>1 DEF BodyRead, Refused, Stages
  <2>2. CASE Started(f)
    BY <1>4, <2>2 DEF BodyRead, Started, Stages, WorkerSteps
  <2>3. CASE NotScheduled(f)
    BY <1>4, <2>3 DEF BodyRead, NotScheduled, Drain, Stages, Outcomes
  <2>4. CASE HalfStarted(f)
    BY <1>4, <2>4 DEF BodyRead, HalfStarted, Stages
  <2>5. CASE Aborted(f)
    BY <1>4, <2>5 DEF BodyRead, Stages, opVars
  <2> QED BY <1>4, <2>1, <2>2, <2>3, <2>4, <2>5 DEF BodyRead, CoreFetch
<1>5. CASE OnResponse(f)
  BY <1>5 DEF Stages, Ends, WorkerSteps, Outcomes, OnResponse, opVars, workerVars
<1>6. CASE UseResponse(f)
  BY <1>6 DEF Stages, Ends, WorkerSteps, Outcomes, UseResponse, Decide, opVars, workerVars
<1>7. CASE RequestFails(f)
  BY <1>7 DEF Stages, Ends, WorkerSteps, Outcomes, RequestFails, Decide, Failure, opVars, workerVars
<1>8. CASE Settle(f)
  BY <1>8 DEF Stages, Ends, WorkerSteps, Outcomes, Settle, opVars, workerVars
<1>9. CASE Runner(f)
  <2>1. op' \in [Fetches -> Outcomes \cup {"none", "pending"}]
    BY <1>9 DEF Runner, TimeOut, Outcomes
  <2>2. token' \in [Fetches -> BOOLEAN]
    BY <1>9 DEF Runner, TimeOut
  <2>3. settled' \in [Fetches -> BOOLEAN]
    BY <1>9 DEF Runner, Drain
  <2>4. armed' \in [Fetches -> BOOLEAN]
    BY <1>9 DEF Runner
  <2> QED BY <1>9, <2>1, <2>2, <2>3, <2>4 DEF Runner, jsVars, workerVars
<1>10. CASE DeadlinePasses(f)
  BY <1>10 DEF Stages, Ends, WorkerSteps, Outcomes, DeadlinePasses, jsVars, opVars, workerVars
<1>11. CASE WorkerStarts(f)
  BY <1>11 DEF Stages, Ends, WorkerSteps, Outcomes, WorkerStarts, Goes, jsVars, opVars
<1>12. CASE \E how \in {"ok", "error"} : TransportReturns(f, how)
  BY <1>12 DEF Stages, Ends, WorkerSteps, Outcomes, TransportReturns, Goes, jsVars, opVars
<1>13. CASE WorkerChecks(f)
  BY <1>13 DEF Stages, Ends, WorkerSteps, Outcomes, WorkerChecks, Submit, Goes, jsVars
<1>14. CASE WorkerSends(f)
  BY <1>14 DEF Stages, Ends, WorkerSteps, Outcomes, WorkerSends, Goes, jsVars, opVars
<1>15. CASE WorkerSubmits(f)
  BY <1>15 DEF Stages, Ends, WorkerSteps, Outcomes, WorkerSubmits, Submit, Goes, jsVars
<1>16. CASE WorkerLeaves(f)
  BY <1>16 DEF Stages, Ends, WorkerSteps, Outcomes, WorkerLeaves, Goes, jsVars, opVars
<1>17. CASE RunnerFails(f)
  <2>1. op' \in [Fetches -> Outcomes \cup {"none", "pending"}] /\ token' \in [Fetches -> BOOLEAN]
    BY <1>17 DEF RunnerFails, TimeOut, Outcomes
  <2>2. settled' \in [Fetches -> BOOLEAN] /\ armed' \in [Fetches -> BOOLEAN]
    BY <1>17 DEF RunnerFails, Drain
  <2>3. stranded' \subseteq Fetches
    BY <1>17 DEF RunnerFails
  <2> QED BY <1>17, <2>1, <2>2, <2>3 DEF RunnerFails, jsVars, workerVars
<1> QED
  BY <1>1, <1>2, <1>3, <1>4, <1>5, <1>6, <1>7, <1>8, <1>9, <1>10, <1>11, <1>12, <1>13,
     <1>14, <1>15, <1>16, <1>17 DEF StepOf

LEMMA TypedCommon ==
  ASSUME Typed, Abort \/ HostDrains \/ Interrupt \/ SessionClose
  PROVE  Typed'
<1> USE DEF Typed, lifeVars
<1>1. CASE Abort
  BY <1>1 DEF Stages, Ends, WorkerSteps, Outcomes, Abort, Cancellable, workerVars
<1>2. CASE HostDrains
  BY <1>2 DEF Stages, Ends, WorkerSteps, Outcomes, HostDrains, Drain, Decided, jsVars, workerVars
<1>3. CASE SessionClose
  BY <1>3 DEF Stages, Ends, WorkerSteps, Outcomes, SessionClose, jsVars, workerVars
<1>4. CASE Interrupt
  BY <1>4 DEF Typed, Interrupt, jsVars, opVars, workerVars
<1> QED
  BY <1>1, <1>2, <1>3, <1>4

-----------------------------------------------------------------------------
\* Where the parts of a request are: an operation exists from the start on, its
\* Promise is settled once it is decided, a pending one has a requestPromise that
\* waits for it unless the start failed half way, and a fulfilled one has had its
\* worker's last word.
Ordered ==
  \A f \in Fetches :
    /\ stage[f] \in {"idle", "body"} => op[f] = "none"
    /\ op[f] = "none" => worker[f] = "none" /\ f \notin leaked
    /\ settled[f] => op[f] \notin {"none", "pending"}
    /\ op[f] = "pending" => stage[f] = "waiting" \/ f \in leaked
    /\ op[f] = "resolved" => worker[f] \in {"leaving", "done"}
    /\ stage[f] = "response" => op[f] = "resolved"

LEMMA OrderedStep ==
  ASSUME Typed, Ordered, NEW f \in Fetches, StepOf(f)
  PROVE  Ordered'
<1> USE DEF Ordered
<1>1. CASE Fetch(f)
  BY <1>1 DEF Typed, Fetch, CoreFetch, Refused, Started, NotScheduled, HalfStarted,
              Drain, Decided, Outcomes
<1>2. CASE FetchWithBody(f)
  BY <1>2 DEF Typed, FetchWithBody, opVars, workerVars
<1>3. CASE FetchAborted(f)
  BY <1>3 DEF Typed, FetchAborted, opVars, workerVars
<1>4. CASE BodyRead(f)
  BY <1>4 DEF Typed, BodyRead, CoreFetch, Refused, Started, NotScheduled, HalfStarted,
              Drain, Decided, Outcomes, opVars, workerVars
<1>5. CASE OnResponse(f)
  BY <1>5 DEF Typed, OnResponse, opVars, workerVars
<1>6. CASE UseResponse(f)
  BY <1>6 DEF Typed, UseResponse, Decide, opVars, workerVars
<1>7. CASE RequestFails(f)
  BY <1>7 DEF Typed, RequestFails, Decide, Failure, opVars, workerVars
<1>8. CASE Settle(f)
  BY <1>8 DEF Typed, Settle, opVars, workerVars
<1>9. CASE Runner(f)
  BY <1>9 DEF Typed, Runner, TimeOut, Overdue, Drain, Decided, Outcomes, jsVars, workerVars
<1>10. CASE DeadlinePasses(f)
  BY <1>10 DEF Typed, DeadlinePasses, jsVars, opVars, workerVars
<1>11. CASE WorkerStarts(f)
  BY <1>11 DEF Typed, WorkerStarts, Goes, jsVars, opVars
<1>12. CASE \E how \in {"ok", "error"} : TransportReturns(f, how)
  BY <1>12 DEF Typed, TransportReturns, Goes, jsVars, opVars
<1>13. CASE WorkerChecks(f)
  BY <1>13 DEF Typed, WorkerChecks, Submit, Goes, jsVars
<1>14. CASE WorkerSends(f)
  BY <1>14 DEF Typed, WorkerSends, Goes, jsVars, opVars
<1>15. CASE WorkerSubmits(f)
  BY <1>15 DEF Typed, WorkerSubmits, Submit, Goes, jsVars
<1>16. CASE WorkerLeaves(f)
  BY <1>16 DEF Typed, WorkerLeaves, Goes, jsVars, opVars
<1>17. CASE RunnerFails(f)
  BY <1>17 DEF Typed, RunnerFails, TimeOut, Overdue, Drain, Decided, Outcomes, jsVars, workerVars
<1> QED
  BY <1>1, <1>2, <1>3, <1>4, <1>5, <1>6, <1>7, <1>8, <1>9, <1>10, <1>11, <1>12, <1>13,
     <1>14, <1>15, <1>16, <1>17 DEF StepOf

LEMMA OrderedCommon ==
  ASSUME Typed, Ordered, Abort \/ HostDrains \/ Interrupt \/ SessionClose
  PROVE  Ordered'
<1> USE DEF Ordered
<1>1. CASE Abort
  BY <1>1 DEF Typed, Abort, Cancellable, workerVars
<1>2. CASE HostDrains
  BY <1>2 DEF Typed, HostDrains, Drain, Decided, Outcomes, jsVars, workerVars
<1>3. CASE SessionClose
  BY <1>3 DEF Typed, SessionClose, jsVars, workerVars
<1>4. CASE Interrupt
  BY <1>4 DEF Typed, Interrupt, jsVars, opVars, workerVars
<1> QED
  BY <1>1, <1>2, <1>3, <1>4

-----------------------------------------------------------------------------
\* A result is in the channel from the moment it is sent until requestPromise
\* has taken it.
Answered ==
  \A f \in Fetches :
    stage[f] = "waiting" /\ (worker[f] = "submitting" \/ op[f] = "resolved") => results[f]

LEMMA AnsweredStep ==
  ASSUME Typed, Ordered, Answered, NEW f \in Fetches, StepOf(f)
  PROVE  Answered'
<1> USE DEF Answered, Ordered
<1>1. CASE Fetch(f)
  BY <1>1 DEF Typed, Fetch, CoreFetch, Refused, Started, NotScheduled, HalfStarted,
              Drain, Decided, Outcomes
<1>2. CASE FetchWithBody(f)
  BY <1>2 DEF Typed, FetchWithBody, opVars, workerVars
<1>3. CASE FetchAborted(f)
  BY <1>3 DEF Typed, FetchAborted, opVars, workerVars
<1>4. CASE BodyRead(f)
  BY <1>4 DEF Typed, BodyRead, CoreFetch, Refused, Started, NotScheduled, HalfStarted,
              Drain, Decided, Outcomes, opVars, workerVars
<1>5. CASE OnResponse(f)
  BY <1>5 DEF Typed, OnResponse, opVars, workerVars
<1>6. CASE UseResponse(f)
  BY <1>6 DEF Typed, UseResponse, Decide, opVars, workerVars
<1>7. CASE RequestFails(f)
  BY <1>7 DEF Typed, RequestFails, Decide, Failure, opVars, workerVars
<1>8. CASE Settle(f)
  BY <1>8 DEF Typed, Settle, opVars, workerVars
<1>9. CASE Runner(f)
  BY <1>9 DEF Typed, Runner, TimeOut, Overdue, Drain, Decided, Outcomes, jsVars, workerVars
<1>10. CASE DeadlinePasses(f)
  BY <1>10 DEF Typed, DeadlinePasses, jsVars, opVars, workerVars
<1>11. CASE WorkerStarts(f)
  BY <1>11 DEF Typed, WorkerStarts, Goes, jsVars, opVars
<1>12. CASE \E how \in {"ok", "error"} : TransportReturns(f, how)
  BY <1>12 DEF Typed, TransportReturns, Goes, jsVars, opVars
<1>13. CASE WorkerChecks(f)
  BY <1>13 DEF Typed, WorkerChecks, Submit, Goes, jsVars
<1>14. CASE WorkerSends(f)
  BY <1>14 DEF Typed, WorkerSends, Goes, jsVars, opVars
<1>15. CASE WorkerSubmits(f)
  BY <1>15 DEF Typed, WorkerSubmits, Submit, Goes, jsVars
<1>16. CASE WorkerLeaves(f)
  BY <1>16 DEF Typed, WorkerLeaves, Goes, jsVars, opVars
<1>17. CASE RunnerFails(f)
  BY <1>17 DEF Typed, RunnerFails, TimeOut, Overdue, Drain, Decided, Outcomes, jsVars, workerVars
<1> QED
  BY <1>1, <1>2, <1>3, <1>4, <1>5, <1>6, <1>7, <1>8, <1>9, <1>10, <1>11, <1>12, <1>13,
     <1>14, <1>15, <1>16, <1>17 DEF StepOf

LEMMA AnsweredCommon ==
  ASSUME Typed, Ordered, Answered, Abort \/ HostDrains \/ Interrupt \/ SessionClose
  PROVE  Answered'
<1> USE DEF Answered, Ordered
<1>1. CASE Abort
  BY <1>1 DEF Typed, Abort, Cancellable, workerVars
<1>2. CASE HostDrains
  BY <1>2 DEF Typed, HostDrains, Drain, Decided, Outcomes, jsVars, workerVars
<1>3. CASE SessionClose
  BY <1>3 DEF Typed, SessionClose, jsVars, workerVars
<1>4. CASE Interrupt
  BY <1>4 DEF Typed, Interrupt, jsVars, opVars, workerVars
<1> QED
  BY <1>1, <1>2, <1>3, <1>4

-----------------------------------------------------------------------------
\* A worker that returned after the deadline is turned away before it sends
\* anything, so its operation is never fulfilled; and only a fulfilled operation
\* makes a response.
Timely ==
  \A f \in Fetches :
    /\ tardy[f] => late[f] /\ worker[f] \in {"returned", "leaving", "done"}
    /\ tardy[f] => op[f] # "resolved"
    /\ race[f] = "response" => op[f] = "resolved"
    /\ result[f] = "response" => op[f] = "resolved"

LEMMA TimelyStep ==
  ASSUME Typed, Ordered, Timely, NEW f \in Fetches, StepOf(f)
  PROVE  Timely'
<1> USE DEF Timely, Ordered
<1>1. CASE Fetch(f)
  BY <1>1 DEF Typed, Fetch, CoreFetch, Refused, Started, NotScheduled, HalfStarted,
              Drain, Decided, Outcomes
<1>2. CASE FetchWithBody(f)
  BY <1>2 DEF Typed, FetchWithBody, opVars, workerVars
<1>3. CASE FetchAborted(f)
  BY <1>3 DEF Typed, FetchAborted, opVars, workerVars
<1>4. CASE BodyRead(f)
  BY <1>4 DEF Typed, BodyRead, CoreFetch, Refused, Started, NotScheduled, HalfStarted,
              Drain, Decided, Outcomes, opVars, workerVars
<1>5. CASE OnResponse(f)
  BY <1>5 DEF Typed, OnResponse, opVars, workerVars
<1>6. CASE UseResponse(f)
  BY <1>6 DEF Typed, UseResponse, Decide, opVars, workerVars
<1>7. CASE RequestFails(f)
  BY <1>7 DEF Typed, RequestFails, Decide, Failure, opVars, workerVars
<1>8. CASE Settle(f)
  BY <1>8 DEF Typed, Settle, opVars, workerVars
<1>9. CASE Runner(f)
  BY <1>9 DEF Typed, Runner, TimeOut, Overdue, Drain, Decided, Outcomes, jsVars, workerVars
<1>10. CASE DeadlinePasses(f)
  BY <1>10 DEF Typed, DeadlinePasses, jsVars, opVars, workerVars
<1>11. CASE WorkerStarts(f)
  BY <1>11 DEF Typed, WorkerStarts, Goes, jsVars, opVars
<1>12. CASE \E how \in {"ok", "error"} : TransportReturns(f, how)
  BY <1>12 DEF Typed, TransportReturns, Goes, jsVars, opVars
<1>13. CASE WorkerChecks(f)
  BY <1>13 DEF Typed, WorkerChecks, Submit, Goes, jsVars
<1>14. CASE WorkerSends(f)
  BY <1>14 DEF Typed, WorkerSends, Goes, jsVars, opVars
<1>15. CASE WorkerSubmits(f)
  BY <1>15 DEF Typed, WorkerSubmits, Submit, Goes, jsVars
<1>16. CASE WorkerLeaves(f)
  BY <1>16 DEF Typed, WorkerLeaves, Goes, jsVars, opVars
<1>17. CASE RunnerFails(f)
  BY <1>17 DEF Typed, RunnerFails, TimeOut, Overdue, Drain, Decided, Outcomes, jsVars, workerVars
<1> QED
  BY <1>1, <1>2, <1>3, <1>4, <1>5, <1>6, <1>7, <1>8, <1>9, <1>10, <1>11, <1>12, <1>13,
     <1>14, <1>15, <1>16, <1>17 DEF StepOf

LEMMA TimelyCommon ==
  ASSUME Typed, Ordered, Timely, Abort \/ HostDrains \/ Interrupt \/ SessionClose
  PROVE  Timely'
<1> USE DEF Timely, Ordered
<1>1. CASE Abort
  BY <1>1 DEF Typed, Abort, Cancellable, workerVars
<1>2. CASE HostDrains
  BY <1>2 DEF Typed, HostDrains, Drain, Decided, Outcomes, jsVars, workerVars
<1>3. CASE SessionClose
  BY <1>3 DEF Typed, SessionClose, jsVars, workerVars
<1>4. CASE Interrupt
  BY <1>4 DEF Typed, Interrupt, jsVars, opVars, workerVars
<1> QED
  BY <1>1, <1>2, <1>3, <1>4

-----------------------------------------------------------------------------
\* What an abort has done: the race it decided is that of a fetch without a
\* pending operation, and a fetch that still reads its body will see it.
Heard ==
  \A f \in Fetches :
    /\ stage[f] = "idle" => race[f] = "none" /\ result[f] = "none" /\ f \notin listeners
    /\ f \in listeners => f \in Signalled
    /\ stage[f] = "body" /\ race[f] = "abort" => Aborted(f)
    /\ race[f] = "abort" /\ f \notin leaked => op[f] # "pending"
    /\ result[f] = "abort" => race[f] = "abort" \/ (op[f] = "none" /\ stage[f] = "over")

LEMMA HeardStep ==
  ASSUME Typed, Ordered, Heard, NEW f \in Fetches, StepOf(f)
  PROVE  Heard'
<1> USE DEF Heard, Ordered, Aborted
<1>1. CASE Fetch(f)
  BY <1>1 DEF Typed, Fetch, CoreFetch, Refused, Started, NotScheduled, HalfStarted,
              Drain, Decided, Outcomes
<1>2. CASE FetchWithBody(f)
  BY <1>2 DEF Typed, FetchWithBody, opVars, workerVars
<1>3. CASE FetchAborted(f)
  BY <1>3 DEF Typed, FetchAborted, opVars, workerVars
<1>4. CASE BodyRead(f)
  BY <1>4 DEF Typed, BodyRead, CoreFetch, Refused, Started, NotScheduled, HalfStarted,
              Drain, Decided, Outcomes, opVars, workerVars
<1>5. CASE OnResponse(f)
  BY <1>5 DEF Typed, OnResponse, opVars, workerVars
<1>6. CASE UseResponse(f)
  BY <1>6 DEF Typed, UseResponse, Decide, opVars, workerVars
<1>7. CASE RequestFails(f)
  BY <1>7 DEF Typed, RequestFails, Decide, Failure, opVars, workerVars
<1>8. CASE Settle(f)
  BY <1>8 DEF Typed, Settle, opVars, workerVars
<1>9. CASE Runner(f)
  BY <1>9 DEF Typed, Runner, TimeOut, Overdue, Drain, Decided, Outcomes, jsVars, workerVars
<1>10. CASE DeadlinePasses(f)
  BY <1>10 DEF Typed, DeadlinePasses, jsVars, opVars, workerVars
<1>11. CASE WorkerStarts(f)
  BY <1>11 DEF Typed, WorkerStarts, Goes, jsVars, opVars
<1>12. CASE \E how \in {"ok", "error"} : TransportReturns(f, how)
  BY <1>12 DEF Typed, TransportReturns, Goes, jsVars, opVars
<1>13. CASE WorkerChecks(f)
  BY <1>13 DEF Typed, WorkerChecks, Submit, Goes, jsVars
<1>14. CASE WorkerSends(f)
  BY <1>14 DEF Typed, WorkerSends, Goes, jsVars, opVars
<1>15. CASE WorkerSubmits(f)
  BY <1>15 DEF Typed, WorkerSubmits, Submit, Goes, jsVars
<1>16. CASE WorkerLeaves(f)
  BY <1>16 DEF Typed, WorkerLeaves, Goes, jsVars, opVars
<1>17. CASE RunnerFails(f)
  BY <1>17 DEF Typed, RunnerFails, TimeOut, Overdue, Drain, Decided, Outcomes, jsVars, workerVars
<1> QED
  BY <1>1, <1>2, <1>3, <1>4, <1>5, <1>6, <1>7, <1>8, <1>9, <1>10, <1>11, <1>12, <1>13,
     <1>14, <1>15, <1>16, <1>17 DEF StepOf

LEMMA HeardCommon ==
  ASSUME Typed, Ordered, Heard, Abort \/ HostDrains \/ Interrupt \/ SessionClose
  PROVE  Heard'
<1> USE DEF Heard, Ordered, Aborted
<1>1. CASE Abort
  BY <1>1 DEF Typed, Abort, Cancellable, workerVars
<1>2. CASE HostDrains
  BY <1>2 DEF Typed, HostDrains, Drain, Decided, Outcomes, jsVars, workerVars
<1>3. CASE SessionClose
  BY <1>3 DEF Typed, SessionClose, jsVars, workerVars
<1>4. CASE Interrupt
  BY <1>4 DEF Typed, Interrupt, jsVars, opVars, workerVars
<1> QED
  BY <1>1, <1>2, <1>3, <1>4

-----------------------------------------------------------------------------
\* The slots.
Counted == active \in Nat /\ SlotsAreWorkers

LEMMA FiniteSlots ==
  ASSUME Typed
  PROVE  /\ IsFiniteSet(Live) /\ IsFiniteSet(leaked)
         /\ Cardinality(Live) \in Nat /\ Cardinality(leaked) \in Nat
<1>1. Live \subseteq Fetches /\ leaked \subseteq Fetches
  BY DEF Typed, Live
<1>2. IsFiniteSet(Live) /\ IsFiniteSet(leaked)
  BY <1>1, FetchAssumption, FS_Subset
<1> QED BY <1>2, FS_CardinalityType

LEMMA SameSlots ==
  ASSUME Counted, Live' = Live, UNCHANGED <<active, leaked>>
  PROVE  Counted'
BY DEF Counted, SlotsAreWorkers

\* A request that is started, or half started, takes one slot.
LEMMA CoreFetchCounts ==
  ASSUME Typed, Ordered, Counted, NEW f \in Fetches,
         stage[f] \in {"idle", "body"}, CoreFetch(f)
  PROVE  Counted'
<1>1. worker[f] = "none" /\ f \notin leaked
  BY DEF Ordered
<1>2. CASE Refused(f) \/ NotScheduled(f)
  <2>1. UNCHANGED <<active, leaked, worker>>
    BY <1>2 DEF Refused, NotScheduled
  <2>2. Live' = Live
    BY <2>1 DEF Live
  <2> QED BY <2>1, <2>2, SameSlots
<1>3. CASE Started(f)
  <2>1. f \notin Live /\ Live' = Live \cup {f}
    BY <1>1, <1>3 DEF Started, Live, Typed
  <2>2. Cardinality(Live') = Cardinality(Live) + 1
    BY <2>1, FiniteSlots, FS_AddElement
  <2> QED BY <1>3, <2>2, FiniteSlots, FetchAssumption DEF Started, Counted, SlotsAreWorkers
<1>4. CASE HalfStarted(f)
  <2>1. Live' = Live
    BY <1>4 DEF HalfStarted, Live
  <2>2. leaked' = leaked \cup {f}
    BY <1>4 DEF HalfStarted
  <2>3. Cardinality(leaked') = Cardinality(leaked) + 1
    BY <1>1, <2>2, FiniteSlots, FS_AddElement
  <2> QED BY <1>4, <2>1, <2>3, FiniteSlots, FetchAssumption
          DEF HalfStarted, Counted, SlotsAreWorkers
<1> QED BY <1>2, <1>3, <1>4 DEF CoreFetch

\* A worker that leaves gives back its own.
LEMMA LeavingCounts ==
  ASSUME Typed, Counted, NEW f \in Fetches, WorkerLeaves(f)
  PROVE  Counted'
<1>1. f \in Live /\ Live' = Live \ {f}
  BY DEF WorkerLeaves, Goes, Live, Typed
<1>2. Cardinality(Live') = Cardinality(Live) - 1 /\ Cardinality(Live') \in Nat
  <2>1. IsFiniteSet(Live')
    BY <1>1, FiniteSlots, FS_Subset
  <2> QED BY <1>1, <2>1, FiniteSlots, FS_RemoveElement, FS_CardinalityType
<1>3. active' = active - 1 /\ leaked' = leaked
  BY DEF WorkerLeaves
<1> QED BY <1>2, <1>3, FiniteSlots, FetchAssumption DEF Counted, SlotsAreWorkers

LEMMA CountedStep ==
  ASSUME Typed, Ordered, Counted, NEW f \in Fetches, StepOf(f)
  PROVE  Counted'
<1>1. CASE Fetch(f)
  BY <1>1, CoreFetchCounts DEF Fetch
<1>2. CASE BodyRead(f)
  <2>1. CASE Aborted(f)
    <3>1. UNCHANGED <<active, leaked>> /\ Live' = Live
      BY <1>2, <2>1 DEF BodyRead, Live
    <3> QED BY <3>1, SameSlots
  <2>2. CASE ~Aborted(f)
    BY <1>2, <2>2, CoreFetchCounts DEF BodyRead
  <2> QED BY <2>1, <2>2
<1>3. CASE WorkerLeaves(f)
  BY <1>3, LeavingCounts
<1>4. CASE \/ FetchWithBody(f) \/ FetchAborted(f) \/ OnResponse(f) \/ UseResponse(f)
           \/ RequestFails(f) \/ Settle(f) \/ Runner(f) \/ RunnerFails(f)
           \/ DeadlinePasses(f)
  <2>1. UNCHANGED <<active, leaked, worker>>
    BY <1>4 DEF FetchWithBody, FetchAborted, OnResponse, UseResponse, RequestFails, Settle,
                Runner, RunnerFails, DeadlinePasses, jsVars, opVars, workerVars
  <2>2. Live' = Live
    BY <2>1 DEF Live
  <2> QED BY <2>1, <2>2, SameSlots
<1>5. CASE \/ WorkerStarts(f) \/ (\E how \in {"ok", "error"} : TransportReturns(f, how))
           \/ WorkerChecks(f) \/ WorkerSends(f) \/ WorkerSubmits(f)
  <2>1. UNCHANGED <<active, leaked>>
    BY <1>5 DEF WorkerStarts, TransportReturns, WorkerChecks, WorkerSends, WorkerSubmits
  <2>2. \E step \in WorkerSteps \ {"none", "done"} :
          worker[f] \notin {"none", "done"} /\ worker' = [worker EXCEPT ![f] = step]
    BY <1>5 DEF WorkerStarts, TransportReturns, WorkerChecks, WorkerSends, WorkerSubmits,
                Goes, WorkerSteps
  <2>3. Live' = Live
    BY <2>2 DEF Live, Typed
  <2> QED BY <2>1, <2>3, SameSlots
<1> QED BY <1>1, <1>2, <1>3, <1>4, <1>5 DEF StepOf

LEMMA CountedCommon ==
  ASSUME Counted, Abort \/ HostDrains \/ Interrupt \/ SessionClose
  PROVE  Counted'
<1>1. UNCHANGED <<active, leaked, worker>>
  BY DEF Abort, HostDrains, Interrupt, SessionClose, workerVars
<1>2. Live' = Live
  BY <1>1 DEF Live
<1> QED BY <1>1, <1>2, SameSlots

-----------------------------------------------------------------------------
\* The inductive invariant.
FetchInv == Typed /\ Ordered /\ Answered /\ Timely /\ Heard /\ Counted

LEMMA FetchInvInit == Init => FetchInv
<1> SUFFICES ASSUME Init PROVE FetchInv
  OBVIOUS
<1>1. Typed
  BY DEF Init, Typed, Stages, Ends, Outcomes, WorkerSteps
<1>2. Ordered /\ Answered /\ Timely /\ Heard
  BY DEF Init, Ordered, Answered, Timely, Heard
<1>3. Live = {} /\ leaked = {} /\ active = 0
  BY DEF Init, Live
<1>4. Counted
  BY <1>3, FS_EmptySet, FetchAssumption DEF Counted, SlotsAreWorkers
<1> QED BY <1>1, <1>2, <1>4 DEF FetchInv

LEMMA FetchInvStep == FetchInv /\ [Next]_vars => FetchInv'
<1> SUFFICES ASSUME FetchInv, [Next]_vars PROVE FetchInv'
  OBVIOUS
<1> USE DEF FetchInv
<1>1. ASSUME NEW f \in Fetches, StepOf(f) PROVE FetchInv'
  BY <1>1, TypedStep, OrderedStep, AnsweredStep, TimelyStep, HeardStep, CountedStep
<1>2. ASSUME Abort \/ HostDrains \/ Interrupt \/ SessionClose PROVE FetchInv'
  BY <1>2, TypedCommon, OrderedCommon, AnsweredCommon, TimelyCommon, HeardCommon, CountedCommon
<1>3. ASSUME UNCHANGED vars PROVE FetchInv'
  BY <1>3 DEF vars, jsVars, opVars, workerVars, lifeVars, Typed, Ordered, Answered, Timely, Heard,
              Aborted, Counted, SlotsAreWorkers, Live
<1> QED BY <1>1, <1>2, <1>3, StepCases

LEMMA Invariance == Spec => []FetchInv
BY FetchInvInit, FetchInvStep, PTL DEF Spec

\* The variables keep their types for any set of fetches and any limit.
THEOREM TypeCorrect == Spec => []TypeOK
<1>1. FetchInv => TypeOK
  BY DEF FetchInv, Typed, Counted, TypeOK
<1> QED BY <1>1, Invariance, PTL

\* A slot is taken exactly as long as its worker runs (host_fetch.v:49-56,67-72).
THEOREM SlotsCounted == Spec => []SlotsAreWorkers
<1>1. FetchInv => SlotsAreWorkers
  BY DEF FetchInv, Counted
<1> QED BY <1>1, Invariance, PTL

\* The owner never waits for a result (host_fetch.v:89-91,145-148).
THEOREM ResponsesThere == Spec => []ResponseIsThere
<1>1. FetchInv => ResponseIsThere
  BY DEF FetchInv, Answered, ResponseIsThere
<1> QED BY <1>1, Invariance, PTL

\* No response is used that the transport completed after the deadline
\* (host_fetch.v:73-80).
THEOREM LateDiscarded == Spec => []LateIsDiscarded
<1>1. FetchInv => LateIsDiscarded
  BY DEF FetchInv, Timely, LateIsDiscarded
<1> QED BY <1>1, Invariance, PTL

\* An aborted fetch has no pending operation (fetch.js:36-40).
THEOREM AbortsReachWorkers == Spec => []AbortReachesWorker
<1>1. FetchInv => AbortReachesWorker
  BY DEF FetchInv, Ordered, Heard, AbortReachesWorker
<1> QED BY <1>1, Invariance, PTL

\* No request goes out for a signal that is aborted (fetch.js:29-31,58-60).
THEOREM NothingStartsAfterAbort == Spec => NoWorkAfterAbort
<1> DEFINE Fresh == \A f \in Fetches : op[f] = "none" /\ op'[f] # "none" => ~Aborted(f)
<1>1. Typed /\ [Next]_vars => Fresh
  <2> SUFFICES ASSUME Typed, [Next]_vars PROVE Fresh
    OBVIOUS
  <2>1. ASSUME NEW f \in Fetches, StepOf(f), op' # op
        PROVE  (op[f] = "none" => ~Aborted(f)) /\ \A g \in Fetches \ {f} : op'[g] = op[g]
    <3>1. CASE Fetch(f)
      BY <2>1, <3>1 DEF Fetch, CoreFetch, Refused, Started, NotScheduled, HalfStarted, Typed
    <3>2. CASE BodyRead(f)
      BY <2>1, <3>2 DEF BodyRead, CoreFetch, Refused, Started, NotScheduled, HalfStarted,
                        opVars, Typed
    <3>3. CASE Runner(f) \/ RunnerFails(f) \/ WorkerChecks(f) \/ WorkerSubmits(f)
      BY <2>1, <3>3 DEF Runner, RunnerFails, TimeOut, Overdue, WorkerChecks, WorkerSubmits,
                        Submit, Typed
    <3> QED
      BY <2>1, <3>1, <3>2, <3>3
      DEF StepOf, FetchWithBody, FetchAborted, OnResponse, UseResponse, RequestFails, Settle,
          DeadlinePasses, WorkerStarts, TransportReturns, WorkerSends, WorkerLeaves, opVars
  <2>2. ASSUME Abort \/ HostDrains \/ Interrupt \/ SessionClose PROVE Fresh
    BY <2>2 DEF Abort, Cancellable, HostDrains, Interrupt, SessionClose, opVars, Typed
  <2>3. ASSUME UNCHANGED vars PROVE Fresh
    BY <2>3 DEF vars, opVars
  <2> QED BY <2>1, <2>2, <2>3, StepCases
<1>2. FetchInv => Typed
  BY DEF FetchInv
<1> QED BY <1>1, <1>2, Invariance, PTL DEF Spec, NoWorkAfterAbort
=============================================================================
