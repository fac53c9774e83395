# Verification of vjsx

vjsx embeds QuickJS in V programs. An embedder creates a `RuntimeSession`, runs
JavaScript in it turn by turn, lets worker threads complete Promises, owns the
timers, and may put the session behind a `SessionLane` so that many threads can
share it. The engine itself is single-threaded; everything that can go wrong
when threads, deadlines, callbacks and a close meet is in the V code around it.
That code is what this project models.

## Inventory

| Part | State it keeps | Operations | What is hard | What makes it correct |
|---|---|---|---|---|
| Host async boundary (`runtime_host_async.v`) | operations in flight with their Promise capabilities, terminal marks, event queue, cancel tokens | start; submit from any thread (resolve, reject, cancel, timeout); owner cancel; deadline sweep; drain; close | submits race sweeps, drains and close; the token is marked and the host told after the lock is released; settling can fail | one winner per operation, settled once and with it; capabilities freed once; nothing accepted is lost; losers learn |
| Host stream mailbox (`runtime_host_stream.v`) | bounded list of frames, closed flag | try_push, drain, close | many producers, back-pressure, close from either side | capacity, order, no loss while open |
| Session lifecycle (`runtime_session_turn.v`, `runtime_session.v`, `runtime_interrupt.v`, C handler) | phase, turn counters, drain request, sticky interrupt reason, deadline | run_turn, begin_drain, snapshot, cancel, close | cancel and deadline race the end of a turn; close tears down in steps others can observe | one turn at a time, interrupted sessions stay unusable, deadlines end with their turn |
| Session lane (`runtimejs/session_lane.v`, `session_lane_policy.v`) | waiting count, running and draining flags, completed count, turn gate | run_turn, start_host_async_operation, deliver_wakeup, cancel, debug_snapshot, snapshot, begin_drain, close | callers spin on an unfair gate and time out; drain and close come in between | only the gate's holder is inside; counters exact; bounded queue; everybody is answered |
| Event loop (`runtime_event_loop.v`) | owned timers, hints, pending wakeup and its generation | timer create and cancel, hint and clear, configure, deliver_wakeup, interrupt, close | reschedules from everywhere, superseded wakeups, callbacks that call back or throw, a delivery that fails in the middle | a wakeup is never later than the earliest deadline, the host holds it, timers fire once |
| WebSocket host (`host_websocket*.v`, `websocket.js`) | record with worker, command and event queues, flags, two socket pairs; `readyState`, `bufferedAmount` | connect, send, close, drain, release | worker thread against owner, wakeups that are spent elsewhere, overflow, close handshake, joining the worker | events in order, one close event at the end, nothing dropped, every connection ends |
| Timer globals (`web/js/timer.js`, `node_timers_promises.js`) | handles over owned or qjs:os timers, hints, one listener per promise timer | setTimeout, setInterval, both clears, promise timers and their abort; the embedder's pump | a callback clears its own interval; an abort at the instant of expiry; hints refused at the limit | no callback after a clear, hints agree with timers, a settled promise timer leaves nothing |
| HTTP server (`host_http_server.v`, `http_server.js`) | listener and connection threads with the record and queues of the stream host; Server, Socket, ServerResponse and ServerWebSocket objects | listen, accept, request, upgrade, write, end, destroy, close | three limits in two threads, close against accepted connections, callbacks that fail in a drain | limits hold, every end is announced, every ended response ends its thread, close calls back |
| Child processes (`host_child_process.v`) | handle with live flags, listeners, output | spawn, poll, kill, exec | polling on the owner, exit against output | exit and close reported once, after the output |
| Fetch (`host_fetch.v`, `fetch.js`) | worker slots, a result channel and an operation per request; the signal's listeners | fetch, abort, deadline, failing starts, session close | slots on failing paths, abort and deadline against answer, a body read first, a timer that is not set again | slots are workers, no wait for a result, an abort reaches the worker, every fetch settles |
| Limits, diagnostics, observations | bounded rings, counters | record, read, configure | eviction at the limit | newest entries kept, drops counted |
| Script modules and plugins | handle states | load, activate, call, deactivate, close | protocol across failures | no call after close |
| Module graph, resolver, bundles | graph, cache of sources | build, refresh, resolve, pack | staleness, order | graph complete, resolution order |
| SQL, file system, crypto and other hosts | connections, descriptors | I/O wrappers | partial failure | handles released |
| QuickJS bindings, web polyfills, CLI and npm installer | mostly none | | | |

Interactions: the lane holds the session and calls its `run_turn`,
`start_host_async_operation`, `deliver_wakeup` and `close` under the gate;
`deliver_wakeup` fires timers, drains the async queue, websocket events and the
job queue, and reschedules; `close` closes the async boundary, then the event
loop, then context and runtime; workers touch the async boundary only through
ports and tokens, and the host is called back through `async_ready_fn`,
`wake_fn` and `cancel_wake_fn`.

## Modules

| Module | Models | Notes |
|---|---|---|
| `StreamMailbox` | the mailbox | a call is under the mutex from start to end, hence one action; a frame is producer and number |
| `StreamMailboxProofs` | | proofs about `StreamMailbox` |
| `FirstTerminal` | what the async boundary promises | abstract: a winner and a settled value per operation |
| `HostAsync` | the async boundary | one action per locked section; what a thread does between two sections is an action of its own; implements `FirstTerminal` |
| `HostAsyncProofs`, `HostAsyncRefinement` | | proofs about `HostAsync`; the second shows that it implements `FirstTerminal` |
| `SessionLifecycle` | one session: turns, interrupts, close | `run_turn` is begin, action, clear deadline, finish, observe; `close` is four steps; reads of the interrupt state after it was freed may answer either way |
| `SessionLane` | the lane over that session | extends `SessionLifecycle` and takes its actions from inside the lane; every section under `guard` and every operation on `turn_gate` is an action |
| `EventLoop` | owned timers, hints, wakeups, `deliver_wakeup` | the owner is the only thread; JavaScript may call the API in a turn, in a callback and in a job; host operations only as deadlines and queued events; every `!` of `deliver_wakeup` is an action beside the one that succeeds: `CallbackThrows`, `FireFails`, `DrainFails`, `DeliverFails`; an interrupt comes at any time, and from then on calls and settlements fail |
| `TimerGlobals` | the timer globals over that loop, and the embedder who delivers and pumps | extends `EventLoop`; a handle stands for its qjs:os timer and its hint, of which it has one at a time; the pump blocks until no timer is set, so a session that pumps has no intervals of 0; one promise timer with one signal |
| `WebSocketHost` | one WebSocket connection: peer, worker, record on the lane, JavaScript object | every section under `worker.guard` and every place where the worker may block is an action; a payload is one byte; frames are decoded already |
| `HttpServer` | one server: listener, connections, records and JavaScript objects | shares the code of the stream host (emit, drain, release) with `WebSocketHost`; bodies, responses and messages are single frames; the application acts between two deliveries, also in the middle of a drain |
| `Fetch` | `fetch()` with its signal over the native transport | the operation's gate is that of `HostAsync` in short; a drain and the dispatch of an abort are single steps, a Promise job is one of its own; `Runner` is the compatibility timer, `RunnerFails` its ways of not being set again |
| `SessionProofs`, `FetchProofs`, `TimerGlobalsProofs`, `WebSocketHostProofs`, `HttpServerProofs` | | proofs about these; `SessionProofs` is about the lane and the session behind it, `TimerGlobalsProofs` includes the event loop below the globals |
| `MC...` | | small instances for TLC |

`SessionLane` composes the lane with the session below it. `EventLoop` contains
the part of the async boundary the loop depends on; the boundary's own races are
in `HostAsync`. `TimerGlobals` composes the loop with the JavaScript above it and the
embedder below. `HttpServer` and `Fetch` model both sides of their bridge, the V
host and the JavaScript class.

State and code correspond by name: `terminal`, `queued`, `operations` are the
fields of `RuntimeHostAsyncState`; `phase`, `inFlight`, `drainRequested` those of
`RuntimeSessionLifecycleState`; `queued`, `running`, `draining`, `gate` those of
`SessionLaneState`; `timers`, `hints`, `pending`, `wakeAt`, `generation` those of
`RuntimeSessionEventLoopState`; `events`, `commands`, `terminal`, `stopped`,
`cancelRequested` those of the workers of the stream host; `sockets`, `closing`,
`handle` those of `Server`; `active`, `results`, `token` those of the fetch workers. Variables marked "history" in a module have no
counterpart in the code. Each definition's lines are in `PROJECT.json`, `map`.

Operators whose comment begins with "Mutant of" are wrong on purpose: each is a
plausible bug in the definition that follows it, and shows that a property can
fail. No specification uses them.

## Runs

| Run | Question | Bounds and why they are enough |
|---|---|---|
| `mailbox` | capacity, order, loss, delivery | 2 producers x 2 frames, capacity 2: both fill it, both block, both overtake |
| `host_async` | capabilities, queue, order, tokens; refinement of `FirstTerminal`, nothing after close, settled in the end | 2 operations, 2 workers and the owner: each operation has up to three competing threads, a deadline, a sweep and a close, and there are two events to order |
| `host_async_poisoned` (violation) | does a queued completion keep its outcome on a poisoned session? | 2 operations |
| `lifecycle` | turns, phases, deadlines | several callers, one of them with a deadline, against cancel, drain and close |
| `lane` | exclusion, counters, bounds; are all callers answered and does close end? | 2 callers, one waiting place, one retry (`Patience`), a delivery and a close: one inside, one waiting, and one refused when it comes again |
| `event_loop` | wakeups, hints, promise timers, double firing, callbacks after a clear; are due timers and operations served? | any 3 calls (two timers and a clear, an interval that clears itself, a promise timer and its abort, ...), delays 0 and 1, clock 0..2, 2 handles of which one gets a hint, 2 operations, so that a drain can fail between two settlements; an interrupt counts as a call |
| `event_loop_throw` (violation) | does every delivery reschedule? | any 2 calls |
| `websocket` | queues, order, close, release; do releases, terminal events and cancellations come to an end? | 2 sends, a frame of the peer, queues of 2 and one queued byte: the limits by number and by bytes are met, an event queue overflows and a send is refused, a send crosses a message, a ping or a Close frame, and the worker blocks in a write with a command queued |
| `websocket_close` (violation) | does `close()` end the connection? | 1 send, no frame of the peer |
| `http` | limits, ends, order; do threads end and does `close()` call back? | 2 connections, one of them with a request or an upgrade, every limit 1, one frame of the peer, one call outside of a listener: each limit is met, and a refused connection crosses the close of the one in use |
| `http_close` (violation) | does `closeAllConnections()` with `close()` always call back? | 1 connection with a request |
| `fetch` | slots, results, deadlines, aborts; is every fetch settled? | 2 fetches for one slot, one of them with a signal: one is refused or waits for the other's cancelled worker to leave, and one timer's drain settles the other's operation |

Deadlock checking is off in all runs: each system may stop for good (everything
sent, closed, or out of calls). The bounds `FrameCount`, `MaxOps`, `Patience`,
`MaxTime`, `MaxCalls`, `MaxWakeups`,
`MaxSends` and `MaxFrames` are guards of the actions that would
otherwise run for ever.

### Disagreements found

* `host_async_poisoned`: on a runtime interrupted in the middle of a drain, the
  rest of the swapped-out batch is lost and close marks the token of an operation
  whose worker had won; `docs/GUARANTEES.md` says an already queued completion
  keeps its outcome.
* `event_loop_throw`: a throwing one-shot callback leaves the remaining timers
  without a wakeup; `docs/RUNTIME_CONTRACT.md` says `deliver_wakeup` reschedules
  the earliest remaining deadline.
* `websocket_close`: a `close()` (or `send()`) queued while the worker blocks in
  a write loses its wakeup. `WebSocketIO.wait` empties the command socket and
  looks at the cancel flags only; the worker then sleeps, without a timeout, on a
  command queue that is not empty. `docs/websocket-host.md` promises a close
  deadline, but it starts when the Close frame is written. Cancellation does not
  have the problem (`CancelEnds` holds). `HttpServer` has the same wait; `ThreadsEnd` excuses the
  connections it happened to (`spent`).
* `http_close`: with a request waiting in the drain, `closeAllConnections()` lets
  its worker end; the answer of a synchronous listener is then refused, which
  throws, and so does the catch block's own `res.end()` (as does the server's own
  answer where there is no listener; the throw of an async listener is a rejection in
  a job and does no harm). The failed callback releases the record with
  the close event still in the batch, so the server never forgets the socket and
  the callback of `close()`, which the integration test waits for, is not called.

Two lesser things met on the way are in the models but not in a run of their own:
`lane.snapshot()` during the close of a poisoned session may show it draining,
since it reads the interrupt state that close frees; and the `"open"` event of an
upgraded connection sets `readyState` to 1 whatever it was (`hasty` in `HttpServer`).

## Fairness

* Mailbox: the owner keeps draining and producers keep retrying, as the contract
  asks (`RUNTIME_CONTRACT.md`, stream mailbox).
* Async boundary and event loop: the host delivers what it was asked to deliver
  (the embedder's duty under `RUNTIME_CONTRACT.md`), the owner finishes the
  delivery it is in, time passes, and a thread finishes the call it is in.
  Nobody is obliged to submit, cancel, interrupt or close.
* Timers: the embedder also pumps after a delivery, and a pump goes on while
  timers are set. `DueTimersFire` and `OperationsSettle` say that the session is
  again and again without anything overdue. They except a session in which a
  callback threw, which is the disagreement above, and an interrupted one: its
  callbacks cannot be called and its Promises not be settled, so it has to be closed
  (`runtime_interrupt.v:13-15`).
* Lane: a thread inside a lane call goes on, and a turn ends. The gate is a plain
  mutex, so no fairness of the gate is assumed: weak fairness of each thread only.
* WebSocket: the host delivers when it was called back (not because a descriptor
  is readable: that is a second, independent way), the owner finishes a drain and
  a release, and the worker goes on. Its connects, reads and writes end with a
  result, an error or at their deadline; name resolution is counted among them,
  which the code's documentation names as a limit. The readiness wait at the
  bottom of the worker's loop has no deadline in the code and no fairness of its
  own here: it ends when the command socket is signalled, when the peer sends or
  goes, or at the close deadline. Neither peer nor JavaScript is obliged to act.
* HTTP server: the owner drains what it was told of, the listener and every
  connection thread are scheduled. Peers may stay silent and the application may
  leave a response open; the liveness properties speak of ended responses,
  stopped threads and destroyed sockets only.
* Fetch: Promise jobs and the compatibility timer run, worker threads are
  scheduled, the deadline passes, and the transport returns, since all its reads
  and writes have timeouts. Nobody is obliged to abort, or to drain unasked; so
  `FetchesEnd` has two parts. Without such drains every worker ends, and every fetch
  is settled but the stranded ones: those whose compatibility timer was lost before,
  because the job it ran threw (`host_fetch.v:119-121`) or because it could not be
  set again, which rejects the operation and leaves nobody to drain it (122). If the
  host does drain what is decided, these are settled too. An interrupted session
  settles nothing.

## Proofs

TLAPS proves, for every value of the constants:

* `StreamMailboxProofs`: types and `MailboxSound`, which is `Bounded` and
  `NothingDropped`. The last needs nothing but itself and the types: `Close` clears the frames in
  the step that sets the flag, and `drained \o frames` is unchanged by cutting
  the front off one and adding it to the other.

* `HostAsyncProofs`: types, `CapabilityHeldOnce` and `NothingAfterClose`. `TypeOK`
  is not inductive, because `StartReturn` hands out the port of `nextId - 1`:
  `StartingHasNumber` says that an operation being started has a number.
  `CapabilityHeldOnce` needs to know that records are outside the map only while
  close releases them (`RecordsOnlyInClose`), since `CloseSnapshot` overwrites
  them, and that closing is a one-way street (`ClosedIsFinal`, `ClosedIsEmpty`).
* `HostAsyncRefinement`: `AcceptedStaysQueued`, `FirstTerminalWins`,
  `CloseReleasesEverything`, `TokenTellsTheWinner` and `SettledInOrder`. The invariant `PromiseInv`
  ties the gate's history to the places an event can be in: an operation of the
  map without a terminal mark has no winner (so the gate and the sweep are
  `Accept` and `AcceptAll`), whoever holds a pair is unsettled, an event carries
  its operation's winner and there is one of it (so the drain is `Settle`), and
  on a runtime that can run a decided, unsettled operation has its record and its
  event (so close decides only undecided operations). `SettledInOrder` compares any
  two operations of the history and says nothing of those in between;
  `OrderKept` is what a step keeps: the history is the settled operations and then,
  one by one, those of the events in batch and queue.

* `SessionProofs`, first for a session used directly: types, `SessionConsistent` and
  `NoTurnAfterPoisonOrDrain`. `SessionConsistent` counts with `Cardinality`; the
  invariant `SessionInv` says instead that two callers in a turn are the same one, and
  `DeadlineOwned` names the turn a deadline belongs to, since `DeadlineEndsWithTurn`
  alone would survive the end of another turn only by `Exclusive`. The lemmas about
  the steps (`TurnKeeps`, `CloseKeeps`, ...) do not say who takes them. Then for the
  lane: types, `GateOwnsRuntime`, `CountersAreExact`, `DrainedLaneAdmitsNobody`, and
  `SessionConsistent` once more behind it. `GateInv` lists the places where a thread
  holds the gate; from it `GateExcludes` follows, that nobody closes during a turn and
  nobody is in a turn while the session is closed, which is all the session's lemmas
  ask for. The two counters are cardinalities of sets that gain or lose one caller in a
  step.
* `FetchProofs`: types, `SlotsAreWorkers`, `ResponseIsThere`, `LateIsDiscarded`,
  `AbortReachesWorker` and `NoWorkAfterAbort`. `Ordered` says how far operation,
  Promise and worker of a request may be apart; each property has an invariant of its
  own on top of it: a result stays in the channel from its sending on (`Answered`), a
  late worker sends nothing (`Timely`), and an abort finds the operation pending or
  is found by the request that still reads its body (`Heard`).
* `TimerGlobalsProofs`, about the globals and the event loop below them: types,
  `WakeupNeverLate`, `NoDoubleFire`, `HintsTellTimers`, `SettledLeavesNothing` and
  `NoCallbackAfterClear`. For the wakeup, `WakeInv` holds during a delivery too: a
  pending request is held by the host, it is early enough unless a delivery has
  cleared it and not recomputed it yet, and such a lapse is one of a delivery under
  way or of one that failed before it had drained. That exception is as wide as the
  code's error paths: a timer callback that throws or cannot be called
  (`runtime_event_loop.v:442-446`), and a settlement that fails in the drain (468),
  after which neither reschedule is reached. Deadlines are those of operations somebody
  waits for: one whose event a failing drain dropped, or whose start an interrupt cut
  short before its wakeup was requested, has none (`FewerTimes`). A step then either recomputes (`RescheduleKeeps`) or only
  moves deadlines to later times (`LaterKeeps`). `TimerInv`: what fired is older than
  its deadline, and an id not given out has no past. `HandleInv` and `PromiseInv` add
  what the properties leave open: a cleared handle that is no interval has lost its
  qjs:os timer, the promise timer's id belongs to nobody else, and its own callback
  runs when it is gone already.
* `WebSocketHostProofs`: types, `QueuesSound`, `EndsWithClose` and `BufferedIsUnsent`,
  from one invariant, `ConnectionInv`. An abnormal close comes directly after an error
  because the worker that is about to report it has just reported one
  (`ErrorComesFirst`), through the callback in between (`ThenIsNext`), and nothing
  follows a close because a close event and `terminal` come in the same step
  (`TerminalIsClosed`). `BufferedExact` says of a socket that is still connecting what
  `BufferedIsUnsent` says of an open one, because "open" changes nothing but the state;
  it needs `CmdsHeld`, since the worker's next batch of commands would overwrite the
  last, and `CloseAsked`. The `Tally` lemmas count the elements of a sequence when one
  is added, taken or moved.
* `HttpServerProofs`: types, `LimitsHold`, `EndIsAnnounced` and `NoDataAfterClose`, from
  `ServerInv`. What waits for a callback is the rest of a drain followed by the queue
  (`Inbox`); most of the invariant is about it, so that a swap changes nothing.
  `PendingExact` matches the pending connections with the "accept" events of the
  listener's inbox, one for one, apart from the one about to be reported: the limit on
  pending connections then bounds the queue, and the listener is never ended by an
  overflow. `OwedKept` says that a thread that is done, or has reported its close, has
  its close event in the inbox or is being released, and `HeldHasRecord` that
  JavaScript forgets an object before its record goes. For `NoDataAfterClose`,
  `TextPlaces` orders messages and Close frames along their way: queue of
  commands, worker's batch, frame being written, frames written. That no message
  enters behind a Close frame needs `readyState` never to return to 1: `OpensOnce` says that a
  websocket, from the request to its "open" event, is at one place at a time, so that
  once it is open no second "open" is on the way.

The assumptions are the ones the modules name: the number of operations and of
frames is a natural number, the capacity is what the code makes of it, the owner
is not a worker, `None` is no outcome, callers, deliverers and closer are different
threads, callers, fetches and connections are finitely many, delays are natural numbers and handles
positive ones. The limit on pending connections is not above the capacity of the
listener's queue: the record of a listener is created with the default
`queue_capacity`, 64, and the limit is that constant as well. `TimerGlobalsProofs` takes from the library that the naturals are well
founded, which is why a set of deadlines has an earliest one. Steps are split
by `StepCases` (`NextCases` in the globals); in the async boundary its case `Quiet`
collects the steps that move no event, record or Promise.

Every safety invariant and every action property that a run checks is proved. What is
only model-checked are the liveness properties, which rest on fairness and
ENABLED: `EveryFrameDelivered`, `AcceptedIsSettled`, `EverybodyLeaves`,
`DueTimersFire`, `OperationsSettle`, `JoinReturns`, `ReportedIsDelivered`,
`CancelEnds`, `ThreadsEnd`, `ServerCloseCompletes` and `FetchesEnd`.

## Not modelled

The contents of payloads, messages and diagnostics; memory figures; time as
anything but the order of deadlines; hosts that call `request_wakeup_at` or
`set_deadline` themselves. Of the HTTP server: the bytes of requests and of the
upgrade, the limits on listeners and records, listeners that throw on their own,
and the close of the session with a server in it. Of WebSockets: the frame decoder
and deliveries to several connections at once. Of fetch: the transport over a curl
process, and proxies. Of interrupts: a JavaScript function of the globals or of fetch
that is cut off in its middle (it is interrupted before or after a step), and
settlements that fail for another reason, as for want of memory.

Child processes are the largest part with threads that is not modelled yet. The
other parts marked `not_modelled` in `PROJECT.json` are sequential or keep no state
of their own; the reasons are given there. `thirdparty/typescript` is a vendored
compiler and not a part of this system.

## Plan

1. (done) Mailbox, async boundary, session lifecycle, lane, event loop and timer
   globals, one WebSocket connection, HTTP server, fetch.
2. `ChildProcess`: polling on the owner, output readers, kill.
3. `SessionRings` (diagnostics, observations), `PluginHandles`, `SqlConnection`,
   `Descriptors`.
4. Pure algorithms: timer delay normalisation, the frame decoder, module graph
   and resolution order, installer ordering.
5. `RuntimeComposition`: lane, event loop and async boundary together, with the
   promise that a completion submitted by a worker settles although the lane is
   busy; an abstract specification of a connection (events in order, one terminal
   event, last) for `WebSocketHost` and `HttpServer`.
6. Proofs: (done) every safety invariant and action property of the runs; next, that
   `WebSocketHost` and `HttpServer` implement the abstract connection of step 5.
