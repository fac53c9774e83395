---------------------------- MODULE WebSocketHost ----------------------------
(***************************************************************************)
(* One native WebSocket connection: the worker thread that owns the socket *)
(* (src/host_websocket_worker.v, host_websocket_io.c.v), the record of the *)
(* owner lane with its command and event queues (src/host_websocket.v),    *)
(* and the JavaScript object on top (src/web/js/websocket.js).             *)
(*                                                                         *)
(* Every section under worker.guard is one action, and so is every place   *)
(* where the worker may block.  A payload is one byte long; messages of    *)
(* the peer are numbered so that order and loss can be seen.  Frames are   *)
(* decoded already.                                                        *)
(***************************************************************************)
EXTENDS Integers, SequencesExt

CONSTANTS
  Capacity,     \* config.queue_capacity, for events and for commands
  MaxBytes,     \* config.max_queued_bytes
  MaxSends,     \* bound: calls of send() that reach the native side
  MaxFrames     \* bound: frames the peer sends

ASSUME WebSocketAssumption ==
  /\ Capacity \in Nat \ {0} /\ MaxBytes \in Nat \ {0}
  /\ MaxSends \in Nat /\ MaxFrames \in Nat

\* What the worker reports.  "clean" and "abnormal" are the two close events:
\* the peer's Close, and code 1006.
Kinds == {"open", "sent", "text", "error", "clean", "abnormal"}
Close == {"clean", "abnormal"}
Event == [kind : Kinds, n : 0 .. MaxFrames]
Report(kind) == [kind |-> kind, n |-> 0]
Bytes(event) == IF event.kind = "text" THEN 1 ELSE 0

PeerFrames == {"text", "ping", "close", "bad"}
Writes == {"text", "close", "pong", "closeReply", "failClose"}

\* Where the worker is.  It may block in Blocking, and there select() also
\* watches the command socket.
Blocking == {"connecting", "writing", "reading", "waiting"}
WorkerSteps == Blocking \cup
  {"none", "opening", "loop", "commands", "sent", "incoming", "clean",
   "callback", "failed", "error", "abnormal", "done"}

VARIABLES
  js,           \* readyState of the JavaScript object; "none": not constructed
  buffered,     \* bufferedAmount
  owner,        \* what the owner lane does with this connection
  batch,        \* events the drain took and has not handed over yet
  hostClosed,   \* host.closed and stream_ready.closed
  events,       \* worker.events
  eventBytes,   \* worker.event_bytes
  commands,     \* worker.commands
  commandBytes, \* worker.command_bytes
  stopped, cancelRequested, terminal,  \* the worker's flags
  wake,         \* a byte waits in the command socket pair
  notify,       \* a byte waits in the notification socket pair
  told,         \* the host was called back through ready_fn
  pc,           \* where the worker is
  then,         \* where it goes after the callback
  cmds,         \* commands the worker took
  frame,        \* what it is writing
  incoming,     \* frames it has read
  closing,      \* it has sent a Close frame on request
  wire,         \* frames of the peer on their way
  peerGone,     \* the peer closed the TCP connection
  sends,        \* bound counter: calls of send
  frames,       \* bound counter: frames the peer has sent
  reported,     \* history: events accepted by emit
  delivered,    \* history: events handed to the callback
  out           \* history: frames written

jsVars == <<js, buffered, sends>>
eventVars == <<events, eventBytes, notify, reported>>
commandVars == <<commands, commandBytes>>
flagVars == <<stopped, cancelRequested, terminal>>
workerVars == <<pc, then, cmds, frame, incoming, closing>>
peerVars == <<wire, peerGone, frames>>
ownerVars == <<owner, batch, hostClosed, delivered>>
vars == <<jsVars, ownerVars, eventVars, commandVars, flagVars, wake, told,
          workerVars, peerVars, out>>

Init ==
  /\ js = "none" /\ buffered = 0 /\ sends = 0
  /\ owner = "none" /\ batch = <<>> /\ hostClosed = FALSE /\ delivered = <<>>
  /\ events = <<>> /\ eventBytes = 0 /\ notify = FALSE /\ reported = <<>>
  /\ commands = <<>> /\ commandBytes = 0
  /\ stopped = FALSE /\ cancelRequested = FALSE /\ terminal = FALSE
  /\ wake = FALSE /\ told = FALSE
  /\ pc = "none" /\ then = "none" /\ cmds = <<>> /\ frame = "text"
  /\ incoming = <<>> /\ closing = FALSE
  /\ wire = <<>> /\ peerGone = FALSE /\ frames = 0
  /\ out = <<>>

-----------------------------------------------------------------------------
(* The peer and the network. *)

PeerSends(kind) ==
  /\ pc \notin {"none", "connecting", "done"} /\ ~peerGone /\ frames < MaxFrames
  /\ frames' = frames + 1
  /\ wire' = Append(wire, [kind |-> kind, n |-> frames + 1])
  /\ UNCHANGED <<jsVars, ownerVars, eventVars, commandVars, flagVars, wake, told,
                 workerVars, peerGone, out>>

PeerGoes ==
  /\ pc \notin {"none", "connecting", "done"} /\ ~peerGone
  /\ peerGone' = TRUE
  /\ UNCHANGED <<jsVars, ownerVars, eventVars, commandVars, flagVars, wake, told,
                 workerVars, wire, frames, out>>

-----------------------------------------------------------------------------
(* The native functions the JavaScript object calls on the owner lane. *)

\* native.send refuses when the connection is over.
Ended == stopped \/ terminal

CommandsFull == Len(commands) >= Capacity \/ commandBytes + 1 > MaxBytes

\* native.send of a message or of close(); it refuses with false.
Queue(kind) ==
  /\ commands' = Append(commands, kind)
  /\ commandBytes' = commandBytes + IF kind = "text" THEN 1 ELSE 0
  /\ wake' = TRUE

\* native.send(id, 'cancel').
Cancel ==
  /\ cancelRequested' = (cancelRequested \/ ~Ended)
  /\ wake' = (wake \/ ~Ended)

\* JavaScript runs between two deliveries, or inside a listener.
JsRuns == owner \in {"idle", "listener"} /\ ~hostClosed

\* new WebSocket(url): native.start registers the record and spawns the worker.
Construct ==
  /\ js = "none" /\ owner = "none" /\ ~hostClosed
  /\ js' = "connecting"
  /\ owner' = "idle"
  /\ pc' = "connecting"
  /\ UNCHANGED <<buffered, sends, batch, hostClosed, delivered, eventVars,
                 commandVars, flagVars, wake, told, then, cmds, frame, incoming,
                 closing, peerVars, out>>

\* Mutant of JsSend: a refused send is counted and forgotten.
JsSendIgnoresRefusal ==
  /\ JsRuns /\ js = "open" /\ sends < MaxSends
  /\ sends' = sends + 1
  /\ buffered' = buffered + 1
  /\ IF Ended \/ CommandsFull
     THEN UNCHANGED <<js, cancelRequested, wake, commandVars>>
     ELSE Queue("text") /\ UNCHANGED <<js, cancelRequested>>
  /\ UNCHANGED <<ownerVars, eventVars, stopped, terminal, told, workerVars,
                 peerVars, out>>

\* send() of an open socket.  A refusal cancels the connection and throws
\* QuotaExceededError.  In the other states nothing reaches the native side.
JsSend ==
  /\ JsRuns /\ js = "open" /\ sends < MaxSends
  /\ sends' = sends + 1
  /\ IF Ended \/ CommandsFull
     THEN /\ js' = "closing"
          /\ Cancel
          /\ UNCHANGED <<buffered, commandVars>>
     ELSE /\ Queue("text")
          /\ buffered' = buffered + 1
          /\ UNCHANGED <<js, cancelRequested>>
  /\ UNCHANGED <<ownerVars, eventVars, stopped, terminal, told, workerVars,
                 peerVars, out>>

\* close(): a connecting socket is cancelled, an open one asks for the closing
\* handshake; if the command queue has no room it is cancelled.  The reason is
\* empty, so that the byte limit does not refuse it.
JsClose ==
  /\ JsRuns /\ js \in {"connecting", "open"}
  /\ js' = "closing"
  /\ IF js = "open" /\ ~Ended /\ Len(commands) < Capacity
     THEN Queue("close") /\ UNCHANGED cancelRequested
     ELSE Cancel /\ UNCHANGED commandVars
  /\ UNCHANGED <<buffered, sends, ownerVars, eventVars, stopped, terminal, told,
                 workerVars, peerVars, out>>

-----------------------------------------------------------------------------
(* The owner lane. *)

\* websocket_release, up to the join: worker.stop().
Release ==
  /\ stopped' = TRUE
  /\ wake' = TRUE
  /\ owner' = "joining"

\* websocket_drain, from a read handler of QuickJS or from deliver_wakeup.
Drain ==
  /\ owner = "idle" /\ ~hostClosed
  /\ batch' = events
  /\ events' = <<>>
  /\ eventBytes' = 0
  /\ notify' = FALSE
  /\ told' = FALSE
  /\ owner' = "delivering"
  /\ UNCHANGED <<jsVars, hostClosed, delivered, reported, commandVars, flagVars,
                 wake, workerVars, peerVars, out>>

\* The callback of websocket.js: which events reach listeners in which state.
Listened(kind) ==
  CASE kind = "open" -> js = "connecting"
    [] kind = "text" -> js = "open"
    [] kind = "sent" -> FALSE
    [] OTHER -> js # "closed"

\* The state the callback moves the object to.
NextState(kind) ==
  CASE kind = "open" /\ js = "connecting" -> "open"
    [] kind \in Close -> "closed"
    [] OTHER -> js

\* Mutant of Deliver: the batch is handed over from its end.
DeliverLast ==
  /\ owner \in {"delivering", "listener"} /\ batch # <<>>
  /\ LET event == Last(batch)
     IN  /\ js' = NextState(event.kind)
         /\ buffered' = IF event.kind = "sent" /\ js # "closed" /\ buffered > 0
                        THEN buffered - 1 ELSE buffered
         /\ owner' = IF Listened(event.kind) THEN "listener" ELSE "delivering"
         /\ delivered' = Append(delivered, event)
  /\ batch' = Front(batch)
  /\ UNCHANGED <<sends, hostClosed, eventVars, commandVars, flagVars, wake, told,
                 workerVars, peerVars, out>>

\* One round of the loop of websocket_drain.
Deliver ==
  /\ owner \in {"delivering", "listener"} /\ batch # <<>>
  /\ LET event == Head(batch)
     IN  /\ js' = NextState(event.kind)
         /\ buffered' = IF event.kind = "sent" /\ js # "closed" /\ buffered > 0
                        THEN buffered - 1 ELSE buffered
         /\ owner' = IF Listened(event.kind) THEN "listener" ELSE "delivering"
         /\ delivered' = Append(delivered, event)
  /\ batch' = Tail(batch)
  /\ UNCHANGED <<sends, hostClosed, eventVars, commandVars, flagVars, wake, told,
                 workerVars, peerVars, out>>

\* A listener throws: the object is closed and cancelled, the error leaves the
\* loop, and the record is released with the rest of the batch.
ListenerThrows ==
  /\ owner = "listener"
  /\ js' = "closed"
  /\ cancelRequested' = (cancelRequested \/ ~Ended)
  /\ batch' = <<>>
  /\ Release
  /\ UNCHANGED <<buffered, sends, hostClosed, delivered, eventVars, commandVars,
                 terminal, told, workerVars, peerVars, out>>

\* A close event was among the events of this drain.
SawClose == \E i \in DOMAIN delivered : delivered[i].kind \in Close

\* Mutant of DrainEnd: a call of ready_fn during the drain is taken as answered.
DrainEndForgets ==
  /\ owner \in {"delivering", "listener"} /\ batch = <<>>
  /\ told' = FALSE
  /\ IF SawClose
     THEN Release
     ELSE owner' = "idle" /\ UNCHANGED <<stopped, wake>>
  /\ UNCHANGED <<jsVars, batch, hostClosed, delivered, eventVars, commandVars,
                 cancelRequested, terminal, workerVars, peerVars, out>>

DrainEnd ==
  /\ owner \in {"delivering", "listener"} /\ batch = <<>>
  /\ IF SawClose
     THEN Release
     ELSE owner' = "idle" /\ UNCHANGED <<stopped, wake>>
  /\ UNCHANGED <<jsVars, batch, hostClosed, delivered, eventVars, commandVars,
                 cancelRequested, terminal, told, workerVars, peerVars, out>>

\* thread.wait(), the four descriptors, the callback and the record.
Join ==
  /\ owner = "joining" /\ pc = "done"
  /\ owner' = "released"
  /\ UNCHANGED <<jsVars, batch, hostClosed, delivered, eventVars, commandVars,
                 flagVars, wake, told, workerVars, peerVars, out>>

\* The cleanup the session runs on close.
SessionClose ==
  /\ ~hostClosed /\ owner \in {"none", "idle", "released"}
  /\ hostClosed' = TRUE
  /\ IF owner = "idle" THEN Release ELSE UNCHANGED <<stopped, wake, owner>>
  /\ UNCHANGED <<jsVars, batch, delivered, eventVars, commandVars,
                 cancelRequested, terminal, told, workerVars, peerVars, out>>

-----------------------------------------------------------------------------
(* WebSocketWorker.emit: under the lock the event is queued, or replaced by *)
(* error and close if there is no room, or refused if the connection is     *)
(* over.  The host is called back after the lock.                           *)

EventsFull(event) ==
  /\ event.kind \notin Close
  /\ Len(events) >= Capacity \/ eventBytes + Bytes(event) > MaxBytes

\* What emit adds to the queue.
Emitted(event) ==
  IF EventsFull(event) THEN <<Report("error"), Report("abnormal")>> ELSE <<event>>

\* Mutant of Emit: an event is refused only after stop.
EmitAfterClose(event, next, refusedNext) ==
  IF stopped
  THEN pc' = refusedNext /\ UNCHANGED <<eventVars, terminal, then>>
  ELSE /\ events' = events \o Emitted(event)
       /\ reported' = reported \o Emitted(event)
       /\ eventBytes' = eventBytes + IF EventsFull(event) THEN 0 ELSE Bytes(event)
       /\ terminal' = (terminal \/ EventsFull(event) \/ event.kind \in Close)
       /\ notify' = TRUE
       /\ pc' = "callback"
       /\ then' = IF EventsFull(event) THEN refusedNext ELSE next

\* The worker goes on at next, or at refusedNext if emit returned false.
Emit(event, next, refusedNext) ==
  IF stopped \/ terminal
  THEN pc' = refusedNext /\ UNCHANGED <<eventVars, terminal, then>>
  ELSE /\ events' = events \o Emitted(event)
       /\ reported' = reported \o Emitted(event)
       /\ eventBytes' = eventBytes + IF EventsFull(event) THEN 0 ELSE Bytes(event)
       /\ terminal' = (terminal \/ EventsFull(event) \/ event.kind \in Close)
       /\ notify' = TRUE
       /\ pc' = "callback"
       /\ then' = IF EventsFull(event) THEN refusedNext ELSE next

\* stream_ready is read under its own lock; a closed host is left alone.
Callback ==
  /\ pc = "callback"
  /\ told' = (told \/ ~hostClosed)
  /\ pc' = then
  /\ then' = "none"
  /\ UNCHANGED <<jsVars, ownerVars, eventVars, commandVars, flagVars, wake, cmds,
                 frame, incoming, closing, peerVars, out>>

-----------------------------------------------------------------------------
(* The worker. *)

Fails == pc' = "failed"

\* Steps of the worker that touch none of the shared queues and flags.
Alone == UNCHANGED <<jsVars, ownerVars, eventVars, commandVars, flagVars, told, out>>

\* connect, TLS and upgrade succeed, fail, or run into the deadline.
Connect ==
  /\ pc = "connecting"
  /\ pc' = "opening" \/ Fails
  /\ Alone
  /\ UNCHANGED <<wake, then, cmds, frame, incoming, closing, peerVars>>

Open ==
  /\ pc = "opening"
  /\ Emit(Report("open"), "loop", "done")
  /\ UNCHANGED <<jsVars, ownerVars, commandVars, stopped, cancelRequested, wake,
                 told, cmds, frame, incoming, closing, peerVars, out>>

\* Mutant of IoWoken: a wait inside a read or a write looks for stop alone.
IoWokenByStop ==
  /\ pc \in {"connecting", "writing", "reading"} /\ wake
  /\ wake' = FALSE
  /\ pc' = IF stopped THEN "failed" ELSE pc
  /\ Alone
  /\ UNCHANGED <<then, cmds, frame, incoming, closing, peerVars>>

\* WebSocketIO.wait, woken by the command socket while connecting, writing or
\* reading: it empties the socket and looks at the flags, not at the commands.
IoWoken ==
  /\ pc \in {"connecting", "writing", "reading"} /\ wake
  /\ wake' = FALSE
  /\ pc' = IF stopped \/ cancelRequested THEN "failed" ELSE pc
  /\ Alone
  /\ UNCHANGED <<then, cmds, frame, incoming, closing, peerVars>>

\* Mutant of TakeCommands: the flags are not looked at again.
TakeCommandsOnly ==
  /\ pc = "loop"
  /\ wake' = FALSE
  /\ cmds' = commands
  /\ commands' = <<>>
  /\ commandBytes' = 0
  /\ pc' = "commands"
  /\ UNCHANGED <<jsVars, ownerVars, eventVars, flagVars, told, then, frame,
                 incoming, closing, peerVars, out>>

\* The top of the loop, under the lock.
TakeCommands ==
  /\ pc = "loop"
  /\ wake' = FALSE
  /\ cmds' = commands
  /\ commands' = <<>>
  /\ commandBytes' = 0
  /\ pc' = IF stopped \/ cancelRequested THEN "failed" ELSE "commands"
  /\ UNCHANGED <<jsVars, ownerVars, eventVars, flagVars, told, then, frame,
                 incoming, closing, peerVars, out>>

NextCommand ==
  /\ pc = "commands" /\ cmds # <<>>
  /\ cmds' = Tail(cmds)
  /\ IF closing
     THEN UNCHANGED <<pc, frame>>
     ELSE frame' = Head(cmds) /\ pc' = "writing"
  /\ Alone
  /\ UNCHANGED <<wake, then, incoming, closing, peerVars>>

CommandsDone ==
  /\ pc = "commands" /\ cmds = <<>>
  /\ pc' = "incoming"
  /\ Alone
  /\ UNCHANGED <<wake, then, cmds, frame, incoming, closing, peerVars>>

\* A frame is written: what follows depends on why it was.
WriteDone ==
  /\ pc = "writing"
  /\ out' = Append(out, frame)
  /\ closing' = (closing \/ frame = "close")
  /\ pc' = CASE frame = "text" -> "sent"
             [] frame = "close" -> "commands"
             [] frame = "pong" -> "incoming"
             [] frame = "closeReply" -> "clean"
             [] frame = "failClose" -> "failed"
  /\ UNCHANGED <<jsVars, ownerVars, eventVars, commandVars, flagVars, wake, told,
                 then, cmds, frame, incoming, peerVars>>

\* An I/O error or the deadline of the write.
WriteFails ==
  /\ pc = "writing"
  /\ Fails
  /\ Alone
  /\ UNCHANGED <<wake, then, cmds, frame, incoming, closing, peerVars>>

Sent ==
  /\ pc = "sent"
  /\ Emit(Report("sent"), "commands", "done")
  /\ UNCHANGED <<jsVars, ownerVars, commandVars, stopped, cancelRequested, wake,
                 told, cmds, frame, incoming, closing, peerVars, out>>

\* A message is reported unless the closing handshake has begun.
IncomingText ==
  /\ pc = "incoming" /\ incoming # <<>> /\ Head(incoming).kind = "text"
  /\ incoming' = Tail(incoming)
  /\ IF closing
     THEN UNCHANGED <<eventVars, terminal, pc, then>>
     ELSE Emit(Head(incoming), "incoming", "done")
  /\ UNCHANGED <<jsVars, ownerVars, commandVars, stopped, cancelRequested, wake,
                 told, cmds, frame, closing, peerVars, out>>

\* Ping, Close and protocol failure are answered with a frame; a Close frame
\* that answers ours is not.
IncomingControl ==
  /\ pc = "incoming" /\ incoming # <<>> /\ Head(incoming).kind # "text"
  /\ incoming' = Tail(incoming)
  /\ LET kind == Head(incoming).kind
     IN  IF kind = "close" /\ closing
         THEN pc' = "clean" /\ UNCHANGED frame
         ELSE /\ pc' = "writing"
              /\ frame' = CASE kind = "ping" -> "pong"
                            [] kind = "close" -> "closeReply"
                            [] kind = "bad" -> "failClose"
  /\ Alone
  /\ UNCHANGED <<wake, then, cmds, closing, peerVars>>

IncomingDone ==
  /\ pc = "incoming" /\ incoming = <<>>
  /\ pc' = "waiting"
  /\ Alone
  /\ UNCHANGED <<wake, then, cmds, frame, incoming, closing, peerVars>>

Clean ==
  /\ pc = "clean"
  /\ Emit(Report("clean"), "done", "done")
  /\ UNCHANGED <<jsVars, ownerVars, commandVars, stopped, cancelRequested, wake,
                 told, cmds, frame, incoming, closing, peerVars, out>>

\* The readiness wait at the bottom of the loop: the command socket first, then
\* the peer; without a timeout unless the closing handshake is running.  Records
\* that TLS has buffered are read without looking at the command socket.
Woken ==
  /\ pc = "waiting" /\ wake
  /\ pc' = "loop"
  /\ Alone
  /\ UNCHANGED <<wake, then, cmds, frame, incoming, closing, peerVars>>

Readable ==
  /\ pc = "waiting"
  /\ wire # <<>> \/ (peerGone /\ ~wake)
  /\ pc' = "reading"
  /\ Alone
  /\ UNCHANGED <<wake, then, cmds, frame, incoming, closing, peerVars>>

CloseTimeout ==
  /\ pc = "waiting" /\ closing
  /\ Fails
  /\ Alone
  /\ UNCHANGED <<wake, then, cmds, frame, incoming, closing, peerVars>>

\* io.read gets some of the frames on the wire.
Read ==
  /\ pc = "reading" /\ wire # <<>>
  /\ \E k \in 1 .. Len(wire) :
       /\ incoming' = incoming \o SubSeq(wire, 1, k)
       /\ wire' = SubSeq(wire, k + 1, Len(wire))
  /\ pc' = "loop"
  /\ Alone
  /\ UNCHANGED <<wake, then, cmds, frame, closing, peerGone, frames>>

\* An I/O error, a disconnect, or the deadline of a read that TLS keeps waiting.
ReadFails ==
  /\ pc = "reading"
  /\ Fails
  /\ Alone
  /\ UNCHANGED <<wake, then, cmds, frame, incoming, closing, peerVars>>

\* websocket_run returned an error: stopped is read under the lock, ...
Failed ==
  /\ pc = "failed"
  /\ pc' = IF stopped THEN "abnormal" ELSE "error"
  /\ Alone
  /\ UNCHANGED <<wake, then, cmds, frame, incoming, closing, peerVars>>

\* ... the error is reported, and then the close.
ReportError ==
  /\ pc = "error"
  /\ Emit(Report("error"), "abnormal", "abnormal")
  /\ UNCHANGED <<jsVars, ownerVars, commandVars, stopped, cancelRequested, wake,
                 told, cmds, frame, incoming, closing, peerVars, out>>

ReportAbnormal ==
  /\ pc = "abnormal"
  /\ Emit(Report("abnormal"), "done", "done")
  /\ UNCHANGED <<jsVars, ownerVars, commandVars, stopped, cancelRequested, wake,
                 told, cmds, frame, incoming, closing, peerVars, out>>

-----------------------------------------------------------------------------
WorkerStep ==
  \/ Connect \/ Open \/ IoWoken \/ TakeCommands \/ NextCommand \/ CommandsDone
  \/ WriteDone \/ WriteFails \/ Sent \/ IncomingText \/ IncomingControl
  \/ IncomingDone \/ Clean \/ Woken \/ Readable \/ CloseTimeout \/ Read
  \/ ReadFails \/ Failed \/ ReportError \/ ReportAbnormal \/ Callback

OwnerStep == Deliver \/ DrainEnd \/ Join

Next ==
  \/ \E kind \in PeerFrames : PeerSends(kind)
  \/ PeerGoes
  \/ Construct \/ JsSend \/ JsClose
  \/ Drain \/ ListenerThrows \/ SessionClose
  \/ OwnerStep
  \/ WorkerStep

\* The host delivers what it is told about, the owner finishes a drain and a
\* release, and the worker's waits end: with data, with an error, at a deadline,
\* or when the command socket is signalled.  The readiness wait alone has no end
\* of its own.
Fairness ==
  /\ WF_vars(told /\ Drain)
  /\ WF_vars(OwnerStep)
  /\ WF_vars(WorkerStep)

Spec == Init /\ [][Next]_vars
FairSpec == Spec /\ Fairness

-----------------------------------------------------------------------------
TypeOK ==
  /\ js \in {"none", "connecting", "open", "closing", "closed"}
  /\ buffered \in 0 .. MaxSends /\ sends \in 0 .. MaxSends
  /\ owner \in {"none", "idle", "delivering", "listener", "joining", "released"}
  /\ {batch, events, reported, delivered} \subseteq Seq(Event)
  /\ eventBytes \in Nat /\ commandBytes \in Nat
  /\ {commands, cmds} \subseteq Seq({"text", "close"})
  /\ {stopped, cancelRequested, terminal, wake, notify, told, closing, hostClosed,
      peerGone} \subseteq BOOLEAN
  /\ pc \in WorkerSteps /\ then \in WorkerSteps
  /\ frame \in Writes /\ out \in Seq(Writes)
  /\ {incoming, wire} \subseteq Seq([kind : PeerFrames, n : 1 .. MaxFrames])
  /\ frames \in 0 .. MaxFrames

Count(s, Test(_)) == Cardinality({i \in DOMAIN s : Test(s[i])})
Sents(s) == Count(s, LAMBDA e : e.kind = "sent")
Texts(s) == Count(s, LAMBDA e : e = "text")

\* Both queues stay within their limits; only the terminal events go beyond, and
\* the byte counters are what is in the queues (host_websocket.v:68-79,207-212).
QueuesBounded ==
  /\ Len(events) <= Capacity + (IF terminal THEN 2 ELSE 0)
  /\ eventBytes = Count(events, LAMBDA e : e.kind = "text") /\ eventBytes <= MaxBytes
  /\ Len(commands) <= Capacity
  /\ commandBytes = Texts(commands) /\ commandBytes <= MaxBytes

\* What was reported is handed over in that order and completely; only a
\* listener that throws, or the close of the session, gives up the rest
\* (docs/websocket-host.md: "it never silently drops an accepted message").
NothingDropped ==
  IF owner \in {"joining", "released"}
  THEN IsPrefix(delivered, reported)
  ELSE reported = delivered \o batch \o events

\* Full queues, releases and throwing listeners notwithstanding.
QueuesSound == QueuesBounded /\ NothingDropped

\* One close event, and nothing after it; "Cancellation during connection,
\* protocol failures and transport failures report error followed by abnormal
\* close" (docs/websocket-host.md).
EndsWithClose ==
  \A i \in DOMAIN reported : reported[i].kind \in Close =>
    /\ i = Len(reported)
    /\ reported[i].kind = "abnormal" => i > 1 /\ reported[i - 1].kind = "error"

WorkerFailed ==
  \/ pc \in {"failed", "error", "abnormal", "done"}
  \/ \E i \in DOMAIN reported : reported[i].kind = "error"

\* bufferedAmount of an open socket is what it sent and has not heard of: in
\* the command queue, in the worker's hands, or reported and not delivered.
BufferedIsUnsent ==
  js = "open" /\ ~Ended /\ ~WorkerFailed =>
    buffered = Texts(commands) + Texts(cmds) + Sents(events) + Sents(batch)
               + (IF pc = "sent" \/ (pc = "writing" /\ frame = "text") THEN 1 ELSE 0)

\* Release ends: whatever the worker is doing, the join returns.
JoinReturns == owner = "joining" ~> owner = "released"

\* What the worker reports reaches the listeners through ready_fn alone, even if
\* it is reported while the owner is draining.
ReportedIsDelivered == terminal ~> owner = "released"

\* A cancelled connection comes to an end.
CancelEnds == cancelRequested ~> terminal \/ stopped

\* So does one that asked for the closing handshake: "10 s connection/upgrade and
\* I/O/close deadlines" (docs/websocket-host.md).
CloseEnds == js = "closing" ~> terminal \/ stopped
=============================================================================
