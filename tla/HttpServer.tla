----------------------------- MODULE HttpServer -----------------------------
(***************************************************************************)
(* One server of node:http: the listener thread and one thread for every   *)
(* connection (src/host_http_server.v), their records on the owner lane    *)
(* (the stream host of src/host_websocket.v, which this module shares with *)
(* WebSocketHost), and the JavaScript objects Server, Socket,              *)
(* ServerResponse and ServerWebSocket (src/web/js/http_server.js).         *)
(*                                                                         *)
(* Every section under a worker's guard is one action, and so is every     *)
(* place where a thread may block.  Requests are parsed already; a body, a *)
(* response and a message are single frames.  JavaScript runs between two  *)
(* deliveries of a drain, which stands for the body of the listener that   *)
(* was called last, and between two drains.                                *)
(***************************************************************************)
EXTENDS Integers, FiniteSets, SequencesExt

CONSTANTS
  Conns,          \* connections that peers make, at most once each
  Requests,       \* those whose peer may send a complete request
  Upgrades,       \* those whose request may ask for an upgrade
  Listener,       \* the listener's worker
  Nobody,         \* no worker
  MaxPending,     \* listener.pending.len, 64 in the code
  MaxConnections, \* server.maxConnections, 64 by default
  Capacity,       \* config.queue_capacity, 64 by default
  MaxCommands,    \* commands that wait for a worker, 64 in the code
  MaxFrames,      \* bound: frames one peer sends after an upgrade
  MaxCalls        \* bound: calls JavaScript makes outside of a listener

ASSUME HttpServerAssumption ==
  /\ IsFiniteSet(Conns) /\ Requests \subseteq Conns /\ Upgrades \subseteq Requests
  /\ Listener \notin Conns /\ Nobody \notin Conns \cup {Listener}
  /\ MaxPending \in Nat \ {0} /\ MaxConnections \in Nat \ {0}
  /\ MaxPending <= Capacity
  /\ Capacity \in Nat \ {0} /\ MaxCommands \in Nat \ {0}
  /\ MaxFrames \in Nat /\ MaxCalls \in Nat

Workers == Conns \cup {Listener}

Event(kind) == [kind |-> kind, conn |-> Nobody]
Accept(c) == [kind |-> "accept", conn |-> c]

VARIABLES
  handle,       \* server._handle is not null
  closing,      \* server._closing
  awaiting,     \* close() was called and "close" has not been emitted since
  sockets,      \* server._sockets
  destroyed,    \* socket.destroyed
  res,          \* the response of a request: "none", "open" or "ended"
  ws,           \* socket._websocket.readyState
  calls,        \* bound counter: calls JavaScript has left
  record,       \* host.records has the worker
  events,       \* worker.events
  terminal, stopped, cancelRequested,  \* the worker's flags
  commands,     \* worker.commands
  wake,         \* a byte waits in the worker's command socket
  target,       \* whose events the owner drains or whom it releases
  joining,      \* the owner waits for target's thread to end
  batch,        \* events the drain took and has not handed over yet
  backlog,      \* connections the listener's socket has yet to accept
  pending,      \* listener.pending
  accepting,    \* the connection the listener is about to report
  pc,           \* where a worker is
  cmds,         \* commands a worker took
  frame,        \* what a worker is writing
  mode,         \* what the connection has become
  closeSent,    \* the connection's local "closing"
  incoming,     \* a frame the worker has read
  wire,         \* frames of the peer on their way, "end": it closes the connection
  sent,         \* bound counter: frames a peer has sent
  out,          \* history: frames written to the peer of a thread that runs
  hasty,        \* history: close() of a websocket that was not open yet
  spent,        \* history: a write consumed the signal of a later command
  threw         \* history: a callback failed

jsVars == <<handle, closing, awaiting, sockets, destroyed, res, ws, hasty>>
ownerVars == <<target, joining, batch, record>>
flagVars == <<terminal, stopped, cancelRequested>>
acceptVars == <<backlog, pending, accepting>>
connVars == <<cmds, frame, mode, closeSent, incoming>>
peerVars == <<wire, sent>>
vars == <<jsVars, calls, ownerVars, events, flagVars, commands, wake, acceptVars,
          pc, connVars, peerVars, out, spent, threw>>

Init ==
  /\ handle = FALSE /\ closing = FALSE /\ awaiting = FALSE /\ sockets = {}
  /\ destroyed = [c \in Conns |-> FALSE]
  /\ res = [c \in Conns |-> "none"]
  /\ ws = [c \in Conns |-> "none"]
  /\ calls = MaxCalls
  /\ record = [w \in Workers |-> FALSE]
  /\ events = [w \in Workers |-> <<>>]
  /\ terminal = [w \in Workers |-> FALSE]
  /\ stopped = [w \in Workers |-> FALSE]
  /\ cancelRequested = [w \in Workers |-> FALSE]
  /\ commands = [c \in Conns |-> <<>>]
  /\ wake = [w \in Workers |-> FALSE]
  /\ target = Nobody /\ joining = FALSE /\ batch = <<>>
  /\ backlog = {} /\ pending = {} /\ accepting = Nobody
  /\ pc = [w \in Workers |-> "none"]
  /\ cmds = [c \in Conns |-> <<>>]
  /\ frame = [c \in Conns |-> "none"]
  /\ mode = [c \in Conns |-> "plain"]
  /\ closeSent = [c \in Conns |-> FALSE]
  /\ incoming = [c \in Conns |-> "none"]
  /\ wire = [c \in Conns |-> <<>>]
  /\ sent = [c \in Conns |-> 0]
  /\ out = [c \in Conns |-> <<>>]
  /\ hasty = [c \in Conns |-> FALSE]
  /\ spent = [c \in Conns |-> FALSE]
  /\ threw = FALSE

-----------------------------------------------------------------------------
(* The native functions of the owner lane. *)

\* Mutant of Stop: the flag alone.
StopSilently(ws_) ==
  LET live == {w \in ws_ : record[w]}
  IN  /\ cancelRequested' = [w \in Workers |-> cancelRequested[w] \/ w \in live]
      /\ UNCHANGED wake

\* native.stop of the workers in ws_: a flag and a signal, if there is a record.
Stop(ws_) ==
  LET live == {w \in ws_ : record[w]}
  IN  /\ cancelRequested' = [w \in Workers |-> cancelRequested[w] \/ w \in live]
      /\ wake' = [w \in Workers |-> wake[w] \/ w \in live]

\* native.send refuses.
Refuses(c) ==
  ~record[c] \/ stopped[c] \/ terminal[c] \/ Len(commands[c]) >= MaxCommands

\* native.send of a command that is not refused.
Send(c, kind) ==
  /\ ~Refuses(c)
  /\ commands' = [commands EXCEPT ![c] = Append(@, kind)]
  /\ wake' = [wake EXCEPT ![c] = TRUE]

-----------------------------------------------------------------------------
(* What the application does with a server and its sockets. *)

JsRuns == ~joining

ApiCall ==
  /\ JsRuns
  /\ calls > 0
  /\ calls' = calls - 1

\* What stays as it is in every call and every delivery.
Workings == <<events, terminal, stopped, backlog, accepting, pc, connVars, peerVars,
              out, spent>>

\* Server._maybeClose over the handle and the sockets as they are by then: it
\* emits "close".
MaybeClose(handle_, sockets_) ==
  LET over == closing /\ ~handle_ /\ sockets_ = {}
  IN  /\ closing' = (closing /\ ~over)
      /\ awaiting' = (awaiting /\ ~over)

\* server.listen: native.listen registers the record and spawns the listener.
Listen ==
  /\ JsRuns
  /\ ~handle /\ ~closing /\ pc[Listener] = "none"
  /\ handle' = TRUE
  /\ record' = [record EXCEPT ![Listener] = TRUE]
  /\ pc' = [pc EXCEPT ![Listener] = "waiting"]
  /\ backlog' = Conns
  /\ UNCHANGED <<closing, awaiting, sockets, destroyed, res, ws, hasty, calls, target,
                 joining, batch, events, flagVars, commands, wake, pending, accepting,
                 connVars, peerVars, out, spent, threw>>

\* Server.close: the listener is stopped, or "close" is emitted if nothing is left.
CloseServer ==
  IF handle
  THEN closing' = TRUE /\ awaiting' = TRUE
  ELSE LET over == sockets = {} IN closing' = ~over /\ awaiting' = ~over

\* socket.destroy for the sockets in cs; a socket is destroyed once.
NewlyDestroyed(cs) == {c \in cs : ~destroyed[c]}
Destroyed(cs) == destroyed' = [c \in Conns |-> destroyed[c] \/ c \in cs]

\* server.close(callback), possibly after server.closeAllConnections().
Close(cs) ==
  /\ ApiCall
  /\ CloseServer
  /\ Destroyed(cs)
  /\ Stop(NewlyDestroyed(cs) \cup (IF handle THEN {Listener} ELSE {}))
  /\ UNCHANGED <<handle, sockets, res, ws, hasty, ownerVars, commands, pending, threw,
                 Workings>>

\* socket.destroy.
Destroy(c) ==
  /\ ApiCall
  /\ Destroyed({c}) /\ Stop(NewlyDestroyed({c}))
  /\ UNCHANGED <<handle, closing, awaiting, sockets, res, ws, hasty, ownerVars,
                 commands, pending, threw, Workings>>

\* response.end after the request's listener returned.
Respond(c) ==
  /\ ApiCall
  /\ res[c] = "open"
  /\ Send(c, "end")
  /\ res' = [res EXCEPT ![c] = "ended"]
  /\ UNCHANGED <<handle, closing, awaiting, sockets, destroyed, ws, hasty, ownerVars,
                 cancelRequested, pending, threw, Workings>>

\* socket.write and socket.end.
SocketSend(c, kind) ==
  /\ ApiCall
  /\ Send(c, kind)
  /\ UNCHANGED <<jsVars, ownerVars, cancelRequested, pending, threw, Workings>>

\* ServerWebSocket.send; it throws once the socket is closing, or if the command
\* is refused.
WsSend(c) == ws[c] \in {"connecting", "open"} /\ Send(c, "text")

\* Mutant of WsClose: readyState stays as it is.
WsCloseKeepsState(c) ==
  /\ ws[c] \in {"connecting", "open"}
  /\ UNCHANGED ws
  /\ hasty' = [hasty EXCEPT ![c] = @ \/ ws[c] = "connecting"]
  /\ \/ Send(c, "close") /\ UNCHANGED <<destroyed, cancelRequested>>
     \/ Refuses(c) /\ Destroyed({c}) /\ Stop(NewlyDestroyed({c})) /\ UNCHANGED commands

\* ServerWebSocket.close; a command that is refused destroys the socket.
WsClose(c) ==
  /\ ws[c] \in {"connecting", "open"}
  /\ ws' = [ws EXCEPT ![c] = "closing"]
  /\ hasty' = [hasty EXCEPT ![c] = @ \/ ws[c] = "connecting"]
  /\ \/ Send(c, "close") /\ UNCHANGED <<destroyed, cancelRequested>>
     \/ Refuses(c) /\ Destroyed({c}) /\ Stop(NewlyDestroyed({c})) /\ UNCHANGED commands

\* Both called outside of a listener.
WebSocketCall(c) ==
  /\ ApiCall
  /\ \/ WsSend(c) /\ UNCHANGED <<ws, hasty, destroyed, cancelRequested>>
     \/ WsClose(c)
  /\ UNCHANGED <<handle, closing, awaiting, sockets, res, ownerVars, pending, threw,
                 Workings>>

-----------------------------------------------------------------------------
(* The drain: websocket_drain calls the record's callback for every event   *)
(* it took.  A callback that fails ends the drain with websocket_release.   *)

\* What the owner hands over next: the rest of a drain, or what a drain of w
\* would take now.
Taken(w) == IF target = Nobody THEN events[w] ELSE batch

\* w's callback is called with an event of this kind.
Delivering(w, kind) ==
  /\ ~joining /\ record[w] /\ target \in {Nobody, w}
  /\ Taken(w) # <<>> /\ Head(Taken(w)).kind = kind
  /\ events' = IF target = Nobody THEN [events EXCEPT ![w] = <<>>] ELSE events

\* It returns.  "close" is the last event, and the record is released after it.
Returns(w) ==
  /\ batch' = Tail(Taken(w))
  /\ joining' = (Head(Taken(w)).kind = "close")
  /\ target' = IF batch' # <<>> \/ joining' THEN w ELSE Nobody
  /\ UNCHANGED threw

\* Mutant of Escapes: the record stays.
EscapesKeepsRecord(w) ==
  /\ batch' = <<>>
  /\ joining' = FALSE
  /\ target' = Nobody
  /\ threw' = TRUE

\* It fails: the rest of the batch is dropped and the record released.
Escapes(w) ==
  /\ batch' = <<>>
  /\ joining' = TRUE
  /\ target' = w
  /\ threw' = TRUE

\* What no delivery changes.
Elsewhere == <<calls, terminal, stopped, backlog, accepting, connVars, peerVars, out,
               spent>>

\* The server does not want another socket.
TooMany(sockets_) == closing \/ Cardinality(sockets_) > MaxConnections

\* Server._accept.  native.connection takes the connection out of the pending
\* ones and spawns its thread.  It throws, and "clientError" is emitted, if the
\* listener's thread has closed the connection or no record can be made.
DeliverAccept(w) ==
  /\ Delivering(w, "accept")
  /\ LET c == Head(Taken(w)).conn
         refused == TooMany(sockets \cup {c})
     IN  /\ pending' = pending \ {c}
         /\ \/ /\ c \in pending
               /\ record' = [record EXCEPT ![c] = TRUE]
               /\ pc' = [pc EXCEPT ![c] = "reading"]
               /\ sockets' = sockets \cup {c}
               /\ destroyed' = [destroyed EXCEPT ![c] = refused]
               /\ cancelRequested' = [cancelRequested EXCEPT ![c] = refused]
               /\ wake' = [wake EXCEPT ![c] = refused]
            \/ UNCHANGED <<record, pc, sockets, destroyed, cancelRequested, wake>>
  /\ Returns(w)
  /\ UNCHANGED <<handle, closing, awaiting, res, ws, hasty, commands, Elsewhere>>

\* A request.  Its listener answers at once, or keeps the response for later,
\* as an async function does.  If it throws the answer is 500.  An answer that
\* is refused throws inside the listener, and again in the handler for that.
DeliverRequest(w) ==
  /\ Delivering(w, "request")
  /\ \/ /\ res' = [res EXCEPT ![w] = "ended"]
        /\ Send(w, "end")
        /\ Returns(w)
     \/ /\ res' = [res EXCEPT ![w] = "open"]
        /\ UNCHANGED <<commands, wake>>
        /\ Returns(w) \/ (Refuses(w) /\ Escapes(w))
  /\ UNCHANGED <<handle, closing, awaiting, sockets, destroyed, ws, hasty, record,
                 cancelRequested, pending, pc, Elsewhere>>

\* socket.acceptWebSocket; it throws if the command is refused, and the object
\* stays.
AcceptWebSocket(c) ==
  /\ ws' = [ws EXCEPT ![c] = "connecting"]
  /\ Send(c, "websocket") \/ (Refuses(c) /\ UNCHANGED <<commands, wake>>)

\* An upgrade.  Its listener may accept a websocket.  Without a listener the
\* socket is destroyed.
DeliverUpgrade(w) ==
  /\ Delivering(w, "upgrade")
  /\ \/ Returns(w) /\ UNCHANGED <<ws, commands, destroyed, cancelRequested, wake>>
     \/ /\ AcceptWebSocket(w)
        /\ IF Refuses(w) THEN Escapes(w) ELSE Returns(w)
        /\ UNCHANGED <<destroyed, cancelRequested>>
     \/ /\ Destroyed({w}) /\ Stop(NewlyDestroyed({w})) /\ Returns(w)
        /\ UNCHANGED <<ws, commands>>
  /\ UNCHANGED <<handle, closing, awaiting, sockets, res, hasty, record, pending, pc,
                 Elsewhere>>

\* The websocket is open, whatever the application did in the meantime.
DeliverOpen(w) ==
  /\ Delivering(w, "open")
  /\ ws' = [ws EXCEPT ![w] = "open"]
  /\ Returns(w)
  /\ UNCHANGED <<handle, closing, awaiting, sockets, destroyed, res, hasty, record,
                 cancelRequested, commands, wake, pending, pc, Elsewhere>>

\* A message.  Its listener may answer or close the websocket.
DeliverMessage(w) ==
  /\ Delivering(w, "text")
  /\ Returns(w)
  /\ \/ WsSend(w) /\ UNCHANGED <<ws, hasty, destroyed, cancelRequested>>
     \/ WsClose(w)
     \/ UNCHANGED <<commands, wake, ws, hasty, destroyed, cancelRequested>>
  /\ UNCHANGED <<handle, closing, awaiting, sockets, res, record, pending, pc, Elsewhere>>

\* Data after a raw upgrade, or an error.
DeliverOther(w) ==
  /\ Delivering(w, "data") \/ Delivering(w, "error")
  /\ Returns(w)
  /\ UNCHANGED <<handle, closing, awaiting, sockets, destroyed, res, ws, hasty, record,
                 cancelRequested, commands, wake, pending, pc, Elsewhere>>

\* The end of a connection.
DeliverClose(w) ==
  /\ Delivering(w, "close") /\ w # Listener
  /\ Returns(w)
  /\ sockets' = sockets \ {w}
  /\ destroyed' = [destroyed EXCEPT ![w] = TRUE]
  /\ ws' = [ws EXCEPT ![w] = IF @ = "none" THEN @ ELSE "closed"]
  /\ MaybeClose(handle, sockets')
  /\ UNCHANGED <<handle, res, hasty, record, cancelRequested, commands, wake, pending, pc,
                 Elsewhere>>

\* The end of the listener.
DeliverListenerClose(w) ==
  /\ Delivering(w, "close") /\ w = Listener
  /\ Returns(w)
  /\ handle' = FALSE
  /\ MaybeClose(FALSE, sockets)
  /\ UNCHANGED <<sockets, destroyed, res, ws, hasty, record, cancelRequested, commands,
                 wake, pending, pc, Elsewhere>>

\* websocket_release: stop(), wait for the thread, delete the record, and with it
\* what is left in the worker.  A socket that was closed is not used any more.
ReleaseStops ==
  /\ joining /\ ~stopped[target]
  /\ stopped' = [stopped EXCEPT ![target] = TRUE]
  /\ wake' = [wake EXCEPT ![target] = TRUE]
  /\ UNCHANGED <<jsVars, calls, ownerVars, events, terminal, cancelRequested, commands,
                 acceptVars, pc, connVars, peerVars, out, spent, threw>>

ReleaseEnds ==
  /\ joining /\ stopped[target] /\ pc[target] = "done"
  /\ record' = [record EXCEPT ![target] = FALSE]
  /\ joining' = FALSE
  /\ target' = Nobody
  /\ events' = [events EXCEPT ![target] = <<>>]
  /\ commands' = [c \in Conns |-> IF c = target THEN <<>> ELSE commands[c]]
  /\ wake' = [wake EXCEPT ![target] = FALSE]
  /\ IF target \in Conns \ sockets
     THEN /\ destroyed' = [destroyed EXCEPT ![target] = FALSE]
          /\ res' = [res EXCEPT ![target] = "none"]
          /\ ws' = [ws EXCEPT ![target] = "none"]
          /\ hasty' = [hasty EXCEPT ![target] = FALSE]
     ELSE UNCHANGED <<destroyed, res, ws, hasty>>
  /\ UNCHANGED <<handle, closing, awaiting, sockets, calls, batch, flagVars, acceptVars,
                 pc, connVars, peerVars, out, spent, threw>>

-----------------------------------------------------------------------------
(* What the threads have in common. *)

Emitted(w, event) ==
  IF event.kind # "close" /\ Len(events[w]) >= Capacity
  THEN <<Event("error"), Event("close")>> ELSE <<event>>

\* worker.emit: the thread goes on at next, or at refusedNext if emit returned
\* false.
Emit(w, event, next, refusedNext) ==
  IF stopped[w] \/ terminal[w]
  THEN pc' = [pc EXCEPT ![w] = refusedNext] /\ UNCHANGED <<events, terminal>>
  ELSE LET emitted == Emitted(w, event)
       IN  /\ events' = [events EXCEPT ![w] = @ \o emitted]
           /\ terminal' = [terminal EXCEPT ![w] = Last(emitted).kind = "close"]
           /\ pc' = [pc EXCEPT ![w] = IF emitted = <<event>> THEN next ELSE refusedNext]

\* What no thread changes.
OwnerSide == <<jsVars, calls, ownerVars, stopped, cancelRequested, threw>>

-----------------------------------------------------------------------------
(* http_listener_run. *)

\* The flags are read under the lock when the wait returns.
ListenerWoken ==
  /\ pc[Listener] = "waiting" /\ wake[Listener]
  /\ wake' = [wake EXCEPT ![Listener] = FALSE]
  /\ pc' = [pc EXCEPT ![Listener] =
       IF stopped[Listener] \/ cancelRequested[Listener] THEN "leaving" ELSE "waiting"]
  /\ UNCHANGED <<OwnerSide, events, terminal, commands, acceptVars, connVars, peerVars,
                 out, spent>>

\* Mutant of ListenerAccepts: one more.
ListenerAcceptsOneMore(c) ==
  /\ pc[Listener] = "waiting" /\ ~wake[Listener] /\ c \in backlog
  /\ backlog' = backlog \ {c}
  /\ IF Cardinality(pending) > MaxPending
     THEN UNCHANGED <<pending, accepting, pc>>
     ELSE /\ pending' = pending \cup {c}
          /\ accepting' = c
          /\ pc' = [pc EXCEPT ![Listener] = "accepted"]
  /\ UNCHANGED <<OwnerSide, events, terminal, commands, wake, connVars, peerVars, out,
                 spent>>

\* A connection is accepted, and closed at once if too many are pending.
ListenerAccepts(c) ==
  /\ pc[Listener] = "waiting" /\ ~wake[Listener] /\ c \in backlog
  /\ backlog' = backlog \ {c}
  /\ IF Cardinality(pending) >= MaxPending
     THEN UNCHANGED <<pending, accepting, pc>>
     ELSE /\ pending' = pending \cup {c}
          /\ accepting' = c
          /\ pc' = [pc EXCEPT ![Listener] = "accepted"]
  /\ UNCHANGED <<OwnerSide, events, terminal, commands, wake, connVars, peerVars, out,
                 spent>>

ListenerReports ==
  /\ pc[Listener] = "accepted"
  /\ Emit(Listener, Accept(accepting), "waiting", "leaving")
  /\ accepting' = Nobody
  /\ UNCHANGED <<OwnerSide, commands, wake, backlog, pending, connVars, peerVars, out,
                 spent>>

\* The defer block: the socket and every pending connection are closed.
ListenerLeaves ==
  /\ pc[Listener] = "leaving"
  /\ backlog' = {} /\ pending' = {}
  /\ pc' = [pc EXCEPT ![Listener] = "closing"]
  /\ UNCHANGED <<OwnerSide, events, terminal, commands, wake, accepting, connVars,
                 peerVars, out, spent>>

ListenerCloses ==
  /\ pc[Listener] = "closing"
  /\ Emit(Listener, Event("close"), "done", "done")
  /\ UNCHANGED <<OwnerSide, commands, wake, acceptVars, connVars, peerVars, out, spent>>

-----------------------------------------------------------------------------
(* http_connection_run and http_connection_serve. *)

\* What a step of c's thread leaves alone besides the owner's side.
Others == <<OwnerSide, acceptVars, peerVars>>

Goes(c, next) == pc' = [pc EXCEPT ![c] = next]

\* WebSocketIO.wait, woken inside a read or a write: it empties the socket and
\* looks at the flags, not at the commands.
IoWoken(c) ==
  /\ pc[c] \in {"reading", "writing"} /\ wake[c]
  /\ wake' = [wake EXCEPT ![c] = FALSE]
  /\ Goes(c, IF stopped[c] \/ cancelRequested[c] THEN "failing" ELSE pc[c])
  /\ spent' = [spent EXCEPT ![c] = @ \/ (pc[c] = "writing" /\ commands[c] # <<>>)]
  /\ UNCHANGED <<Others, events, terminal, commands, connVars, out>>

\* The request is complete and is handed to JavaScript.
ReadRequest(c, kind) ==
  /\ pc[c] = "reading"
  /\ c \in Requests /\ (kind = "upgrade" => c \in Upgrades)
  /\ mode' = [mode EXCEPT ![c] = IF kind = "upgrade" THEN "upgrade" ELSE "plain"]
  /\ Emit(c, Event(kind), "loop", "leaving")
  /\ UNCHANGED <<Others, commands, wake, cmds, frame, closeSent, incoming, out, spent>>

\* The request is malformed, too large, cut short or late; or the peer left
\* without one; or it is chunked, which is answered with 501.
ReadFails(c) ==
  /\ pc[c] = "reading"
  /\ Goes(c, "failing") \/ Goes(c, "leaving")
  /\ UNCHANGED <<Others, events, terminal, commands, wake, connVars, out, spent>>

\* Where the next command of a batch leads: to a write, or it is invalid here;
\* without one to what the peer sent, or to the wait.
NextPlace(c, batch_, mode_) ==
  IF batch_ = <<>> THEN IF incoming[c] = "none" THEN "waiting" ELSE "incoming"
  ELSE LET command == Head(batch_)
       IN  CASE command = "websocket" /\ mode_ = "plain" -> "failing"
             [] command = "text" /\ mode_ # "websocket" -> "failing"
             [] command = "close" /\ mode_ # "websocket" -> "leaving"
             [] OTHER -> "writing"

\* The next command of a batch becomes the frame to be written.
Takes(c, batch_) ==
  IF batch_ = <<>>
  THEN cmds' = [cmds EXCEPT ![c] = <<>>] /\ frame' = [frame EXCEPT ![c] = "none"]
  ELSE cmds' = [cmds EXCEPT ![c] = Tail(batch_)] /\ frame' = [frame EXCEPT ![c] = Head(batch_)]

\* The top of the loop, under the lock.
TakeCommands(c) ==
  /\ pc[c] = "loop"
  /\ commands' = [commands EXCEPT ![c] = <<>>]
  /\ wake' = [wake EXCEPT ![c] = FALSE]
  /\ IF stopped[c] \/ cancelRequested[c]
     THEN Goes(c, "leaving") /\ UNCHANGED <<cmds, frame>>
     ELSE Goes(c, NextPlace(c, commands[c], mode[c])) /\ Takes(c, commands[c])
  /\ UNCHANGED <<Others, events, terminal, mode, closeSent, incoming, out, spent>>

\* Mutant of AfterWrite: the end of a response is a write like any other.
AfterWriteGoesOn(c, mode_) ==
  CASE frame[c] = "websocket" -> "opening"
    [] frame[c] = "closeReply" -> "clean"
    [] frame[c] = "failClose" -> "failing"
    [] OTHER -> NextPlace(c, cmds[c], mode_)

\* Where a connection goes after it wrote a frame: to the next command, or on.
AfterWrite(c, mode_) ==
  CASE frame[c] = "websocket" -> "opening"
    [] frame[c] = "end" -> "leaving"
    [] frame[c] = "closeReply" -> "clean"
    [] frame[c] = "failClose" -> "failing"
    [] OTHER -> NextPlace(c, cmds[c], mode_)

WriteDone(c) ==
  /\ pc[c] = "writing"
  /\ out' = [out EXCEPT ![c] = Append(@, frame[c])]
  /\ mode' = [mode EXCEPT ![c] = CASE frame[c] = "websocket" -> "websocket"
                                   [] frame[c] \in {"write", "end"} /\ @ = "upgrade" -> "raw"
                                   [] OTHER -> @]
  /\ closeSent' = [closeSent EXCEPT ![c] = @ \/ frame[c] = "close"]
  /\ Goes(c, AfterWrite(c, mode'[c]))
  /\ IF frame[c] \in {"write", "text", "close"} THEN Takes(c, cmds[c])
     ELSE frame' = [frame EXCEPT ![c] = "none"] /\ UNCHANGED cmds
  /\ UNCHANGED <<Others, events, terminal, commands, wake, incoming, spent>>

\* The peer does not take the frame in time, or is gone.
WriteFails(c) ==
  /\ pc[c] = "writing"
  /\ Goes(c, "failing")
  /\ UNCHANGED <<Others, events, terminal, commands, wake, connVars, out, spent>>

Opened(c) ==
  /\ pc[c] = "opening"
  /\ Emit(c, Event("open"), NextPlace(c, cmds[c], mode[c]), "leaving")
  /\ Takes(c, cmds[c])
  /\ UNCHANGED <<Others, commands, wake, mode, closeSent, incoming, out, spent>>

\* A message of the peer is reported unless the closing handshake has begun;
\* after a raw upgrade everything is data.
IncomingMessage(c) ==
  /\ pc[c] = "incoming" /\ (incoming[c] = "text" \/ mode[c] = "raw")
  /\ incoming' = [incoming EXCEPT ![c] = "none"]
  /\ IF closeSent[c] /\ mode[c] = "websocket"
     THEN Goes(c, "waiting") /\ UNCHANGED <<events, terminal>>
     ELSE Emit(c, Event(IF mode[c] = "raw" THEN "data" ELSE "text"), "waiting", "leaving")
  /\ UNCHANGED <<Others, commands, wake, cmds, frame, mode, closeSent, out, spent>>

\* A Close frame is answered unless it answers ours; a bad frame always is.
IncomingControl(c) ==
  /\ pc[c] = "incoming" /\ incoming[c] \in {"close", "bad"} /\ mode[c] = "websocket"
  /\ incoming' = [incoming EXCEPT ![c] = "none"]
  /\ frame' = [frame EXCEPT ![c] = IF incoming[c] = "bad" THEN "failClose" ELSE "closeReply"]
  /\ Goes(c, IF incoming[c] = "close" /\ closeSent[c] THEN "clean" ELSE "writing")
  /\ UNCHANGED <<Others, events, terminal, commands, wake, cmds, mode, closeSent, out,
                 spent>>

Clean(c) ==
  /\ pc[c] = "clean"
  /\ Emit(c, Event("close"), "leaving", "leaving")
  /\ UNCHANGED <<Others, commands, wake, connVars, out, spent>>

\* The wait at the bottom of the loop.  A plain connection watches its commands
\* for 30 seconds, an upgraded one also the peer and without a limit, unless it
\* has sent a Close frame.
WaitWoken(c) ==
  /\ pc[c] = "waiting" /\ wake[c]
  /\ Goes(c, "loop")
  /\ UNCHANGED <<Others, events, terminal, commands, wake, connVars, out, spent>>

Upgraded(c) == mode[c] \in {"raw", "websocket"}

WaitReads(c) ==
  /\ pc[c] = "waiting" /\ Upgraded(c) /\ wire[c] # <<>>
  /\ wire' = [wire EXCEPT ![c] = Tail(@)]
  /\ IF Head(wire[c]) = "end"
     THEN (Goes(c, "leaving") \/ Goes(c, "failing")) /\ UNCHANGED incoming
     ELSE Goes(c, "loop") /\ incoming' = [incoming EXCEPT ![c] = Head(wire[c])]
  /\ UNCHANGED <<OwnerSide, acceptVars, sent, events, terminal, commands, wake, cmds,
                 frame, mode, closeSent, out, spent>>

\* The handshake takes too long, or the answer of a plain connection.
WaitEnds(c) ==
  /\ pc[c] = "waiting"
  /\ \/ closeSent[c] /\ Goes(c, "leaving")
     \/ ~Upgraded(c) /\ ~closeSent[c] /\ Goes(c, "failing")
  /\ UNCHANGED <<Others, events, terminal, commands, wake, connVars, out, spent>>

\* An error is reported, unless the owner has stopped the thread.
Fails(c) ==
  /\ pc[c] = "failing"
  /\ Emit(c, Event("error"), "leaving", "leaving")
  /\ UNCHANGED <<Others, commands, wake, connVars, out, spent>>

\* The connection is closed, and that is reported last.  The thread ends.
ConnectionLeaves(c) ==
  /\ pc[c] = "leaving"
  /\ Emit(c, Event("close"), "done", "done")
  /\ cmds' = [cmds EXCEPT ![c] = <<>>]
  /\ frame' = [frame EXCEPT ![c] = "none"]
  /\ incoming' = [incoming EXCEPT ![c] = "none"]
  /\ mode' = [mode EXCEPT ![c] = "plain"]
  /\ closeSent' = [closeSent EXCEPT ![c] = FALSE]
  /\ wire' = [wire EXCEPT ![c] = <<>>]
  /\ sent' = [sent EXCEPT ![c] = 0]
  /\ out' = [out EXCEPT ![c] = <<>>]
  /\ spent' = [spent EXCEPT ![c] = FALSE]
  /\ UNCHANGED <<OwnerSide, acceptVars, commands, wake>>

-----------------------------------------------------------------------------
(* The peer of an upgraded connection. *)

PeerSends(c, kind) ==
  /\ Upgraded(c) /\ sent[c] < MaxFrames
  /\ ~Contains(wire[c], "end")
  /\ sent' = [sent EXCEPT ![c] = @ + 1]
  /\ wire' = [wire EXCEPT ![c] = Append(@, kind)]
  /\ UNCHANGED <<OwnerSide, acceptVars, events, terminal, commands, wake, pc, connVars,
                 out, spent>>

-----------------------------------------------------------------------------
Application ==
  \/ Listen
  \/ \E cs \in {{}, sockets} : Close(cs)
  \/ \E c \in sockets :
       \/ Destroy(c)
       \/ Respond(c)
       \/ \E kind \in {"write", "end"} : SocketSend(c, kind)
       \/ WebSocketCall(c)

Deliver(w) ==
  \/ DeliverAccept(w)
  \/ DeliverRequest(w)
  \/ DeliverUpgrade(w)
  \/ DeliverOpen(w)
  \/ DeliverMessage(w)
  \/ DeliverOther(w)
  \/ DeliverClose(w)
  \/ DeliverListenerClose(w)

OwnerStep ==
  \/ \E w \in Workers : Deliver(w)
  \/ ReleaseStops
  \/ ReleaseEnds

ListenerStep ==
  \/ ListenerWoken
  \/ \E c \in Conns : ListenerAccepts(c)
  \/ ListenerReports
  \/ ListenerLeaves
  \/ ListenerCloses

ConnectionStep(c) ==
  \/ IoWoken(c)
  \/ \E kind \in {"request", "upgrade"} : ReadRequest(c, kind)
  \/ ReadFails(c)
  \/ TakeCommands(c)
  \/ WriteDone(c)
  \/ WriteFails(c)
  \/ Opened(c)
  \/ IncomingMessage(c)
  \/ IncomingControl(c)
  \/ Clean(c)
  \/ WaitWoken(c)
  \/ WaitReads(c)
  \/ WaitEnds(c)
  \/ Fails(c)
  \/ ConnectionLeaves(c)

Peer(c) == \E kind \in {"text", "close", "bad", "end"} : PeerSends(c, kind)

Next ==
  \/ Application
  \/ OwnerStep
  \/ ListenerStep
  \/ \E c \in Conns : ConnectionStep(c) \/ Peer(c)

\* The threads are scheduled and the owner drains what it was told of.
Fairness ==
  /\ WF_vars(OwnerStep)
  /\ WF_vars(ListenerStep)
  /\ \A c \in Conns : WF_vars(ConnectionStep(c))

Spec == Init /\ [][Next]_vars
FairSpec == Spec /\ Fairness

-----------------------------------------------------------------------------
Kinds == {"accept", "request", "upgrade", "open", "text", "data", "error", "close"}
Frames == {"write", "end", "websocket", "text", "close", "closeReply", "failClose"}
CommandKinds == {"write", "end", "websocket", "text", "close"}
PeerFrames == {"text", "close", "bad", "end"}
WorkerSteps ==
  {"none", "waiting", "accepted", "reading", "loop", "writing", "opening",
   "incoming", "clean", "failing", "leaving", "closing", "done"}

TypeOK ==
  /\ {handle, closing, awaiting, joining, threw} \subseteq BOOLEAN
  /\ sockets \subseteq Conns
  /\ {destroyed, closeSent, hasty, spent} \subseteq [Conns -> BOOLEAN]
  /\ {record, terminal, stopped, cancelRequested, wake} \subseteq [Workers -> BOOLEAN]
  /\ res \in [Conns -> {"none", "open", "ended"}]
  /\ ws \in [Conns -> {"none", "connecting", "open", "closing", "closed"}]
  /\ calls \in 0 .. MaxCalls /\ sent \in [Conns -> 0 .. MaxFrames]
  /\ events \in [Workers -> Seq([kind : Kinds, conn : Conns \cup {Nobody}])]
  /\ batch \in Seq([kind : Kinds, conn : Conns \cup {Nobody}])
  /\ target \in Workers \cup {Nobody}
  /\ backlog \subseteq Conns /\ pending \subseteq Conns
  /\ accepting \in Conns \cup {Nobody}
  /\ pc \in [Workers -> WorkerSteps]
  /\ {commands, cmds} \subseteq [Conns -> Seq(CommandKinds)]
  /\ frame \in [Conns -> Frames \cup {"none"}]
  /\ mode \in [Conns -> {"plain", "upgrade", "raw", "websocket"}]
  /\ incoming \in [Conns -> PeerFrames \cup {"none"}]
  /\ wire \in [Conns -> Seq(PeerFrames)]
  /\ out \in [Conns -> Seq(Frames)]

Queued(w, event) == Contains(events[w], event) \/ (target = w /\ Contains(batch, event))

\* An accepted connection is always in somebody's hands: the listener is about to
\* report it, its "accept" is on the way to JavaScript, or the listener ends and
\* closes it; and the limit on pending connections keeps the listener's queue from
\* overflowing, which would end the listener (host_http_server.v:57-88).
PendingHasAccept ==
  /\ \A c \in pending :
       \/ accepting = c
       \/ Queued(Listener, Accept(c))
       \/ pc[Listener] = "leaving"
  /\ terminal[Listener] => pc[Listener] = "done"

\* server.maxConnections bounds the sockets in use: one too many is destroyed
\* before its listener sees it (http_server.js:127).
ConnectionsBounded == Cardinality({c \in sockets : ~destroyed[c]}) <= MaxConnections

\* Both limits hold, one in the listener's thread and one in JavaScript.
LimitsHold == PendingHasAccept /\ ConnectionsBounded

\* The record of a thread that has ended is about to be released, and a server
\* keeps a socket, or its handle, only as long as the thread behind it can still
\* report its end: without a failing callback nothing is left for good
\* (http_server.js:88-91,119-122, host_websocket.v:257-280).
EndIsAnnounced ==
  /\ \A w \in Workers :
       record[w] /\ pc[w] = "done" => Queued(w, Event("close")) \/ (target = w /\ joining)
  /\ ~threw => sockets \subseteq {c \in Conns : record[c]} /\ (handle => record[Listener])

\* No message is written behind a Close frame, if close() is called on an open
\* websocket: "open" sets readyState back to 1 whatever it was by then
\* (http_server.js:36-42,115).
NoDataAfterClose ==
  \A c \in Conns : ~hasty[c] =>
    \A i, j \in DOMAIN out[c] :
      out[c][i] \in {"close", "closeReply", "failClose"} /\ out[c][j] = "text" => j < i

\* Every thread ends.  A response, once ended, ends its connection, whatever else
\* is written to it, unless the command is queued during a blocking write, whose
\* wait spends the signal (host_websocket_io.c.v:74-81); and the owner never
\* waits in vain for a thread that was stopped (host_websocket.v:244-255).
ThreadsEnd ==
  /\ \A c \in Conns : Contains(commands[c], "end") ~> pc[c] = "done" \/ spent[c]
  /\ joining ~> ~joining

\* server.close() calls back when the last connection is gone, and it goes if it
\* was destroyed, accepted meanwhile, or not upgraded; unless a callback failed.
ServerCloseCompletes ==
  (awaiting /\ \A c \in sockets : destroyed[c] \/ c \notin Upgrades) ~> ~awaiting \/ threw

\* The same whatever happens, as
\* tests/integration/http_server/server.mjs:4 has it: "server.closeAllConnections();
\* server.close(()=>console.log('CLOSED'))".
ServerCloseEnds == (awaiting /\ \A c \in sockets : destroyed[c]) ~> ~awaiting
=============================================================================
