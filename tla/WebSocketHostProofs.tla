------------------------- MODULE WebSocketHostProofs -------------------------
(* Proofs about WebSocketHost for queues of every size, every number of     *)
(* sends and every number of frames of the peer.                            *)
EXTENDS WebSocketHost, FiniteSetTheorems, SequenceTheorems, TLAPS

-----------------------------------------------------------------------------
(* Counting in a sequence: Count is the size of a set of indices. The       *)
(* lemmas are about the sequence's elements in a set K.                     *)

Places(s, K) == {i \in DOMAIN s : s[i] \in K}
Tally(s, K) == Cardinality(Places(s, K))

LEMMA TallyType ==
  ASSUME NEW S, NEW s \in Seq(S), NEW K
  PROVE  IsFiniteSet(Places(s, K)) /\ Tally(s, K) \in Nat
<1>1. IsFiniteSet(1 .. Len(s))
  BY FS_Interval
<1>2. Places(s, K) \in SUBSET (1 .. Len(s))
  BY DEF Places
<1>3. IsFiniteSet(Places(s, K))
  BY <1>1, <1>2, FS_Subset
<1> QED BY <1>3, FS_CardinalityType DEF Tally

LEMMA TallyEmpty ==
  ASSUME NEW K
  PROVE  Tally(<<>>, K) = 0
<1>1. Places(<<>>, K) = {}
  BY DEF Places
<1> QED BY <1>1, FS_EmptySet DEF Tally

LEMMA TallyAppend ==
  ASSUME NEW S, NEW s \in Seq(S), NEW x \in S, NEW K
  PROVE  Tally(Append(s, x), K) = Tally(s, K) + (IF x \in K THEN 1 ELSE 0)
<1>1. IsFiniteSet(Places(s, K)) /\ Tally(s, K) \in Nat
  BY TallyType
<1>2. Len(s) + 1 \notin Places(s, K)
  BY DEF Places
<1>3. CASE x \in K
  <2>1. Places(Append(s, x), K) = Places(s, K) \cup {Len(s) + 1}
    BY <1>3 DEF Places
  <2> QED BY <1>1, <1>2, <1>3, <2>1, FS_AddElement DEF Tally
<1>4. CASE x \notin K
  <2>1. Places(Append(s, x), K) = Places(s, K)
    BY <1>4 DEF Places
  <2> QED BY <1>1, <1>4, <2>1 DEF Tally
<1> QED BY <1>3, <1>4

LEMMA TallyTail ==
  ASSUME NEW S, NEW s \in Seq(S), s # <<>>, NEW K
  PROVE  Tally(Tail(s), K) = Tally(s, K) - (IF Head(s) \in K THEN 1 ELSE 0)
<1> DEFINE Rest == Places(s, K) \ {1}
           next == [i \in Places(Tail(s), K) |-> i + 1]
<1>1. /\ Tail(s) \in Seq(S) /\ Len(Tail(s)) = Len(s) - 1
      /\ \A i \in 1 .. Len(Tail(s)) : Tail(s)[i] = s[i + 1]
  BY HeadTailProperties
<1>2. IsFiniteSet(Places(Tail(s), K)) /\ IsFiniteSet(Places(s, K))
      /\ Tally(s, K) \in Nat
  BY <1>1, TallyType
<1>3. next \in Bijection(Places(Tail(s), K), Rest)
  <2>1. next \in [Places(Tail(s), K) -> Rest]
    BY <1>1 DEF Places
  <2>2. \A i, j \in Places(Tail(s), K) : next[i] = next[j] => i = j
    BY <1>1 DEF Places
  <2>3. \A j \in Rest : \E i \in Places(Tail(s), K) : next[i] = j
    <3> SUFFICES ASSUME NEW j \in Rest
                 PROVE  j - 1 \in Places(Tail(s), K) /\ next[j - 1] = j
      OBVIOUS
    <3>1. j \in 2 .. Len(s) /\ s[j] \in K
      BY DEF Places
    <3>2. j - 1 \in 1 .. Len(Tail(s)) /\ Tail(s)[j - 1] = s[j]
      BY <1>1, <3>1
    <3> QED BY <1>1, <3>1, <3>2 DEF Places
  <2> QED BY <2>1, <2>2, <2>3 DEF Bijection, Injection, Surjection, IsInjective
<1>4. Cardinality(Rest) = Tally(Tail(s), K)
  BY <1>2, <1>3, FS_Bijection DEF ExistsBijection, Tally
<1> HIDE DEF Rest
<1>5. Cardinality(Rest) = Tally(s, K) - (IF 1 \in Places(s, K) THEN 1 ELSE 0)
  <2>1. CASE 1 \in Places(s, K)
    BY <1>2, <2>1, FS_RemoveElement DEF Tally, Rest
  <2>2. CASE 1 \notin Places(s, K)
    <3>1. Rest = Places(s, K)
      BY <2>2 DEF Rest
    <3> QED BY <1>2, <2>2, <3>1 DEF Tally
  <2> QED BY <2>1, <2>2
<1>6. 1 \in Places(s, K) <=> Head(s) \in K
  BY DEF Places
<1> QED
  <2>1. CASE Head(s) \in K
    BY <1>4, <1>5, <1>6, <2>1
  <2>2. CASE Head(s) \notin K
    BY <1>4, <1>5, <1>6, <2>2
  <2> QED BY <2>1, <2>2

\* The three counts of the specification.
TextEvents(s) == Count(s, LAMBDA e : e.kind = "text")
Commands == {"text", "close"}

LEMMA CountsAreTallies ==
  /\ \A s \in Seq(Commands) : Texts(s) = Tally(s, {"text"})
  /\ \A s \in Seq(Event) :
       /\ Sents(s) = Tally(s, {e \in Event : e.kind = "sent"})
       /\ TextEvents(s) = Tally(s, {e \in Event : e.kind = "text"})
<1>1. ASSUME NEW s \in Seq(Commands)
      PROVE  Texts(s) = Tally(s, {"text"})
  <2>1. {i \in DOMAIN s : s[i] = "text"} = Places(s, {"text"})
    BY DEF Places
  <2> QED BY <2>1 DEF Texts, Count, Tally
<1>2. ASSUME NEW s \in Seq(Event)
      PROVE  Sents(s) = Tally(s, {e \in Event : e.kind = "sent"})
  <2>1. {i \in DOMAIN s : s[i].kind = "sent"}
          = Places(s, {e \in Event : e.kind = "sent"})
    BY DEF Places
  <2> QED BY <2>1 DEF Sents, Count, Tally
<1>3. ASSUME NEW s \in Seq(Event)
      PROVE  TextEvents(s) = Tally(s, {e \in Event : e.kind = "text"})
  <2>1. {i \in DOMAIN s : s[i].kind = "text"}
          = Places(s, {e \in Event : e.kind = "text"})
    BY DEF Places
  <2> QED BY <2>1 DEF TextEvents, Count, Tally
<1> QED BY <1>1, <1>2, <1>3

LEMMA CountCommands ==
  /\ Texts(<<>>) = 0
  /\ \A s \in Seq(Commands) :
       /\ Texts(s) \in Nat
       /\ \A k \in Commands :
            Texts(Append(s, k)) = Texts(s) + (IF k = "text" THEN 1 ELSE 0)
       /\ s # <<>> =>
            Texts(Tail(s)) = Texts(s) - (IF Head(s) = "text" THEN 1 ELSE 0)
<1>1. <<>> \in Seq(Commands)
  OBVIOUS
<1>2. ASSUME NEW s \in Seq(Commands)
      PROVE  /\ Texts(s) \in Nat
             /\ \A k \in Commands :
                  Texts(Append(s, k)) = Texts(s) + (IF k = "text" THEN 1 ELSE 0)
             /\ s # <<>> =>
                  Texts(Tail(s)) = Texts(s) - (IF Head(s) = "text" THEN 1 ELSE 0)
  <2>1. Texts(s) \in Nat
    BY CountsAreTallies, TallyType
  <2>2. ASSUME NEW k \in Commands
        PROVE  Texts(Append(s, k)) = Texts(s) + (IF k = "text" THEN 1 ELSE 0)
    <3>1. Append(s, k) \in Seq(Commands)
      OBVIOUS
    <3>2. Tally(Append(s, k), {"text"})
            = Tally(s, {"text"}) + (IF k \in {"text"} THEN 1 ELSE 0)
      BY TallyAppend
    <3> QED BY <3>1, <3>2, CountsAreTallies
  <2>3. ASSUME s # <<>>
        PROVE  Texts(Tail(s)) = Texts(s) - (IF Head(s) = "text" THEN 1 ELSE 0)
    <3>1. Tail(s) \in Seq(Commands)
      BY <2>3
    <3>2. Tally(Tail(s), {"text"})
            = Tally(s, {"text"}) - (IF Head(s) \in {"text"} THEN 1 ELSE 0)
      BY <2>3, TallyTail
    <3> QED BY <3>1, <3>2, CountsAreTallies
  <2> QED BY <2>1, <2>2, <2>3
<1> QED BY <1>1, <1>2, CountsAreTallies, TallyEmpty

LEMMA CountEvents ==
  /\ Sents(<<>>) = 0 /\ TextEvents(<<>>) = 0
  /\ \A s \in Seq(Event) :
       /\ Sents(s) \in Nat /\ TextEvents(s) \in Nat
       /\ \A e \in Event :
            /\ Sents(Append(s, e)) = Sents(s) + (IF e.kind = "sent" THEN 1 ELSE 0)
            /\ TextEvents(Append(s, e)) = TextEvents(s) + Bytes(e)
       /\ s # <<>> =>
            Sents(Tail(s)) = Sents(s) - (IF Head(s).kind = "sent" THEN 1 ELSE 0)
<1> DEFINE SentEvents == {e \in Event : e.kind = "sent"}
           Messages == {e \in Event : e.kind = "text"}
<1>1. <<>> \in Seq(Event)
  OBVIOUS
<1>2. ASSUME NEW s \in Seq(Event)
      PROVE  Sents(s) = Tally(s, SentEvents) /\ TextEvents(s) = Tally(s, Messages)
  BY CountsAreTallies
<1> HIDE DEF SentEvents, Messages
<1>3. ASSUME NEW s \in Seq(Event)
      PROVE  Sents(s) \in Nat /\ TextEvents(s) \in Nat
  BY <1>2, TallyType
<1>4. ASSUME NEW s \in Seq(Event), NEW e \in Event
      PROVE  /\ Sents(Append(s, e)) = Sents(s) + (IF e.kind = "sent" THEN 1 ELSE 0)
             /\ TextEvents(Append(s, e)) = TextEvents(s) + Bytes(e)
  <2>1. Append(s, e) \in Seq(Event)
    OBVIOUS
  <2>2. (e \in SentEvents <=> e.kind = "sent") /\ (e \in Messages <=> e.kind = "text")
    BY DEF SentEvents, Messages
  <2>3. /\ Tally(Append(s, e), SentEvents)
             = Tally(s, SentEvents) + (IF e \in SentEvents THEN 1 ELSE 0)
        /\ Tally(Append(s, e), Messages)
             = Tally(s, Messages) + (IF e \in Messages THEN 1 ELSE 0)
    BY TallyAppend
  <2> QED BY <1>2, <2>1, <2>2, <2>3 DEF Bytes
<1>5. ASSUME NEW s \in Seq(Event), s # <<>>
      PROVE  Sents(Tail(s)) = Sents(s) - (IF Head(s).kind = "sent" THEN 1 ELSE 0)
  <2>1. Tail(s) \in Seq(Event) /\ Head(s) \in Event
    BY <1>5
  <2>2. Head(s) \in SentEvents <=> Head(s).kind = "sent"
    BY <2>1 DEF SentEvents
  <2>3. Tally(Tail(s), SentEvents)
          = Tally(s, SentEvents) - (IF Head(s) \in SentEvents THEN 1 ELSE 0)
    BY <1>5, TallyTail
  <2> QED BY <1>2, <2>1, <2>2, <2>3
<1> QED BY <1>1, <1>2, <1>3, <1>4, <1>5, TallyEmpty

-----------------------------------------------------------------------------
(* The inductive invariant, in parts. *)

\* At most the sends so far are counted in bufferedAmount.
Typed == TypeOK /\ buffered <= sends

\* The owner holds events only while it delivers; before it has a connection
\* there is neither an object nor a worker.
OwnerKept ==
  /\ owner \in {"none", "idle", "joining", "released"} => batch = <<>>
  /\ owner = "none" => js = "none" /\ pc = "none"

\* A close event makes the connection terminal and nothing else does.
TerminalIsClosed == terminal <=> \E i \in DOMAIN reported : reported[i].kind \in Close

\* The worker that is about to report an abnormal close has reported the error,
\* or nobody listens any more.
ErrorComesFirst ==
  pc = "abnormal" \/ (pc = "callback" /\ then = "abnormal") =>
    \/ Ended
    \/ reported # <<>> /\ reported[Len(reported)].kind = "error"

\* After the callback the worker goes on at one of these places.
ThenIsNext ==
  pc = "callback" => then \in {"loop", "commands", "incoming", "abnormal", "done"}

\* Commands are in the worker's hands only while it works on them or when it has
\* given up.
CmdsHeld ==
  \/ cmds = <<>>
  \/ pc \in {"commands", "sent", "failed", "error", "abnormal", "done"}
  \/ pc = "writing" /\ frame \in Commands
  \/ pc = "callback" /\ then \in {"commands", "abnormal", "done"}

\* Until close() there is no Close frame to write.
Unclosed == js \in {"none", "connecting", "open"}
CloseAsked ==
  Unclosed =>
    /\ ~closing /\ frame # "close"
    /\ \A i \in DOMAIN commands : commands[i] # "close"
    /\ \A i \in DOMAIN cmds : cmds[i] # "close"

\* BufferedIsUnsent, and the same before the socket is open.
Over == Ended \/ WorkerFailed
InHand == IF pc = "sent" \/ (pc = "writing" /\ frame = "text") THEN 1 ELSE 0
BufferedExact ==
  Unclosed /\ ~Over =>
    buffered = Texts(commands) + Texts(cmds) + Sents(events) + Sents(batch) + InHand

ConnectionInv ==
  /\ Typed /\ OwnerKept /\ QueuesBounded /\ NothingDropped
  /\ TerminalIsClosed /\ EndsWithClose /\ ErrorComesFirst
  /\ ThenIsNext /\ CmdsHeld /\ CloseAsked /\ BufferedExact

-----------------------------------------------------------------------------
(* The steps. Emit either refuses, or queues the event, or replaces it. *)

Refuses(refusedNext) ==
  /\ Ended
  /\ pc' = refusedNext
  /\ UNCHANGED <<eventVars, terminal, then>>

Accepts(event, next) ==
  /\ ~Ended /\ ~EventsFull(event)
  /\ events' = Append(events, event) /\ reported' = Append(reported, event)
  /\ eventBytes' = eventBytes + Bytes(event)
  /\ terminal' = (event.kind \in Close)
  /\ notify' = TRUE
  /\ pc' = "callback" /\ then' = next

Overflows(event, refusedNext) ==
  /\ ~Ended /\ EventsFull(event)
  /\ events' = Append(Append(events, Report("error")), Report("abnormal"))
  /\ reported' = Append(Append(reported, Report("error")), Report("abnormal"))
  /\ eventBytes' = eventBytes
  /\ terminal' = TRUE
  /\ notify' = TRUE
  /\ pc' = "callback" /\ then' = refusedNext

LEMMA ReportType ==
  ASSUME NEW kind \in Kinds
  PROVE  Report(kind) \in Event
BY WebSocketAssumption DEF Report, Event

LEMMA TypedSeqs ==
  ASSUME TypeOK
  PROVE  /\ batch \in Seq(Event) /\ events \in Seq(Event)
         /\ reported \in Seq(Event) /\ delivered \in Seq(Event)
         /\ commands \in Seq(Commands) /\ cmds \in Seq(Commands)
         /\ incoming \in Seq([kind : PeerFrames, n : 1 .. MaxFrames])
         /\ wire \in Seq([kind : PeerFrames, n : 1 .. MaxFrames])
BY DEF TypeOK, Commands

Frame == [kind : PeerFrames, n : 1 .. MaxFrames]

LEMMA FrameHead ==
  ASSUME TypeOK, incoming # <<>>
  PROVE  Head(incoming) \in Frame /\ Tail(incoming) \in Seq(Frame)
<1>1. incoming \in Seq(Frame)
  BY TypedSeqs DEF Frame
<1> QED BY <1>1, HeadTailProperties

LEMMA TypedFlags ==
  ASSUME TypeOK
  PROVE  /\ stopped \in BOOLEAN /\ cancelRequested \in BOOLEAN /\ terminal \in BOOLEAN
         /\ wake \in BOOLEAN /\ notify \in BOOLEAN /\ told \in BOOLEAN
         /\ closing \in BOOLEAN /\ hostClosed \in BOOLEAN /\ peerGone \in BOOLEAN
BY DEF TypeOK

LEMMA EmitCases ==
  ASSUME TypeOK, NEW event \in Event, NEW next, NEW refusedNext,
         Emit(event, next, refusedNext)
  PROVE  Refuses(refusedNext) \/ Accepts(event, next) \/ Overflows(event, refusedNext)
<1>1. CASE Ended
  BY <1>1 DEF Emit, Ended, Refuses
<1>2. CASE ~Ended /\ ~EventsFull(event)
  <2>1. events \o <<event>> = Append(events, event)
        /\ reported \o <<event>> = Append(reported, event)
    BY TypedSeqs, AppendIsConcat
  <2> QED BY <1>2, <2>1 DEF Emit, Ended, Emitted, Accepts
<1>3. CASE ~Ended /\ EventsFull(event)
  <2>1. Report("error") \in Event /\ Report("abnormal") \in Event
    BY ReportType DEF Kinds
  <2>2. \A s \in Seq(Event) : s \o <<Report("error"), Report("abnormal")>>
          = Append(Append(s, Report("error")), Report("abnormal"))
    BY <2>1
  <2>3. eventBytes + 0 = eventBytes
    BY DEF TypeOK
  <2> QED BY <1>3, <2>2, <2>3, TypedSeqs DEF Emit, Ended, Emitted, Overflows
<1> QED BY <1>1, <1>2, <1>3

\* A step that emits: what it reports, and where the worker goes on.
Emits(event, next, refusedNext) ==
  /\ Emit(event, next, refusedNext)
  /\ UNCHANGED <<jsVars, ownerVars, commandVars, stopped, cancelRequested, wake, told,
                 cmds, frame, closing, peerVars, out>>

EmitStep ==
  \/ Open \/ Sent \/ Clean \/ ReportError \/ ReportAbnormal
  \/ IncomingText /\ ~closing

Emission(event, next, refusedNext) ==
  \/ pc = "opening" /\ event = Report("open") /\ next = "loop" /\ refusedNext = "done"
  \/ pc = "sent" /\ event = Report("sent") /\ next = "commands" /\ refusedNext = "done"
  \/ pc = "clean" /\ event = Report("clean") /\ next = "done" /\ refusedNext = "done"
  \/ pc = "error" /\ event = Report("error") /\ next = "abnormal" /\ refusedNext = "abnormal"
  \/ pc = "abnormal" /\ event = Report("abnormal") /\ next = "done" /\ refusedNext = "done"
  \/ pc = "incoming" /\ event.kind = "text" /\ next = "incoming" /\ refusedNext = "done"

LEMMA EmitStepCases ==
  ASSUME TypeOK, EmitStep
  PROVE  \E event \in Event, next \in WorkerSteps, refusedNext \in WorkerSteps :
           Emission(event, next, refusedNext) /\ Emits(event, next, refusedNext)
<1>1. CASE Open
  <2>1. Emission(Report("open"), "loop", "done") /\ Emits(Report("open"), "loop", "done")
    BY <1>1 DEF Open, Emission, Emits
  <2> QED BY <2>1, ReportType DEF WorkerSteps, Blocking, Kinds
<1>2. CASE Sent
  <2>1. Emission(Report("sent"), "commands", "done")
        /\ Emits(Report("sent"), "commands", "done")
    BY <1>2 DEF Sent, Emission, Emits
  <2> QED BY <2>1, ReportType DEF WorkerSteps, Blocking, Kinds
<1>3. CASE Clean
  <2>1. Emission(Report("clean"), "done", "done") /\ Emits(Report("clean"), "done", "done")
    BY <1>3 DEF Clean, Emission, Emits
  <2> QED BY <2>1, ReportType DEF WorkerSteps, Blocking, Kinds
<1>4. CASE ReportError
  <2>1. Emission(Report("error"), "abnormal", "abnormal")
        /\ Emits(Report("error"), "abnormal", "abnormal")
    BY <1>4 DEF ReportError, Emission, Emits
  <2> QED BY <2>1, ReportType DEF WorkerSteps, Blocking, Kinds
<1>5. CASE ReportAbnormal
  <2>1. Emission(Report("abnormal"), "done", "done")
        /\ Emits(Report("abnormal"), "done", "done")
    BY <1>5 DEF ReportAbnormal, Emission, Emits
  <2> QED BY <2>1, ReportType DEF WorkerSteps, Blocking, Kinds
<1>6. CASE IncomingText /\ ~closing
  <2>1. Head(incoming) \in Frame
    BY <1>6, FrameHead DEF IncomingText
  <2>2. Head(incoming) \in Event /\ Head(incoming).kind = "text"
    BY <1>6, <2>1, WebSocketAssumption DEF IncomingText, Event, Kinds, Frame
  <2>3. Emission(Head(incoming), "incoming", "done")
        /\ Emits(Head(incoming), "incoming", "done")
    BY <1>6, <2>2 DEF IncomingText, Emission, Emits
  <2> QED BY <2>2, <2>3 DEF WorkerSteps, Blocking
<1> QED BY <1>1, <1>2, <1>3, <1>4, <1>5, <1>6 DEF EmitStep

\* The steps that leave the queues, the flags and the owner alone.
QuietWorker ==
  \/ Connect \/ IoWoken \/ NextCommand \/ CommandsDone \/ WriteDone \/ WriteFails
  \/ IncomingText /\ closing
  \/ IncomingControl \/ IncomingDone \/ Woken \/ Readable \/ CloseTimeout \/ Read
  \/ ReadFails \/ Failed \/ Callback
Quiet == (\E kind \in PeerFrames : PeerSends(kind)) \/ PeerGoes \/ QuietWorker
OwnerMoves ==
  \/ Construct \/ Drain \/ ListenerThrows \/ SessionClose \/ Deliver \/ DrainEnd \/ Join

LEMMA StepCases ==
  ASSUME TypeOK, [Next]_vars
  PROVE  \/ EmitStep \/ Quiet \/ JsSend \/ JsClose \/ TakeCommands \/ OwnerMoves
         \/ UNCHANGED vars
BY TypedFlags DEF Next, WorkerStep, OwnerStep, EmitStep, Quiet, QuietWorker, OwnerMoves

\* What a quiet step leaves alone.
LEMMA QuietLeaves ==
  ASSUME Quiet
  PROVE  UNCHANGED <<jsVars, ownerVars, eventVars, commandVars, flagVars>>
<1> USE DEF jsVars, ownerVars, eventVars, commandVars, flagVars
<1>1. CASE \E kind \in PeerFrames : PeerSends(kind)
  BY <1>1 DEF PeerSends
<1>2. CASE PeerGoes
  BY <1>2 DEF PeerGoes
<1>3. CASE QuietWorker
  BY <1>3 DEF QuietWorker, Connect, IoWoken, NextCommand, CommandsDone, WriteDone,
       WriteFails, IncomingText, IncomingControl, IncomingDone, Woken, Readable,
       CloseTimeout, Read, ReadFails, Failed, Callback, Alone
<1> QED BY <1>1, <1>2, <1>3 DEF Quiet

-----------------------------------------------------------------------------
(* Types. *)

ObjectTyped ==
  /\ js \in {"none", "connecting", "open", "closing", "closed"}
  /\ sends \in 0 .. MaxSends /\ buffered \in 0 .. sends
  /\ owner \in {"none", "idle", "delivering", "listener", "joining", "released"}
QueueTyped ==
  /\ batch \in Seq(Event) /\ events \in Seq(Event)
  /\ reported \in Seq(Event) /\ delivered \in Seq(Event)
  /\ eventBytes \in Nat
CommandTyped ==
  /\ commands \in Seq(Commands) /\ cmds \in Seq(Commands)
  /\ commandBytes \in Nat
FlagTyped ==
  /\ stopped \in BOOLEAN /\ cancelRequested \in BOOLEAN /\ terminal \in BOOLEAN
  /\ wake \in BOOLEAN /\ notify \in BOOLEAN /\ told \in BOOLEAN
  /\ closing \in BOOLEAN /\ hostClosed \in BOOLEAN /\ peerGone \in BOOLEAN
WorkerTyped ==
  /\ pc \in WorkerSteps /\ then \in WorkerSteps
  /\ frame \in Writes /\ out \in Seq(Writes)
PeerTyped ==
  /\ incoming \in Seq(Frame) /\ wire \in Seq(Frame)
  /\ frames \in 0 .. MaxFrames

LEMMA TypedParts ==
  Typed <=> ObjectTyped /\ QueueTyped /\ CommandTyped /\ FlagTyped /\ WorkerTyped
            /\ PeerTyped
<1>1. buffered \in 0 .. MaxSends /\ sends \in 0 .. MaxSends /\ buffered <= sends
        <=> sends \in 0 .. MaxSends /\ buffered \in 0 .. sends
  BY WebSocketAssumption
<1> QED BY <1>1 DEF Typed, TypeOK, ObjectTyped, QueueTyped, CommandTyped, FlagTyped,
         WorkerTyped, PeerTyped, Commands, Frame

LEMMA ObjectTypedStep ==
  ASSUME Typed, [Next]_vars
  PROVE  ObjectTyped'
<1> ObjectTyped /\ TypeOK
  BY TypedParts DEF Typed
<1> USE WebSocketAssumption DEF ObjectTyped
<1>1. CASE EmitStep
  BY <1>1 DEF EmitStep, Open, Sent, Clean, ReportError, ReportAbnormal, IncomingText,
       jsVars, ownerVars
<1>2. CASE Quiet
  BY <1>2, QuietLeaves DEF jsVars, ownerVars
<1>3. CASE JsSend
  BY <1>3 DEF JsSend, Queue, ownerVars
<1>4. CASE JsClose
  BY <1>4 DEF JsClose, ownerVars
<1>5. CASE TakeCommands
  BY <1>5 DEF TakeCommands, jsVars, ownerVars
<1>6. CASE OwnerMoves
  BY <1>6 DEF OwnerMoves, Construct, Drain, ListenerThrows, SessionClose, Deliver,
       DrainEnd, Join, Release, NextState, jsVars
<1>7. CASE UNCHANGED vars
  BY <1>7 DEF vars, jsVars, ownerVars
<1> QED BY <1>1, <1>2, <1>3, <1>4, <1>5, <1>6, <1>7, StepCases

LEMMA QueueTypedStep ==
  ASSUME Typed, [Next]_vars
  PROVE  QueueTyped'
<1> QueueTyped /\ TypeOK
  BY TypedParts DEF Typed
<1> USE DEF QueueTyped
<1>1. CASE EmitStep
  <2> PICK event \in Event, next \in WorkerSteps, refusedNext \in WorkerSteps :
        Emits(event, next, refusedNext)
    BY <1>1, EmitStepCases
  <2> UNCHANGED <<batch, delivered>>
    BY DEF Emits, ownerVars
  <2> Report("error") \in Event /\ Report("abnormal") \in Event
    BY ReportType DEF Kinds
  <2>1. CASE Refuses(refusedNext)
    BY <2>1 DEF Refuses, eventVars
  <2>2. CASE Accepts(event, next)
    BY <2>2 DEF Accepts, Bytes
  <2>3. CASE Overflows(event, refusedNext)
    BY <2>3 DEF Overflows
  <2> QED BY <2>1, <2>2, <2>3, EmitCases DEF Emits
<1>2. CASE Quiet
  BY <1>2, QuietLeaves DEF eventVars, ownerVars
<1>3. CASE JsSend
  BY <1>3 DEF JsSend, eventVars, ownerVars
<1>4. CASE JsClose
  BY <1>4 DEF JsClose, eventVars, ownerVars
<1>5. CASE TakeCommands
  BY <1>5 DEF TakeCommands, eventVars, ownerVars
<1>6. CASE Drain
  BY <1>6 DEF Drain
<1>7. CASE Deliver
  <2>1. Head(batch) \in Event /\ Tail(batch) \in Seq(Event)
    BY <1>7, HeadTailProperties DEF Deliver
  <2> QED BY <1>7, <2>1 DEF Deliver, eventVars
<1>8. CASE ListenerThrows
  BY <1>8 DEF ListenerThrows, eventVars
<1>9. CASE DrainEnd \/ Join \/ SessionClose \/ Construct
  BY <1>9 DEF DrainEnd, Join, SessionClose, Construct, eventVars, ownerVars
<1>10. CASE UNCHANGED vars
  BY <1>10 DEF vars, eventVars, ownerVars
<1> QED BY <1>1, <1>2, <1>3, <1>4, <1>5, <1>6, <1>7, <1>8, <1>9, <1>10,
         StepCases
         DEF OwnerMoves

LEMMA CommandTypedStep ==
  ASSUME Typed, [Next]_vars
  PROVE  CommandTyped'
<1> CommandTyped /\ TypeOK
  BY TypedParts DEF Typed
<1> USE DEF CommandTyped
<1>1. CASE EmitStep
  BY <1>1 DEF EmitStep, Open, Sent, Clean, ReportError, ReportAbnormal, IncomingText,
       commandVars
<1>2. CASE NextCommand
  BY <1>2, HeadTailProperties DEF NextCommand, Alone, commandVars
<1>3. CASE Quiet /\ ~NextCommand
  BY <1>3 DEF Quiet, QuietWorker, PeerSends, PeerGoes, Connect, IoWoken, CommandsDone,
       WriteDone, WriteFails, IncomingText, IncomingControl, IncomingDone, Woken,
       Readable, CloseTimeout, Read, ReadFails, Failed, Callback, Alone, commandVars,
       workerVars
<1>4. CASE JsSend \/ JsClose
  <2>1. UNCHANGED <<commands, commandBytes>> \/ Queue("text") \/ Queue("close")
    BY <1>4 DEF JsSend, JsClose, commandVars
  <2>2. \A k \in Commands : Append(commands, k) \in Seq(Commands)
    BY AppendProperties
  <2>3. cmds' = cmds
    BY <1>4 DEF JsSend, JsClose, workerVars
  <2>4. \A k \in Commands : Queue(k) => commands' \in Seq(Commands) /\ commandBytes' \in Nat
    BY <2>2 DEF Queue
  <2>5. "text" \in Commands /\ "close" \in Commands
    BY DEF Commands
  <2> QED BY <2>1, <2>3, <2>4, <2>5
<1>5. CASE TakeCommands
  BY <1>5 DEF TakeCommands
<1>6. CASE OwnerMoves
  BY <1>6 DEF OwnerMoves, Construct, Drain, ListenerThrows, SessionClose, Deliver,
       DrainEnd, Join, commandVars, workerVars
<1>7. CASE UNCHANGED vars
  BY <1>7 DEF vars, commandVars, workerVars
<1> QED BY <1>1, <1>2, <1>3, <1>4, <1>5, <1>6, <1>7, StepCases

LEMMA FlagTypedStep ==
  ASSUME Typed, [Next]_vars
  PROVE  FlagTyped'
<1> FlagTyped /\ TypeOK
  BY TypedParts DEF Typed
<1> USE DEF FlagTyped, eventVars, flagVars, ownerVars, workerVars, peerVars
<1>1. CASE EmitStep
  <2> PICK event \in Event, next \in WorkerSteps, refusedNext \in WorkerSteps :
        Emits(event, next, refusedNext)
    BY <1>1, EmitStepCases
  <2> UNCHANGED <<stopped, cancelRequested, wake, told, closing, hostClosed, peerGone>>
    BY DEF Emits
  <2>1. CASE Refuses(refusedNext)
    BY <2>1 DEF Refuses
  <2>2. CASE Accepts(event, next)
    BY <2>2 DEF Accepts
  <2>3. CASE Overflows(event, refusedNext)
    BY <2>3 DEF Overflows
  <2> QED BY <2>1, <2>2, <2>3, EmitCases DEF Emits
<1>2. CASE Quiet
  <2>1. UNCHANGED <<ownerVars, eventVars, flagVars>>
    BY <1>2, QuietLeaves
  <2>2. wake' \in BOOLEAN
    BY <1>2 DEF Quiet, QuietWorker, PeerSends, PeerGoes, Connect, IoWoken, CommandsDone,
         NextCommand, WriteDone, WriteFails, IncomingText, IncomingControl,
         IncomingDone, Woken, Readable, CloseTimeout, Read, ReadFails, Failed, Callback
  <2>3. told' \in BOOLEAN
    BY <1>2 DEF Quiet, QuietWorker, PeerSends, PeerGoes, Connect, IoWoken, CommandsDone,
         NextCommand, WriteDone, WriteFails, IncomingText, IncomingControl,
         IncomingDone, Woken, Readable, CloseTimeout, Read, ReadFails, Failed, Callback,
         Alone
  <2>4. closing' \in BOOLEAN
    BY <1>2 DEF Quiet, QuietWorker, PeerSends, PeerGoes, Connect, IoWoken, CommandsDone,
         NextCommand, WriteDone, WriteFails, IncomingText, IncomingControl,
         IncomingDone, Woken, Readable, CloseTimeout, Read, ReadFails, Failed, Callback
  <2>5. peerGone' \in BOOLEAN
    BY <1>2 DEF Quiet, QuietWorker, PeerSends, PeerGoes, Connect, IoWoken, CommandsDone,
         NextCommand, WriteDone, WriteFails, IncomingText, IncomingControl,
         IncomingDone, Woken, Readable, CloseTimeout, Read, ReadFails, Failed, Callback
  <2> QED BY <2>1, <2>2, <2>3, <2>4, <2>5
<1>3. CASE JsSend \/ JsClose
  BY <1>3 DEF JsSend, JsClose, Queue, Cancel, Ended
<1>4. CASE TakeCommands
  BY <1>4 DEF TakeCommands
<1>5. CASE OwnerMoves
  <2>1. CASE Construct \/ Drain \/ Deliver \/ Join
    BY <2>1 DEF Construct, Drain, Deliver, Join
  <2>2. CASE ListenerThrows
    BY <2>2 DEF ListenerThrows, Release, Ended
  <2>3. CASE SessionClose
    BY <2>3 DEF SessionClose, Release
  <2>4. CASE DrainEnd
    BY <2>4 DEF DrainEnd, Release
  <2> QED BY <1>5, <2>1, <2>2, <2>3, <2>4 DEF OwnerMoves
<1>6. CASE UNCHANGED vars
  BY <1>6 DEF vars
<1> QED BY <1>1, <1>2, <1>3, <1>4, <1>5, <1>6, StepCases

LEMMA WorkerTypedStep ==
  ASSUME Typed, [Next]_vars
  PROVE  WorkerTyped'
<1> WorkerTyped /\ CommandTyped /\ TypeOK
  BY TypedParts DEF Typed
<1> USE DEF WorkerTyped, WorkerSteps, Blocking, Writes, workerVars
<1>1. CASE EmitStep
  <2> PICK event \in Event, next \in WorkerSteps, refusedNext \in WorkerSteps :
        Emits(event, next, refusedNext)
    BY <1>1, EmitStepCases
  <2> UNCHANGED <<frame, out>>
    BY DEF Emits
  <2>1. CASE Refuses(refusedNext)
    BY <2>1 DEF Refuses
  <2>2. CASE Accepts(event, next)
    BY <2>2 DEF Accepts
  <2>3. CASE Overflows(event, refusedNext)
    BY <2>3 DEF Overflows
  <2> QED BY <2>1, <2>2, <2>3, EmitCases DEF Emits
<1>2. CASE NextCommand
  <2>1. Head(cmds) \in Commands
    BY <1>2, HeadTailProperties DEF NextCommand, CommandTyped
  <2> QED BY <1>2, <2>1 DEF NextCommand, Alone, Commands
<1>3. CASE IncomingControl
  <2>1. Head(incoming) \in Frame
    BY <1>3, FrameHead DEF IncomingControl
  <2>2. Head(incoming).kind \in {"ping", "close", "bad"}
    BY <1>3, <2>1 DEF IncomingControl, Frame, PeerFrames
  <2> QED BY <1>3, <2>2 DEF IncomingControl, Alone
<1>4. CASE WriteDone
  BY <1>4 DEF WriteDone
<1>5. CASE Quiet /\ ~NextCommand /\ ~IncomingControl /\ ~WriteDone
  BY <1>5 DEF Quiet, QuietWorker, PeerSends, PeerGoes, Connect, IoWoken, CommandsDone,
       WriteFails, IncomingText, IncomingDone, Woken, Readable, CloseTimeout, Read,
       ReadFails, Failed, Callback, Alone, Fails
<1>6. CASE JsSend \/ JsClose
  BY <1>6 DEF JsSend, JsClose
<1>7. CASE TakeCommands
  BY <1>7 DEF TakeCommands
<1>8. CASE OwnerMoves
  BY <1>8 DEF OwnerMoves, Construct, Drain, ListenerThrows, SessionClose, Deliver,
       DrainEnd, Join
<1>9. CASE UNCHANGED vars
  BY <1>9 DEF vars
<1> QED BY <1>1, <1>2, <1>3, <1>4, <1>5, <1>6, <1>7, <1>8, <1>9, StepCases

LEMMA PeerTypedStep ==
  ASSUME Typed, [Next]_vars
  PROVE  PeerTyped'
<1> PeerTyped /\ TypeOK
  BY TypedParts DEF Typed
<1> USE DEF PeerTyped, workerVars, peerVars
<1>1. CASE EmitStep
  <2>1. CASE IncomingText
    BY <2>1, FrameHead DEF IncomingText
  <2> QED BY <1>1, <2>1 DEF EmitStep, Open, Sent, Clean, ReportError, ReportAbnormal
<1>2. CASE IncomingText \/ IncomingControl
  BY <1>2, FrameHead DEF IncomingText, IncomingControl
<1>3. CASE \E kind \in PeerFrames : PeerSends(kind)
  <2> PICK kind \in PeerFrames : PeerSends(kind)
    BY <1>3
  <2>1. frames + 1 \in 1 .. MaxFrames
    BY WebSocketAssumption DEF PeerSends
  <2>2. [kind |-> kind, n |-> frames + 1] \in Frame
    BY <2>1 DEF Frame
  <2> QED BY <2>1, <2>2, AppendProperties DEF PeerSends
<1>4. CASE Read
  <2> PICK k \in 1 .. Len(wire) :
        /\ incoming' = incoming \o SubSeq(wire, 1, k)
        /\ wire' = SubSeq(wire, k + 1, Len(wire))
    BY <1>4 DEF Read
  <2>1. SubSeq(wire, 1, k) \in Seq(Frame) /\ SubSeq(wire, k + 1, Len(wire)) \in Seq(Frame)
    <3> HIDE DEF Frame
    <3>1. \A i \in 1 .. Len(wire) : wire[i] \in Frame
      BY ElementOfSeq
    <3> QED BY <3>1, SubSeqProperties
  <2> QED BY <1>4, <2>1, ConcatProperties DEF Read
<1>5. CASE Quiet /\ ~(\E kind \in PeerFrames : PeerSends(kind)) /\ ~IncomingText
           /\ ~IncomingControl /\ ~Read
  BY <1>5 DEF Quiet, QuietWorker, PeerGoes, Connect, IoWoken, CommandsDone, NextCommand,
       WriteDone, WriteFails, IncomingDone, Woken, Readable, CloseTimeout, ReadFails,
       Failed, Callback, Alone
<1>6. CASE JsSend \/ JsClose
  BY <1>6 DEF JsSend, JsClose
<1>7. CASE TakeCommands
  BY <1>7 DEF TakeCommands
<1>8. CASE OwnerMoves
  BY <1>8 DEF OwnerMoves, Construct, Drain, ListenerThrows, SessionClose, Deliver,
       DrainEnd, Join
<1>9. CASE UNCHANGED vars
  BY <1>9 DEF vars
<1> QED BY <1>1, <1>2, <1>3, <1>4, <1>5, <1>6, <1>7, <1>8, <1>9, StepCases

LEMMA TypedInit == Init => Typed
<1> SUFFICES ASSUME Init
             PROVE  Typed
  OBVIOUS
<1> USE DEF Init
<1>1. ObjectTyped
  <2>1. 0 \in 0 .. MaxSends /\ 0 \in 0 .. 0
    BY WebSocketAssumption
  <2> QED BY <2>1 DEF ObjectTyped
<1>2. QueueTyped /\ CommandTyped
  BY DEF QueueTyped, CommandTyped
<1>3. FlagTyped
  BY DEF FlagTyped
<1>4. WorkerTyped
  BY DEF WorkerTyped, WorkerSteps, Writes, Blocking
<1>5. PeerTyped
  <2>1. 0 \in 0 .. MaxFrames
    BY WebSocketAssumption
  <2> QED BY <2>1 DEF PeerTyped
<1> QED BY <1>1, <1>2, <1>3, <1>4, <1>5, TypedParts

LEMMA TypedStep == Typed /\ [Next]_vars => Typed'
<1> SUFFICES ASSUME Typed, [Next]_vars
             PROVE  Typed'
  OBVIOUS
<1>1. ObjectTyped' /\ QueueTyped' /\ CommandTyped' /\ FlagTyped' /\ WorkerTyped'
      /\ PeerTyped'
  BY ObjectTypedStep, QueueTypedStep, CommandTypedStep, FlagTypedStep, WorkerTypedStep,
     PeerTypedStep
<1>2. Typed' <=> (ObjectTyped /\ QueueTyped /\ CommandTyped /\ FlagTyped /\ WorkerTyped
      /\ PeerTyped)'
  BY TypedParts, PTL
<1> QED BY <1>1, <1>2

\* Every variable keeps its type.
THEOREM TypeCorrect == Spec => []TypeOK
<1>1. Spec => []Typed
  BY TypedInit, TypedStep, PTL DEF Spec
<1>2. Typed => TypeOK
  BY DEF Typed
<1> QED BY <1>1, <1>2, PTL

-----------------------------------------------------------------------------
(* The events: what the worker reported is handed over in that order. *)

LEMMA PrefixOfConcat ==
  ASSUME NEW S, NEW s \in Seq(S), NEW t \in Seq(S)
  PROVE  IsPrefix(s, s \o t)
<1>1. Len(s) <= Len(s \o t)
  BY ConcatProperties, LenProperties
<1>2. SubSeq(s \o t, 1, Len(s)) = SubSeq(s, 1, Len(s))
  <2>1. CASE s = <<>>
    BY <2>1, SubSeqEmpty
  <2>2. CASE s # <<>>
    BY <2>2, SubSeqOfConcat1, LenProperties, EmptySeq
  <2> QED BY <2>1, <2>2
<1> QED BY <1>1, <1>2 DEF IsPrefix

LEMMA PrefixAppend ==
  ASSUME NEW S, NEW s \in Seq(S), NEW t \in Seq(S), NEW x \in S, IsPrefix(s, t)
  PROVE  IsPrefix(s, Append(t, x))
<1>1. Len(s) <= Len(t) /\ SubSeq(s, 1, Len(s)) = SubSeq(t, 1, Len(s))
  BY DEF IsPrefix
<1>2. Len(s) <= Len(Append(t, x))
  BY <1>1, AppendProperties, LenProperties
<1>3. SubSeq(Append(t, x), 1, Len(s)) = SubSeq(t, 1, Len(s))
  <2>1. CASE s = <<>>
    BY <2>1, SubSeqEmpty
  <2>2. CASE s # <<>>
    <3>1. Append(t, x) = t \o <<x>> /\ <<x>> \in Seq(S)
      BY AppendIsConcat
    <3>2. 1 \in 1 .. Len(t) /\ Len(s) \in 1 .. Len(t)
      BY <1>1, <2>2, EmptySeq, LenProperties
    <3> QED BY <3>1, <3>2, SubSeqOfConcat1
  <2> QED BY <2>1, <2>2
<1> QED BY <1>1, <1>2, <1>3 DEF IsPrefix

LEMMA ConcatAppend ==
  ASSUME NEW S, NEW s \in Seq(S), NEW t \in Seq(S), NEW x \in S
  PROVE  s \o Append(t, x) = Append(s \o t, x)
<1>1. /\ Append(t, x) = t \o <<x>> /\ <<x>> \in Seq(S)
      /\ s \o t \in Seq(S) /\ Append(s \o t, x) = (s \o t) \o <<x>>
  BY AppendIsConcat, ConcatProperties
<1> QED BY <1>1, ConcatAssociative

LEMMA ConcatHeadTail ==
  ASSUME NEW S, NEW s \in Seq(S), NEW t \in Seq(S), t # <<>>
  PROVE  Append(s, Head(t)) \o Tail(t) = s \o t
<1>1. Head(t) \in S /\ Tail(t) \in Seq(S)
  BY HeadTailProperties
<1>2. t = <<Head(t)>> \o Tail(t) /\ <<Head(t)>> \in Seq(S)
  BY <1>1
<1>3. Append(s, Head(t)) = s \o <<Head(t)>>
  BY <1>1, AppendIsConcat
<1> QED BY <1>1, <1>2, <1>3, ConcatAssociative

LEMMA OwnerKeptStep ==
  ASSUME Typed, OwnerKept, [Next]_vars
  PROVE  OwnerKept'
<1> TypeOK
  BY DEF Typed
<1> USE DEF OwnerKept
<1>1. CASE EmitStep
  <2> PICK event \in Event, next \in WorkerSteps, refusedNext \in WorkerSteps :
        Emission(event, next, refusedNext) /\ Emits(event, next, refusedNext)
    BY <1>1, EmitStepCases
  <2> QED BY DEF Emission, Emits, ownerVars
<1>2. CASE Quiet
  <2>1. UNCHANGED <<js, owner, batch>>
    BY <1>2, QuietLeaves DEF jsVars, ownerVars
  <2>2. pc = "none" => FALSE
    BY <1>2 DEF Quiet, QuietWorker, PeerSends, PeerGoes, Connect, IoWoken, CommandsDone,
         NextCommand, WriteDone, WriteFails, IncomingText, IncomingControl,
         IncomingDone, Woken, Readable, CloseTimeout, Read, ReadFails, Failed, Callback
  <2> QED BY <2>1, <2>2
<1>3. CASE JsSend \/ JsClose
  BY <1>3 DEF JsSend, JsClose, JsRuns, ownerVars, workerVars
<1>4. CASE TakeCommands
  BY <1>4 DEF TakeCommands, jsVars, ownerVars
<1>5. CASE OwnerMoves
  BY <1>5 DEF OwnerMoves, Construct, Drain, ListenerThrows, SessionClose, Deliver,
       DrainEnd, Join, Release, jsVars, workerVars
<1>6. CASE UNCHANGED vars
  BY <1>6 DEF vars, jsVars, ownerVars, workerVars
<1> QED BY <1>1, <1>2, <1>3, <1>4, <1>5, <1>6, StepCases

LEMMA NothingDroppedStep ==
  ASSUME Typed, OwnerKept, NothingDropped, [Next]_vars
  PROVE  NothingDropped'
<1> TypeOK /\ QueueTyped
  BY TypedParts DEF Typed
<1> DEFINE Left == delivered \o batch
<1>0. Left \in Seq(Event)
  BY ConcatProperties DEF QueueTyped
<1>1. CASE EmitStep
  <2> PICK event \in Event, next \in WorkerSteps, refusedNext \in WorkerSteps :
        Emits(event, next, refusedNext)
    BY <1>1, EmitStepCases
  <2>1. UNCHANGED <<owner, batch, delivered>>
    BY DEF Emits, ownerVars
  <2> HIDE DEF Left
  <2>2. ASSUME NEW e \in Event, NEW s \in Seq(Event), NEW t \in Seq(Event)
        PROVE  /\ IsPrefix(delivered, t) => IsPrefix(delivered, Append(t, e))
               /\ t = Left \o s => Append(t, e) = Left \o Append(s, e)
    <3>1. ASSUME IsPrefix(delivered, t)
          PROVE  IsPrefix(delivered, Append(t, e))
      BY <3>1, PrefixAppend DEF QueueTyped
    <3>2. Left \o Append(s, e) = Append(Left \o s, e)
      BY <1>0, ConcatAppend
    <3> QED BY <3>1, <3>2
  <2>3. CASE Refuses(refusedNext)
    BY <2>1, <2>3 DEF Refuses, eventVars, NothingDropped
  <2>4. CASE Accepts(event, next)
    <3>1. /\ IsPrefix(delivered, reported) => IsPrefix(delivered, reported')
          /\ reported = Left \o events => reported' = Left \o events'
      BY <2>2, <2>4 DEF Accepts, QueueTyped
    <3> QED BY <2>1, <3>1 DEF NothingDropped, Left
  <2>5. CASE Overflows(event, refusedNext)
    <3> DEFINE failure == Report("error")
               close == Report("abnormal")
    <3>1. failure \in Event /\ close \in Event
      BY ReportType DEF Kinds
    <3>2. events' = Append(Append(events, failure), close)
          /\ reported' = Append(Append(reported, failure), close)
      BY <2>5 DEF Overflows
    <3> HIDE DEF failure, close
    <3>3. Append(events, failure) \in Seq(Event) /\ Append(reported, failure) \in Seq(Event)
      BY <3>1 DEF QueueTyped
    <3>4. /\ IsPrefix(delivered, reported) => IsPrefix(delivered, Append(reported, failure))
          /\ reported = Left \o events
               => Append(reported, failure) = Left \o Append(events, failure)
      BY <2>2, <3>1 DEF QueueTyped
    <3>5. /\ IsPrefix(delivered, reported) => IsPrefix(delivered, reported')
          /\ reported = Left \o events => reported' = Left \o events'
      BY <2>2, <3>1, <3>2, <3>3, <3>4
    <3> QED BY <2>1, <3>5 DEF NothingDropped, Left
  <2> QED BY <2>3, <2>4, <2>5, EmitCases DEF Emits
<1>2. CASE Quiet
  BY <1>2, QuietLeaves DEF ownerVars, eventVars, NothingDropped
<1>3. CASE JsSend \/ JsClose
  BY <1>3 DEF JsSend, JsClose, ownerVars, eventVars, NothingDropped
<1>4. CASE TakeCommands
  BY <1>4 DEF TakeCommands, ownerVars, eventVars, NothingDropped
<1>5. CASE Drain
  <2>1. batch = <<>> /\ reported = delivered \o batch \o events
    BY <1>5 DEF Drain, OwnerKept, NothingDropped
  <2>2. delivered \o <<>> = delivered /\ (delivered \o events) \o <<>> = delivered \o events
    BY ConcatEmptySeq, ConcatProperties DEF QueueTyped
  <2> QED BY <1>5, <2>1, <2>2 DEF Drain, NothingDropped
<1>6. CASE Deliver
  <2>1. Append(delivered, Head(batch)) \o Tail(batch) = delivered \o batch
    BY <1>6, ConcatHeadTail DEF Deliver, QueueTyped
  <2>2. /\ delivered' \o batch' = delivered \o batch
        /\ UNCHANGED <<events, reported>>
        /\ owner' \notin {"joining", "released"}
    BY <1>6, <2>1 DEF Deliver, eventVars
  <2>3. reported = delivered \o batch \o events
    BY <1>6 DEF Deliver, NothingDropped
  <2> QED BY <2>2, <2>3 DEF NothingDropped
<1>7. CASE ListenerThrows
  <2>1. reported = delivered \o batch \o events
    BY <1>7 DEF ListenerThrows, NothingDropped
  <2>2. reported = delivered \o (batch \o events)
    BY <2>1, ConcatAssociative DEF QueueTyped
  <2>3. batch \o events \in Seq(Event)
    BY ConcatProperties DEF QueueTyped
  <2>4. IsPrefix(delivered, reported)
    BY <2>2, <2>3, PrefixOfConcat DEF QueueTyped
  <2> QED BY <1>7, <2>4 DEF ListenerThrows, Release, eventVars, NothingDropped
<1>8. CASE DrainEnd \/ SessionClose
  <2>1. UNCHANGED <<batch, delivered, events, reported>>
    BY <1>8 DEF DrainEnd, SessionClose, eventVars
  <2>2. \/ owner \in {"joining", "released"} <=> owner' \in {"joining", "released"}
        \/ owner' = "joining"
    BY <1>8 DEF DrainEnd, SessionClose, Release
  <2>3. reported = delivered \o batch \o events => IsPrefix(delivered, reported)
    <3>1. delivered \o batch \o events = delivered \o (batch \o events)
      BY ConcatAssociative DEF QueueTyped
    <3>2. batch \o events \in Seq(Event)
      BY ConcatProperties DEF QueueTyped
    <3> QED BY <3>1, <3>2, PrefixOfConcat DEF QueueTyped
  <2> QED BY <2>1, <2>2, <2>3 DEF NothingDropped
<1>9. CASE Construct \/ Join
  BY <1>9 DEF Construct, Join, ownerVars, eventVars, NothingDropped
<1>10. CASE UNCHANGED vars
  BY <1>10 DEF vars, ownerVars, eventVars, NothingDropped
<1> QED BY <1>1, <1>2, <1>3, <1>4, <1>5, <1>6, <1>7, <1>8, <1>9, <1>10,
         StepCases DEF OwnerMoves

-----------------------------------------------------------------------------
(* The queues keep within their limits, and the byte counters are right. *)

CommandsBounded ==
  /\ Len(commands) <= Capacity
  /\ commandBytes = Texts(commands) /\ commandBytes <= MaxBytes
EventsBounded ==
  /\ Len(events) <= Capacity + (IF terminal THEN 2 ELSE 0)
  /\ eventBytes = TextEvents(events) /\ eventBytes <= MaxBytes

LEMMA BoundedParts == QueuesBounded <=> CommandsBounded /\ EventsBounded
BY DEF QueuesBounded, CommandsBounded, EventsBounded, TextEvents

LEMMA CommandsBoundedStep ==
  ASSUME Typed, CommandsBounded, [Next]_vars
  PROVE  CommandsBounded'
<1> TypeOK /\ CommandTyped
  BY TypedParts DEF Typed
<1> USE WebSocketAssumption
<1>1. CASE JsSend
  <2>1. CASE Ended \/ CommandsFull
    BY <1>1, <2>1 DEF JsSend, commandVars, CommandsBounded
  <2>2. CASE ~Ended /\ ~CommandsFull
    <3>1. commands' = Append(commands, "text") /\ commandBytes' = commandBytes + 1
      BY <1>1, <2>2 DEF JsSend, Queue
    <3>2. Texts(Append(commands, "text")) = Texts(commands) + 1
      BY CountCommands DEF CommandTyped, Commands
    <3>3. Len(commands') = Len(commands) + 1 /\ Len(commands) \in Nat
      BY <3>1 DEF CommandTyped
    <3>4. Len(commands) + 1 <= Capacity /\ commandBytes + 1 <= MaxBytes
      BY <2>2, <3>3 DEF CommandsFull, CommandTyped
    <3> QED BY <3>1, <3>2, <3>3, <3>4 DEF CommandsBounded
  <2> QED BY <2>1, <2>2
<1>2. CASE JsClose
  <2>1. CASE js = "open" /\ ~Ended /\ Len(commands) < Capacity
    <3>1. commands' = Append(commands, "close") /\ commandBytes' = commandBytes + 0
      BY <1>2, <2>1 DEF JsClose, Queue
    <3>2. Texts(Append(commands, "close")) = Texts(commands) + 0
      BY CountCommands DEF CommandTyped, Commands
    <3>3. Len(commands') = Len(commands) + 1 /\ Len(commands) \in Nat
      BY <3>1 DEF CommandTyped
    <3> QED BY <2>1, <3>1, <3>2, <3>3 DEF CommandsBounded, CommandTyped
  <2>2. CASE ~(js = "open" /\ ~Ended /\ Len(commands) < Capacity)
    BY <1>2, <2>2 DEF JsClose, commandVars, CommandsBounded
  <2> QED BY <2>1, <2>2
<1>3. CASE TakeCommands
  BY <1>3, CountCommands DEF TakeCommands, CommandsBounded
<1>4. CASE EmitStep
  BY <1>4 DEF EmitStep, Open, Sent, Clean, ReportError, ReportAbnormal, IncomingText,
       commandVars, CommandsBounded
<1>5. CASE Quiet
  BY <1>5, QuietLeaves DEF commandVars, CommandsBounded
<1>6. CASE OwnerMoves
  BY <1>6 DEF OwnerMoves, Construct, Drain, ListenerThrows, SessionClose, Deliver,
       DrainEnd, Join, commandVars, CommandsBounded
<1>7. CASE UNCHANGED vars
  BY <1>7 DEF vars, commandVars, CommandsBounded
<1> QED BY <1>1, <1>2, <1>3, <1>4, <1>5, <1>6, <1>7, StepCases

LEMMA EventsBoundedStep ==
  ASSUME Typed, EventsBounded, [Next]_vars
  PROVE  EventsBounded'
<1> TypeOK /\ QueueTyped /\ FlagTyped
  BY TypedParts DEF Typed
<1> USE WebSocketAssumption
<1>1. CASE EmitStep
  <2> PICK event \in Event, next \in WorkerSteps, refusedNext \in WorkerSteps :
        Emits(event, next, refusedNext)
    BY <1>1, EmitStepCases
  <2>1. CASE Refuses(refusedNext)
    BY <2>1 DEF Refuses, eventVars, EventsBounded
  <2>2. CASE Accepts(event, next)
    <3>1. TextEvents(events') = TextEvents(events) + Bytes(event)
      BY <2>2, CountEvents DEF Accepts, QueueTyped
    <3>2. Len(events') = Len(events) + 1 /\ Len(events) \in Nat
      BY <2>2 DEF Accepts, QueueTyped
    <3>3. Len(events) <= Capacity /\ eventBytes' = eventBytes + Bytes(event)
      BY <2>2 DEF Accepts, EventsBounded, Ended
    <3>4. CASE event.kind \in Close
      <4>1. Bytes(event) = 0 /\ terminal'
        BY <2>2, <3>4 DEF Accepts, Bytes, Close
      <4> QED BY <3>1, <3>2, <3>3, <4>1 DEF EventsBounded, QueueTyped
    <3>5. CASE event.kind \notin Close
      <4>1. ~terminal'
        BY <2>2, <3>5 DEF Accepts
      <4>2. ~(Len(events) >= Capacity) /\ ~(eventBytes + Bytes(event) > MaxBytes)
        BY <2>2, <3>5 DEF Accepts, EventsFull
      <4>3. Len(events) < Capacity /\ eventBytes + Bytes(event) <= MaxBytes
        BY <3>2, <4>2 DEF QueueTyped, Bytes
      <4> QED BY <3>1, <3>2, <3>3, <4>1, <4>3 DEF EventsBounded
    <3> QED BY <3>4, <3>5
  <2>3. CASE Overflows(event, refusedNext)
    <3> DEFINE failure == Report("error")
               close == Report("abnormal")
    <3>1. /\ failure \in Event /\ close \in Event
          /\ Bytes(failure) = 0 /\ Bytes(close) = 0
      BY ReportType DEF Kinds, Bytes, Report
    <3>2. /\ events' = Append(Append(events, failure), close)
          /\ eventBytes' = eventBytes /\ terminal' /\ ~terminal
      BY <2>3 DEF Overflows, Ended
    <3> HIDE DEF failure, close
    <3>3. Append(events, failure) \in Seq(Event)
      BY <3>1 DEF QueueTyped
    <3>4. /\ TextEvents(Append(events, failure)) = TextEvents(events) + 0
          /\ TextEvents(events') = TextEvents(Append(events, failure)) + 0
          /\ TextEvents(events) \in Nat
      BY <3>1, <3>2, <3>3, CountEvents DEF QueueTyped
    <3>5. Len(events') = Len(events) + 2 /\ Len(events) \in Nat
      BY <3>1, <3>2, <3>3 DEF QueueTyped
    <3> QED BY <3>2, <3>4, <3>5 DEF EventsBounded
  <2> QED BY <2>1, <2>2, <2>3, EmitCases DEF Emits
<1>2. CASE Drain
  <2>1. Len(events') = 0 /\ TextEvents(events') = 0 /\ eventBytes' = 0
    BY <1>2, CountEvents DEF Drain
  <2> QED BY <2>1 DEF EventsBounded
<1>3. CASE Quiet
  BY <1>3, QuietLeaves DEF eventVars, flagVars, EventsBounded
<1>4. CASE JsSend \/ JsClose
  BY <1>4 DEF JsSend, JsClose, eventVars, EventsBounded
<1>5. CASE TakeCommands
  BY <1>5 DEF TakeCommands, eventVars, flagVars, EventsBounded
<1>6. CASE OwnerMoves /\ ~Drain
  BY <1>6 DEF OwnerMoves, Construct, ListenerThrows, SessionClose, Deliver, DrainEnd,
       Join, eventVars, flagVars, EventsBounded
<1>7. CASE UNCHANGED vars
  BY <1>7 DEF vars, eventVars, flagVars, EventsBounded
<1> QED BY <1>1, <1>2, <1>3, <1>4, <1>5, <1>6, <1>7, StepCases

-----------------------------------------------------------------------------
(* The end of a connection is reported once, as an error and a close. *)

LEMMA ReportedLeft ==
  ASSUME Typed, [Next]_vars
  PROVE  EmitStep \/ UNCHANGED <<reported, terminal>>
<1> TypeOK
  BY DEF Typed
<1>1. CASE Quiet
  BY <1>1, QuietLeaves DEF eventVars, flagVars
<1>2. CASE JsSend \/ JsClose
  BY <1>2 DEF JsSend, JsClose, eventVars
<1>3. CASE TakeCommands
  BY <1>3 DEF TakeCommands, eventVars, flagVars
<1>4. CASE OwnerMoves
  BY <1>4 DEF OwnerMoves, Construct, Drain, ListenerThrows, SessionClose, Deliver,
       DrainEnd, Join, eventVars, flagVars
<1>5. CASE UNCHANGED vars
  BY <1>5 DEF vars, eventVars, flagVars
<1> QED BY <1>1, <1>2, <1>3, <1>4, <1>5, StepCases

LEMMA EndReported ==
  ASSUME Typed, TerminalIsClosed, EndsWithClose, ErrorComesFirst, [Next]_vars
  PROVE  TerminalIsClosed' /\ EndsWithClose'
<1> TypeOK /\ QueueTyped /\ FlagTyped
  BY TypedParts DEF Typed
<1>1. CASE EmitStep
  <2> PICK event \in Event, next \in WorkerSteps, refusedNext \in WorkerSteps :
        Emission(event, next, refusedNext) /\ Emits(event, next, refusedNext)
    BY <1>1, EmitStepCases
  <2>1. CASE Refuses(refusedNext)
    BY <2>1 DEF Refuses, eventVars, TerminalIsClosed, EndsWithClose
  <2>2. CASE Accepts(event, next)
    <3>1. /\ reported' = Append(reported, event) /\ terminal' = (event.kind \in Close)
          /\ \A i \in 1 .. Len(reported) : reported[i].kind \notin Close
      BY <2>2 DEF Accepts, Ended, TerminalIsClosed, QueueTyped
    <3>2. /\ DOMAIN reported' = 1 .. Len(reported) + 1 /\ Len(reported) \in Nat
          /\ Len(reported') = Len(reported) + 1
          /\ \A i \in 1 .. Len(reported) : reported'[i] = reported[i]
          /\ reported'[Len(reported) + 1] = event
      BY <3>1, AppendProperties, LenProperties DEF QueueTyped
    <3>3. event.kind = "abnormal" =>
            Len(reported) > 0 /\ reported[Len(reported)].kind = "error"
      <4>1. event.kind = "abnormal" => pc = "abnormal"
        BY DEF Emission, Report
      <4>2. ~Ended
        BY <2>2 DEF Accepts
      <4> QED BY <4>1, <4>2 DEF ErrorComesFirst, QueueTyped
    <3>4. TerminalIsClosed'
      <4>1. terminal' <=> event.kind \in Close
        BY <3>1
      <4>2. (\E i \in DOMAIN reported' : reported'[i].kind \in Close)
              <=> event.kind \in Close
        BY <3>1, <3>2
      <4> QED BY <4>1, <4>2 DEF TerminalIsClosed
    <3>5. EndsWithClose'
      <4> SUFFICES ASSUME NEW i \in 1 .. Len(reported) + 1, reported'[i].kind \in Close
                   PROVE  /\ i = Len(reported')
                          /\ reported'[i].kind = "abnormal" =>
                               i > 1 /\ reported'[i - 1].kind = "error"
        BY <3>2 DEF EndsWithClose
      <4>1. i = Len(reported) + 1
        BY <3>1, <3>2
      <4> QED BY <3>2, <3>3, <4>1
    <3> QED BY <3>4, <3>5
  <2>3. CASE Overflows(event, refusedNext)
    <3> DEFINE failure == Report("error")
               close == Report("abnormal")
               failed == Append(reported, failure)
    <3>1. /\ failure \in Event /\ close \in Event
          /\ failure.kind = "error" /\ close.kind = "abnormal"
      BY ReportType DEF Kinds, Report
    <3>2. /\ reported' = Append(failed, close) /\ terminal'
          /\ \A i \in 1 .. Len(reported) : reported[i].kind \notin Close
      BY <2>3 DEF Overflows, Ended, TerminalIsClosed, QueueTyped
    <3> HIDE DEF failure, close
    <3>3. /\ failed \in Seq(Event) /\ Len(failed) = Len(reported) + 1
          /\ \A i \in 1 .. Len(reported) : failed[i] = reported[i]
          /\ failed[Len(reported) + 1] = failure /\ Len(reported) \in Nat
      BY <3>1, AppendProperties, LenProperties DEF QueueTyped
    <3> HIDE DEF failed
    <3>4. /\ DOMAIN reported' = 1 .. Len(reported) + 2
          /\ Len(reported') = Len(reported) + 2
          /\ \A i \in 1 .. Len(reported) : reported'[i] = reported[i]
          /\ reported'[Len(reported) + 1] = failure
          /\ reported'[Len(reported) + 2] = close
      BY <3>1, <3>2, <3>3, AppendProperties, LenProperties
    <3>5. TerminalIsClosed'
      BY <3>1, <3>2, <3>3, <3>4 DEF TerminalIsClosed, Close
    <3>6. EndsWithClose'
      <4> SUFFICES ASSUME NEW i \in 1 .. Len(reported) + 2, reported'[i].kind \in Close
                   PROVE  /\ i = Len(reported')
                          /\ reported'[i].kind = "abnormal" =>
                               i > 1 /\ reported'[i - 1].kind = "error"
        BY <3>4 DEF EndsWithClose
      <4>1. i = Len(reported) + 2
        BY <3>1, <3>2, <3>3, <3>4 DEF Close
      <4> QED BY <3>1, <3>3, <3>4, <4>1
    <3> QED BY <3>5, <3>6
  <2> QED BY <2>1, <2>2, <2>3, EmitCases DEF Emits
<1>2. CASE UNCHANGED <<reported, terminal>>
  BY <1>2 DEF TerminalIsClosed, EndsWithClose
<1> QED BY <1>1, <1>2, ReportedLeft

LEMMA EndedStays ==
  ASSUME Typed, Ended, [Next]_vars
  PROVE  Ended'
<1> TypeOK
  BY DEF Typed
<1> USE DEF Ended
<1>1. CASE EmitStep
  <2> PICK event \in Event, next \in WorkerSteps, refusedNext \in WorkerSteps :
        Emits(event, next, refusedNext)
    BY <1>1, EmitStepCases
  <2> QED BY EmitCases DEF Emits, Refuses, Accepts, Overflows
<1>2. CASE Quiet
  BY <1>2, QuietLeaves DEF flagVars
<1>3. CASE JsSend \/ JsClose
  BY <1>3 DEF JsSend, JsClose
<1>4. CASE TakeCommands
  BY <1>4 DEF TakeCommands, flagVars
<1>5. CASE OwnerMoves
  BY <1>5 DEF OwnerMoves, Construct, Drain, ListenerThrows, SessionClose, Deliver,
       DrainEnd, Join, Release, flagVars
<1>6. CASE UNCHANGED vars
  BY <1>6 DEF vars, flagVars
<1> QED BY <1>1, <1>2, <1>3, <1>4, <1>5, <1>6, StepCases

\* Where the worker is after a step that is not its own.
LEMMA WorkerLeft ==
  ASSUME JsSend \/ JsClose \/ (OwnerMoves /\ ~Construct) \/ UNCHANGED vars
         \/ (\E kind \in PeerFrames : PeerSends(kind)) \/ PeerGoes
  PROVE  UNCHANGED workerVars
BY DEF JsSend, JsClose, OwnerMoves, Drain, ListenerThrows, SessionClose, Deliver,
       DrainEnd, Join, PeerSends, PeerGoes, vars

LEMMA ErrorComesFirstStep ==
  ASSUME Typed, ErrorComesFirst, [Next]_vars
  PROVE  ErrorComesFirst'
<1> TypeOK /\ QueueTyped /\ WorkerTyped
  BY TypedParts DEF Typed
<1> DEFINE Reporting == pc = "abnormal" \/ (pc = "callback" /\ then = "abnormal")
<1>1. CASE EmitStep
  <2> PICK event \in Event, next \in WorkerSteps, refusedNext \in WorkerSteps :
        Emission(event, next, refusedNext) /\ Emits(event, next, refusedNext)
    BY <1>1, EmitStepCases
  <2>1. CASE Refuses(refusedNext)
    BY <2>1, EndedStays DEF Refuses, ErrorComesFirst
  <2>2. CASE Accepts(event, next)
    <3>1. next = "abnormal" => event.kind = "error"
      BY DEF Emission, Report
    <3>2. /\ reported' = Append(reported, event)
          /\ pc' = "callback" /\ then' = next
      BY <2>2 DEF Accepts
    <3>3. reported' # <<>> /\ reported'[Len(reported')] = event
      BY <3>2, AppendProperties DEF QueueTyped
    <3> QED BY <3>1, <3>2, <3>3 DEF ErrorComesFirst
  <2>3. CASE Overflows(event, refusedNext)
    BY <2>3 DEF Overflows, ErrorComesFirst, Ended
  <2> QED BY <2>1, <2>2, <2>3, EmitCases DEF Emits
<1>2. CASE ~EmitStep
  <2>1. UNCHANGED <<reported, terminal>>
    BY <1>2, ReportedLeft
  <2>2. Reporting' => Reporting \/ Ended
    <3>1. CASE WriteDone
      BY <3>1 DEF WriteDone, WorkerTyped, Writes
    <3>2. CASE QuietWorker /\ ~WriteDone
      BY <3>2 DEF QuietWorker, Connect, IoWoken, NextCommand, CommandsDone,
           WriteFails, IncomingText, IncomingControl, IncomingDone, Woken, Readable,
           CloseTimeout, Read, ReadFails, Failed, Callback, Fails, Ended
    <3>3. CASE TakeCommands
      BY <3>3 DEF TakeCommands
    <3>4. CASE Construct
      BY <3>4 DEF Construct
    <3>5. CASE UNCHANGED workerVars
      BY <3>5 DEF workerVars
    <3> QED BY <1>2, <3>1, <3>2, <3>3, <3>4, <3>5, StepCases, WorkerLeft DEF Quiet
  <2>3. CASE Ended
    BY <2>3, EndedStays DEF ErrorComesFirst
  <2>4. CASE ~Ended
    <3>1. Reporting' => Reporting
      BY <2>2, <2>4
    <3> QED BY <2>1, <2>4, <3>1 DEF ErrorComesFirst
  <2> QED BY <2>3, <2>4
<1> QED BY <1>1, <1>2

-----------------------------------------------------------------------------
(* The commands on their way. *)

LEMMA ThenIsNextStep ==
  ASSUME Typed, ThenIsNext, [Next]_vars
  PROVE  ThenIsNext'
<1> TypeOK /\ WorkerTyped
  BY TypedParts DEF Typed
<1> USE DEF ThenIsNext
<1>1. CASE EmitStep
  <2> PICK event \in Event, next \in WorkerSteps, refusedNext \in WorkerSteps :
        Emission(event, next, refusedNext) /\ Emits(event, next, refusedNext)
    BY <1>1, EmitStepCases
  <2> QED BY EmitCases DEF Emission, Emits, Refuses, Accepts, Overflows
<1>2. CASE WriteDone
  BY <1>2 DEF WriteDone, WorkerTyped, Writes
<1>3. CASE QuietWorker /\ ~WriteDone
  BY <1>3 DEF QuietWorker, Connect, IoWoken, NextCommand, CommandsDone, WriteFails,
       IncomingText, IncomingControl, IncomingDone, Woken, Readable,
       CloseTimeout, Read, ReadFails, Failed, Callback, Fails
<1>4. CASE TakeCommands
  BY <1>4 DEF TakeCommands
<1>5. CASE Construct
  BY <1>5 DEF Construct
<1>6. CASE UNCHANGED workerVars
  BY <1>6 DEF workerVars
<1> QED BY <1>1, <1>2, <1>3, <1>4, <1>5, <1>6, StepCases, WorkerLeft DEF Quiet

LEMMA CmdsHeldStep ==
  ASSUME Typed, OwnerKept, ThenIsNext, CmdsHeld, [Next]_vars
  PROVE  CmdsHeld'
<1> TypeOK /\ CommandTyped
  BY TypedParts DEF Typed
<1> USE DEF CmdsHeld
<1>1. CASE EmitStep
  <2> PICK event \in Event, next \in WorkerSteps, refusedNext \in WorkerSteps :
        Emission(event, next, refusedNext) /\ Emits(event, next, refusedNext)
    BY <1>1, EmitStepCases
  <2> QED BY EmitCases DEF Emission, Emits, Refuses, Accepts, Overflows
<1>2. CASE NextCommand
  BY <1>2, HeadTailProperties DEF NextCommand, CommandTyped
<1>3. CASE WriteDone
  BY <1>3 DEF WriteDone, Commands
<1>4. CASE QuietWorker /\ ~NextCommand /\ ~WriteDone
  BY <1>4 DEF QuietWorker, Connect, IoWoken, CommandsDone, WriteFails, IncomingText,
       IncomingControl, IncomingDone, Woken, Readable, CloseTimeout, Read, ReadFails,
       Failed, Callback, Fails
<1>5. CASE TakeCommands
  BY <1>5 DEF TakeCommands
<1>6. CASE Construct
  BY <1>6 DEF Construct, OwnerKept
<1>7. CASE UNCHANGED workerVars
  BY <1>7 DEF workerVars
<1> QED BY <1>1, <1>2, <1>3, <1>4, <1>5, <1>6, <1>7, StepCases, WorkerLeft DEF Quiet

\* The object only moves forward.
LEMMA UnclosedBefore ==
  ASSUME Typed, [Next]_vars, Unclosed'
  PROVE  Unclosed
<1> TypeOK
  BY DEF Typed
<1> USE DEF Unclosed
<1>1. CASE EmitStep
  BY <1>1 DEF EmitStep, Open, Sent, Clean, ReportError, ReportAbnormal, IncomingText,
       jsVars
<1>2. CASE Quiet
  BY <1>2, QuietLeaves DEF jsVars
<1>3. CASE JsSend \/ JsClose
  BY <1>3 DEF JsSend, JsClose
<1>4. CASE TakeCommands
  BY <1>4 DEF TakeCommands, jsVars
<1>5. CASE OwnerMoves
  BY <1>5 DEF OwnerMoves, Construct, Drain, ListenerThrows, SessionClose, Deliver,
       DrainEnd, Join, NextState, jsVars
<1>6. CASE UNCHANGED vars
  BY <1>6 DEF vars, jsVars
<1> QED BY <1>1, <1>2, <1>3, <1>4, <1>5, <1>6, StepCases

LEMMA CloseAskedStep ==
  ASSUME Typed, CloseAsked, [Next]_vars
  PROVE  CloseAsked'
<1> SUFFICES ASSUME Unclosed'
             PROVE  /\ ~closing' /\ frame' # "close"
                    /\ \A i \in DOMAIN commands' : commands'[i] # "close"
                    /\ \A i \in DOMAIN cmds' : cmds'[i] # "close"
  BY DEF CloseAsked
<1> TypeOK /\ CommandTyped
  BY TypedParts DEF Typed
<1> /\ ~closing /\ frame # "close"
    /\ \A i \in 1 .. Len(commands) : commands[i] # "close"
    /\ \A i \in 1 .. Len(cmds) : cmds[i] # "close"
  BY UnclosedBefore DEF CloseAsked, CommandTyped
<1>1. CASE EmitStep
  BY <1>1 DEF EmitStep, Open, Sent, Clean, ReportError, ReportAbnormal, IncomingText,
       commandVars
<1>2. CASE NextCommand
  <2>1. /\ Head(cmds) = cmds[1] /\ 1 \in 1 .. Len(cmds)
        /\ Tail(cmds) \in Seq(Commands) /\ Len(Tail(cmds)) = Len(cmds) - 1
        /\ \A i \in 1 .. Len(Tail(cmds)) : Tail(cmds)[i] = cmds[i + 1]
    BY <1>2, HeadTailProperties, LenProperties, EmptySeq DEF NextCommand, CommandTyped
  <2>2. \A i \in DOMAIN Tail(cmds) : Tail(cmds)[i] # "close"
    BY <2>1
  <2> QED BY <1>2, <2>1, <2>2 DEF NextCommand, Alone, commandVars
<1>3. CASE Quiet /\ ~NextCommand
  <2>1. UNCHANGED <<commands, cmds>>
    BY <1>3 DEF Quiet, QuietWorker, PeerSends, PeerGoes, Connect, IoWoken, CommandsDone,
         WriteDone, WriteFails, IncomingText, IncomingControl, IncomingDone, Woken,
         Readable, CloseTimeout, Read, ReadFails, Failed, Callback, Alone, commandVars,
         workerVars
  <2>2. ~closing'
    BY <1>3 DEF Quiet, QuietWorker, PeerSends, PeerGoes, Connect, IoWoken, CommandsDone,
         WriteDone, WriteFails, IncomingText, IncomingControl, IncomingDone, Woken,
         Readable, CloseTimeout, Read, ReadFails, Failed, Callback, workerVars
  <2>3. frame' # "close"
    <3>1. CASE IncomingControl
      <4>1. Head(incoming).kind \in {"ping", "close", "bad"}
        BY <3>1, FrameHead DEF IncomingControl, Frame, PeerFrames
      <4> QED BY <3>1, <4>1 DEF IncomingControl
    <3> QED
      BY <1>3, <3>1 DEF Quiet, QuietWorker, PeerSends, PeerGoes, Connect, IoWoken,
           CommandsDone, WriteDone, WriteFails, IncomingText, IncomingDone, Woken,
           Readable, CloseTimeout, Read, ReadFails, Failed, Callback, workerVars
  <2> QED BY <2>1, <2>2, <2>3 DEF CommandTyped
<1>4. CASE JsSend
  <2>1. UNCHANGED workerVars /\ (UNCHANGED commands \/ commands' = Append(commands, "text"))
    BY <1>4 DEF JsSend, Queue, commandVars
  <2>2. \A i \in DOMAIN Append(commands, "text") : Append(commands, "text")[i] # "close"
    BY DEF CommandTyped
  <2> QED BY <2>1, <2>2 DEF workerVars, CommandTyped
<1>5. CASE JsClose
  BY <1>5 DEF JsClose, Unclosed
<1>6. CASE TakeCommands
  BY <1>6 DEF TakeCommands, CommandTyped
<1>7. CASE Construct
  BY <1>7 DEF Construct, commandVars, CommandTyped
<1>8. CASE (OwnerMoves /\ ~Construct) \/ UNCHANGED vars
  <2>1. UNCHANGED workerVars
    BY <1>8, WorkerLeft
  <2>2. UNCHANGED commandVars
    BY <1>8 DEF OwnerMoves, Drain, ListenerThrows, SessionClose, Deliver, DrainEnd, Join,
         vars
  <2> QED BY <2>1, <2>2 DEF workerVars, commandVars, CommandTyped
<1> QED BY <1>1, <1>2, <1>3, <1>4, <1>5, <1>6, <1>7, <1>8, StepCases

-----------------------------------------------------------------------------
(* bufferedAmount of an open socket is what it has sent and not heard of. *)

HasError == \E i \in DOMAIN reported : reported[i].kind = "error"

\* A connection that is over or failing stays so.
LEMMA OverStays ==
  ASSUME Typed, OwnerKept, Over, [Next]_vars
  PROVE  Over'
<1> TypeOK /\ QueueTyped /\ WorkerTyped
  BY TypedParts DEF Typed
<1>1. Over <=> Ended \/ HasError \/ pc \in {"failed", "error", "abnormal", "done"}
  BY DEF Over, WorkerFailed, HasError
<1>2. Over' <=> Ended' \/ HasError' \/ pc' \in {"failed", "error", "abnormal", "done"}
  BY DEF Over, WorkerFailed, HasError
<1>3. CASE Ended
  BY <1>2, <1>3, EndedStays
<1>4. CASE EmitStep /\ ~Ended
  <2> PICK event \in Event, next \in WorkerSteps, refusedNext \in WorkerSteps :
        Emission(event, next, refusedNext) /\ Emits(event, next, refusedNext)
    BY <1>4, EmitStepCases
  <2>1. ~Refuses(refusedNext)
    BY <1>4 DEF Refuses
  <2>2. CASE Accepts(event, next)
    <3>1. /\ reported' = Append(reported, event)
          /\ terminal' = (event.kind \in Close)
      BY <2>2 DEF Accepts
    <3>2. /\ DOMAIN reported = 1 .. Len(reported) /\ Len(reported) \in Nat
          /\ DOMAIN reported' = 1 .. Len(reported) + 1
          /\ \A i \in 1 .. Len(reported) : reported'[i] = reported[i]
          /\ reported'[Len(reported) + 1] = event
      BY <3>1, AppendProperties, LenProperties DEF QueueTyped
    <3>3. HasError \/ event.kind = "error" => HasError'
      BY <3>2 DEF HasError
    <3>4. pc \in {"failed", "error", "abnormal", "done"} =>
            event.kind = "error" \/ event.kind \in Close
      BY DEF Emission, Report, Close
    <3>5. event.kind \in Close => Ended'
      BY <3>1 DEF Ended
    <3> QED BY <1>1, <1>2, <1>4, <3>3, <3>4, <3>5
  <2>3. CASE Overflows(event, refusedNext)
    BY <1>2, <2>3 DEF Overflows, Ended
  <2> QED BY <2>1, <2>2, <2>3, EmitCases DEF Emits
<1>5. CASE ~EmitStep /\ ~Ended
  <2>1. HasError' <=> HasError
    BY <1>5, ReportedLeft DEF HasError
  <2>2. pc \in {"failed", "error", "abnormal", "done"} => pc' \in {"error", "abnormal"} \/ pc' = pc
    <3>1. CASE QuietWorker
      BY <3>1 DEF QuietWorker, Connect, IoWoken, NextCommand, CommandsDone, WriteDone,
           WriteFails, IncomingText, IncomingControl, IncomingDone, Woken, Readable,
           CloseTimeout, Read, ReadFails, Failed, Callback
    <3>2. CASE TakeCommands
      BY <3>2 DEF TakeCommands
    <3>3. CASE Construct
      BY <3>3 DEF Construct, OwnerKept
    <3>4. CASE UNCHANGED workerVars
      BY <3>4 DEF workerVars
    <3> QED BY <1>5, <3>1, <3>2, <3>3, <3>4, StepCases, WorkerLeft DEF Quiet
  <2> QED BY <1>1, <1>2, <1>5, <2>1, <2>2
<1> QED BY <1>3, <1>4, <1>5

LEMMA BufferedExactStep ==
  ASSUME Typed, OwnerKept, ThenIsNext, CmdsHeld, CloseAsked, BufferedExact, [Next]_vars
  PROVE  BufferedExact'
<1> SUFFICES ASSUME Unclosed', ~Over'
             PROVE  buffered' = Texts(commands') + Texts(cmds') + Sents(events')
                                + Sents(batch') + InHand'
  BY DEF BufferedExact, Texts, Sents, Count
<1> TypeOK /\ ObjectTyped /\ QueueTyped /\ CommandTyped /\ WorkerTyped
  BY TypedParts DEF Typed
<1> ~Over /\ Unclosed
  BY OverStays, UnclosedBefore
<1>0. /\ Texts(commands) \in Nat /\ Texts(cmds) \in Nat
      /\ Sents(events) \in Nat /\ Sents(batch) \in Nat /\ InHand \in 0 .. 1
      /\ buffered = Texts(commands) + Texts(cmds) + Sents(events) + Sents(batch) + InHand
      /\ buffered \in Nat /\ sends \in Nat
  BY CountCommands, CountEvents, WebSocketAssumption
     DEF BufferedExact, QueueTyped, CommandTyped, InHand, ObjectTyped
<1>1. ~Ended' /\ pc' \notin {"failed", "error", "abnormal", "done"}
      /\ ~Ended /\ pc \notin {"failed", "error", "abnormal", "done"}
  BY DEF Over, WorkerFailed
<1>2. ~stopped' /\ ~terminal'
  BY <1>1 DEF Ended
<1>3. CASE EmitStep
  <2> PICK event \in Event, next \in WorkerSteps, refusedNext \in WorkerSteps :
        Emission(event, next, refusedNext) /\ Emits(event, next, refusedNext)
    BY <1>3, EmitStepCases
  <2>1. Accepts(event, next)
    BY <1>1, <1>2, EmitCases DEF Emits, Refuses, Overflows
  <2>2. UNCHANGED <<buffered, commands, cmds, batch>>
    BY DEF Emits, jsVars, commandVars, ownerVars
  <2>3. Sents(events') = Sents(events) + (IF event.kind = "sent" THEN 1 ELSE 0)
    BY <2>1, CountEvents DEF Accepts, QueueTyped
  <2>4. event.kind = "sent" <=> pc = "sent"
    BY DEF Emission, Report
  <2>5. InHand' = 0 /\ InHand = IF pc = "sent" THEN 1 ELSE 0
    BY <2>1 DEF Accepts, InHand, Emission
  <2> QED BY <1>0, <2>2, <2>3, <2>4, <2>5
<1>4. CASE JsSend
  <2>1. js' = "open" /\ ~CommandsFull
    BY <1>1, <1>4 DEF JsSend, Unclosed
  <2>2. /\ commands' = Append(commands, "text") /\ buffered' = buffered + 1
        /\ UNCHANGED <<workerVars, events, batch>>
    BY <1>1, <1>4, <2>1 DEF JsSend, Queue, eventVars, ownerVars
  <2>3. Texts(commands') = Texts(commands) + 1
    BY <2>2, CountCommands DEF CommandTyped, Commands
  <2> QED BY <1>0, <2>2, <2>3 DEF workerVars, InHand
<1>5. CASE JsClose
  BY <1>5 DEF JsClose, Unclosed
<1>6. CASE TakeCommands
  <2>1. pc = "loop" /\ pc' = "commands" /\ cmds = <<>>
    BY <1>1, <1>6 DEF TakeCommands, CmdsHeld
  <2>2. /\ cmds' = commands /\ commands' = <<>>
        /\ UNCHANGED <<buffered, events, batch>>
    BY <1>6 DEF TakeCommands, jsVars, ownerVars, eventVars
  <2>3. Texts(cmds) = 0 /\ Texts(commands') = 0 /\ InHand = 0 /\ InHand' = 0
    BY <2>1, <2>2, CountCommands DEF InHand
  <2> QED BY <1>0, <2>2, <2>3
<1>7. CASE NextCommand
  <2>1. UNCHANGED <<buffered, events, batch, commands>>
    BY <1>7 DEF NextCommand, Alone, jsVars, ownerVars, eventVars, commandVars
  <2>2. /\ cmds # <<>> /\ cmds' = Tail(cmds) /\ pc = "commands"
        /\ frame' = Head(cmds) /\ pc' = "writing"
    BY <1>7 DEF NextCommand, CloseAsked
  <2>3. Texts(cmds') = Texts(cmds) - (IF Head(cmds) = "text" THEN 1 ELSE 0)
    BY <2>2, CountCommands DEF CommandTyped
  <2>4. InHand = 0 /\ InHand' = IF Head(cmds) = "text" THEN 1 ELSE 0
    BY <2>2 DEF InHand
  <2> QED BY <1>0, <2>1, <2>3, <2>4
<1>8. CASE Quiet /\ ~NextCommand
  <2>1. UNCHANGED <<buffered, events, batch, commands>>
    BY <1>8, QuietLeaves DEF jsVars, ownerVars, eventVars, commandVars
  <2>2. cmds' = cmds
    BY <1>8 DEF Quiet, QuietWorker, PeerSends, PeerGoes, Connect, IoWoken, CommandsDone,
         WriteDone, WriteFails, IncomingText, IncomingControl, IncomingDone, Woken,
         Readable, CloseTimeout, Read, ReadFails, Failed, Callback, workerVars
  <2>3. InHand' = InHand
    <3>1. CASE WriteDone
      BY <3>1 DEF WriteDone, InHand, WorkerTyped, Writes
    <3>2. CASE IncomingControl
      <4>1. Head(incoming).kind \in {"ping", "close", "bad"}
        BY <3>2, FrameHead DEF IncomingControl, Frame, PeerFrames
      <4>2. pc = "incoming" /\ (pc' = "clean" \/ (pc' = "writing" /\ frame' # "text"))
        BY <3>2, <4>1 DEF IncomingControl
      <4> QED BY <4>2 DEF InHand
    <3>3. CASE Callback
      BY <3>3 DEF Callback, ThenIsNext, InHand
    <3>4. CASE IoWoken
      BY <1>1, <3>4 DEF IoWoken, InHand
    <3>5. CASE PeerGoes \/ \E kind \in PeerFrames : PeerSends(kind)
      BY <3>5 DEF PeerGoes, PeerSends, workerVars, InHand
    <3>6. CASE QuietWorker /\ ~NextCommand /\ ~WriteDone /\ ~IncomingControl /\ ~Callback
               /\ ~IoWoken
      BY <1>1, <3>6 DEF QuietWorker, Connect, CommandsDone, WriteFails, IncomingText,
           IncomingDone, Woken, Readable, CloseTimeout, Read, ReadFails, Failed, Fails,
           InHand
    <3> QED BY <1>8, <3>1, <3>2, <3>3, <3>4, <3>5, <3>6 DEF Quiet
  <2> QED BY <1>0, <2>1, <2>2, <2>3
<1>9. CASE Drain
  <2>1. batch = <<>>
    BY <1>9 DEF Drain, OwnerKept
  <2>2. /\ batch' = events /\ events' = <<>>
        /\ UNCHANGED <<buffered, commands, workerVars>>
    BY <1>9 DEF Drain, jsVars, commandVars
  <2>3. Sents(batch) = 0 /\ Sents(events') = 0
    BY <2>1, <2>2, CountEvents
  <2> QED BY <1>0, <2>2, <2>3 DEF workerVars, InHand
<1>10. CASE Deliver
  <2>1. /\ batch # <<>> /\ batch' = Tail(batch)
        /\ UNCHANGED <<events, commands, workerVars>>
    BY <1>10 DEF Deliver, eventVars, commandVars
  <2>2. Sents(Tail(batch)) = Sents(batch) - (IF Head(batch).kind = "sent" THEN 1 ELSE 0)
        /\ Sents(Tail(batch)) \in Nat
    BY <2>1, CountEvents, HeadTailProperties DEF QueueTyped
  <2>3. js # "closed"
    BY DEF Unclosed
  <2>4. buffered' = IF Head(batch).kind = "sent" /\ buffered > 0
                    THEN buffered - 1 ELSE buffered
    BY <1>10, <2>3 DEF Deliver
  <2>5. Head(batch).kind = "sent" => buffered > 0
    BY <1>0, <2>2
  <2> QED BY <1>0, <2>1, <2>2, <2>4, <2>5 DEF workerVars, InHand
<1>11. CASE Construct
  BY <1>0, <1>11 DEF Construct, eventVars, commandVars, OwnerKept, InHand
<1>12. CASE ListenerThrows
  BY <1>12 DEF ListenerThrows, Unclosed
<1>13. CASE SessionClose \/ DrainEnd \/ Join
  <2>1. UNCHANGED <<buffered, events, batch, commands, workerVars>>
    BY <1>13 DEF SessionClose, DrainEnd, Join, jsVars, eventVars, commandVars
  <2> QED BY <1>0, <2>1 DEF workerVars, InHand
<1>14. CASE UNCHANGED vars
  BY <1>0, <1>14 DEF vars, jsVars, ownerVars, eventVars, commandVars, workerVars, InHand
<1> QED BY <1>3, <1>4, <1>5, <1>6, <1>7, <1>8, <1>9, <1>10, <1>11, <1>12, <1>13,
         <1>14, StepCases DEF OwnerMoves

-----------------------------------------------------------------------------
LEMMA ConnectionInit == Init => ConnectionInv
<1> SUFFICES ASSUME Init
             PROVE  ConnectionInv
  OBVIOUS
<1>1. Typed
  BY TypedInit
<1>2. QueuesBounded
  BY CountCommands, CountEvents, WebSocketAssumption
     DEF Init, QueuesBounded, TextEvents
<1>3. NothingDropped
  BY ConcatEmptySeq DEF Init, NothingDropped
<1>4. OwnerKept /\ ThenIsNext /\ CmdsHeld /\ CloseAsked
  BY DEF Init, OwnerKept, ThenIsNext, CmdsHeld, CloseAsked
<1>5. TerminalIsClosed /\ EndsWithClose /\ ErrorComesFirst
  BY DEF Init, TerminalIsClosed, EndsWithClose, ErrorComesFirst
<1>6. BufferedExact
  BY CountCommands, CountEvents DEF Init, BufferedExact, InHand
<1> QED BY <1>1, <1>2, <1>3, <1>4, <1>5, <1>6 DEF ConnectionInv

LEMMA ConnectionStep == ConnectionInv /\ [Next]_vars => ConnectionInv'
<1> SUFFICES ASSUME ConnectionInv, [Next]_vars
             PROVE  ConnectionInv'
  OBVIOUS
<1> USE DEF ConnectionInv
<1>1. Typed' /\ OwnerKept' /\ NothingDropped'
  BY TypedStep, OwnerKeptStep, NothingDroppedStep
<1>2. QueuesBounded'
  <2>1. CommandsBounded' /\ EventsBounded'
    BY BoundedParts, CommandsBoundedStep, EventsBoundedStep
  <2>2. QueuesBounded' <=> (CommandsBounded /\ EventsBounded)'
    BY BoundedParts, PTL
  <2> QED BY <2>1, <2>2
<1>3. TerminalIsClosed' /\ EndsWithClose' /\ ErrorComesFirst'
  BY EndReported, ErrorComesFirstStep
<1>4. ThenIsNext' /\ CmdsHeld' /\ CloseAsked' /\ BufferedExact'
  BY ThenIsNextStep, CmdsHeldStep, CloseAskedStep, BufferedExactStep
<1> QED BY <1>1, <1>2, <1>3, <1>4

LEMMA ConnectionHolds == Spec => []ConnectionInv
BY ConnectionInit, ConnectionStep, PTL DEF Spec

\* Queues of any size keep within their limits, and what the worker reports is
\* handed over completely and in that order until the connection is released.
THEOREM QueuesAreSound == Spec => []QueuesSound
<1>1. ConnectionInv => QueuesSound
  BY DEF ConnectionInv, QueuesSound
<1> QED BY <1>1, ConnectionHolds, PTL

\* A connection ends once: with the peer's close, or with an error and a close.
THEOREM ConnectionEndsOnce == Spec => []EndsWithClose
<1>1. ConnectionInv => EndsWithClose
  BY DEF ConnectionInv
<1> QED BY <1>1, ConnectionHolds, PTL

\* An open socket counts exactly the messages it sent and has not heard of.
THEOREM BufferedAmountIsExact == Spec => []BufferedIsUnsent
<1>1. ConnectionInv => BufferedIsUnsent
  BY DEF ConnectionInv, BufferedExact, BufferedIsUnsent, Unclosed, Over, InHand
<1> QED BY <1>1, ConnectionHolds, PTL

=============================================================================
