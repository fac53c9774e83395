-------------------------- MODULE HttpServerProofs --------------------------
(* Proofs about HttpServer for every set of connections and all limits.     *)
EXTENDS HttpServer, FiniteSetTheorems, SequenceTheorems, TLAPS

-----------------------------------------------------------------------------
(* Sequences and the elements of K in them. *)

Meets(s, K) == \E i \in 1 .. Len(s) : s[i] \in K
Once(s, K) == \A i, j \in 1 .. Len(s) : s[i] \in K /\ s[j] \in K => i = j

\* t is what is left of s without at least its first element.
RestOf(t, s) ==
  \E k \in 1 .. Len(s) :
    /\ Len(t) = Len(s) - k
    /\ \A i \in 1 .. Len(t) : t[i] = s[i + k]

LEMMA ContainsMeets ==
  ASSUME NEW s, NEW x
  PROVE  Contains(s, x) <=> Meets(s, {x})
BY DEF Contains, Meets

LEMMA TailParts ==
  ASSUME NEW S, NEW s \in Seq(S), s # <<>>
  PROVE  /\ Head(s) \in S /\ Head(s) = s[1] /\ Tail(s) \in Seq(S)
         /\ Len(s) \in Nat /\ Len(s) >= 1 /\ Len(Tail(s)) = Len(s) - 1
         /\ \A i \in 1 .. Len(Tail(s)) : Tail(s)[i] = s[i + 1]
BY HeadTailProperties

LEMMA ConcatParts ==
  ASSUME NEW S, NEW s \in Seq(S), NEW t \in Seq(S)
  PROVE  /\ s \o t \in Seq(S) /\ Len(s) \in Nat /\ Len(t) \in Nat
         /\ Len(s \o t) = Len(s) + Len(t)
         /\ \A i \in 1 .. Len(s) : (s \o t)[i] = s[i]
         /\ \A i \in 1 .. Len(t) : (s \o t)[Len(s) + i] = t[i]
OBVIOUS

LEMMA HeadTailOfConcat ==
  ASSUME NEW S, NEW s \in Seq(S), NEW t \in Seq(S), s # <<>>
  PROVE  Head(s \o t) = Head(s) /\ Tail(s \o t) = Tail(s) \o t
<1>1. /\ Len(s) \in Nat /\ Len(s) >= 1 /\ Len(t) \in Nat /\ s \o t \in Seq(S)
      /\ Len(s \o t) = Len(s) + Len(t) /\ s \o t # <<>>
      /\ Tail(s) \in Seq(S) /\ Len(Tail(s)) = Len(s) - 1
      /\ Head(s) = s[1] /\ \A i \in 1 .. Len(Tail(s)) : Tail(s)[i] = s[i + 1]
  BY TailParts, ConcatParts
<1>2. Head(s \o t) = Head(s)
  BY <1>1, TailParts, ConcatParts
<1>3. /\ Tail(s \o t) \in Seq(S) /\ Tail(s) \o t \in Seq(S)
      /\ Len(Tail(s \o t)) = Len(Tail(s) \o t)
  BY <1>1, TailParts, ConcatParts
<1>4. ASSUME NEW i \in 1 .. Len(Tail(s \o t))
      PROVE  Tail(s \o t)[i] = (Tail(s) \o t)[i]
  <2>1. Tail(s \o t)[i] = (s \o t)[i + 1] /\ i \in Nat /\ i >= 1 /\ i < Len(s) + Len(t)
    BY <1>1, <1>3, TailParts
  <2>2. CASE i \in 1 .. Len(Tail(s))
    <3>1. i + 1 \in 1 .. Len(s)
      BY <1>1, <2>2
    <3> QED BY <1>1, <2>1, <2>2, <3>1, ConcatParts
  <2>3. CASE i \notin 1 .. Len(Tail(s))
    <3> DEFINE k == i - Len(Tail(s))
    <3>1. k \in 1 .. Len(t) /\ i + 1 = Len(s) + k /\ i = Len(Tail(s)) + k
      BY <1>1, <2>1, <2>3
    <3> HIDE DEF k
    <3> QED BY <1>1, <2>1, <3>1, ConcatParts
  <2> QED BY <2>2, <2>3
<1> QED BY <1>2, <1>3, <1>4, SeqEqual

LEMMA MeetsEmpty ==
  ASSUME NEW K
  PROVE  ~Meets(<<>>, K) /\ Once(<<>>, K)
BY DEF Meets, Once

LEMMA MeetsRest ==
  ASSUME NEW S, NEW s \in Seq(S), NEW t \in Seq(S), RestOf(t, s), NEW K
  PROVE  /\ Meets(t, K) => Meets(s, K)
         /\ Once(s, K) => Once(t, K)
         /\ Once(s, K) /\ s[1] \in K => ~Meets(t, K)
<1> Len(s) \in Nat /\ Len(t) \in Nat
  OBVIOUS
<1> PICK k \in 1 .. Len(s) :
      /\ Len(t) = Len(s) - k
      /\ \A i \in 1 .. Len(t) : t[i] = s[i + k]
  BY DEF RestOf
<1>1. \A i \in 1 .. Len(t) : i + k \in 1 .. Len(s) /\ i + k # 1
  OBVIOUS
<1>2. 1 \in 1 .. Len(s)
  OBVIOUS
<1>3. \A i, j \in 1 .. Len(t) : i + k = j + k => i = j
  OBVIOUS
<1> HIDE DEF RestOf
<1>4. Meets(t, K) => Meets(s, K)
  BY <1>1 DEF Meets
<1>5. Once(s, K) => Once(t, K)
  BY <1>1, <1>3 DEF Once
<1>6. Once(s, K) /\ s[1] \in K => ~Meets(t, K)
  BY <1>1, <1>2 DEF Once, Meets
<1> QED BY <1>4, <1>5, <1>6

LEMMA TailIsRest ==
  ASSUME NEW S, NEW s \in Seq(S), s # <<>>
  PROVE  RestOf(Tail(s), s)
<1> Len(s) \in Nat /\ 1 \in 1 .. Len(s)
  BY TailParts
<1> QED BY TailParts DEF RestOf

LEMMA MeetsTail ==
  ASSUME NEW S, NEW s \in Seq(S), s # <<>>, NEW K
  PROVE  /\ Meets(Tail(s), K) => Meets(s, K)
         /\ Meets(s, K) /\ Head(s) \notin K => Meets(Tail(s), K)
         /\ Head(s) \in K => Meets(s, K)
         /\ Once(s, K) => Once(Tail(s), K)
         /\ Once(s, K) /\ Head(s) \in K => ~Meets(Tail(s), K)
<1>1. /\ Head(s) = s[1] /\ Tail(s) \in Seq(S) /\ RestOf(Tail(s), s)
      /\ Len(s) \in Nat /\ Len(s) >= 1 /\ Len(Tail(s)) = Len(s) - 1
      /\ \A i \in 1 .. Len(Tail(s)) : Tail(s)[i] = s[i + 1]
  BY TailParts, TailIsRest
<1>2. ASSUME Meets(s, K), Head(s) \notin K
      PROVE  Meets(Tail(s), K)
  <2>1. PICK i \in 1 .. Len(s) : s[i] \in K
    BY <1>2 DEF Meets
  <2>2. i # 1 /\ i - 1 \in 1 .. Len(Tail(s)) /\ (i - 1) + 1 = i
    BY <1>1, <1>2, <2>1
  <2>3. Tail(s)[i - 1] = s[i]
    BY <1>1, <2>2
  <2> QED BY <2>1, <2>2, <2>3 DEF Meets
<1>3. Head(s) \in K => Meets(s, K)
  BY <1>1 DEF Meets
<1> QED BY <1>1, <1>2, <1>3, MeetsRest

LEMMA MeetsConcat ==
  ASSUME NEW S, NEW s \in Seq(S), NEW t \in Seq(S), NEW K
  PROVE  /\ Meets(s \o t, K) <=> Meets(s, K) \/ Meets(t, K)
         /\ Once(s, K) /\ Once(t, K) /\ ~(Meets(s, K) /\ Meets(t, K)) => Once(s \o t, K)
<1>1. /\ Len(s) \in Nat /\ Len(t) \in Nat /\ Len(s \o t) = Len(s) + Len(t)
      /\ \A i \in 1 .. Len(s) : (s \o t)[i] = s[i]
      /\ \A i \in 1 .. Len(t) : (s \o t)[Len(s) + i] = t[i]
  BY ConcatParts
<1> DEFINE q == s \o t
<1> HIDE DEF q
<1>2. /\ Len(q) = Len(s) + Len(t)
      /\ \A i \in 1 .. Len(s) : q[i] = s[i]
      /\ \A i \in 1 .. Len(t) : q[Len(s) + i] = t[i]
  BY <1>1 DEF q
<1>3. \A i \in 1 .. Len(q) :
        \/ i \in 1 .. Len(s) /\ q[i] = s[i]
        \/ i - Len(s) \in 1 .. Len(t) /\ q[i] = t[i - Len(s)]
  <2> TAKE i \in 1 .. Len(q)
  <2>1. CASE i <= Len(s)
    BY <1>1, <1>2, <2>1
  <2>2. CASE ~(i <= Len(s))
    <3>1. i - Len(s) \in 1 .. Len(t) /\ Len(s) + (i - Len(s)) = i
      BY <1>1, <1>2, <2>2
    <3> QED BY <1>2, <3>1
  <2> QED BY <2>1, <2>2
<1>4. Meets(q, K) => Meets(s, K) \/ Meets(t, K)
  BY <1>3 DEF Meets
<1>5. Meets(s, K) => Meets(q, K)
  BY <1>1, <1>2 DEF Meets
<1>6. Meets(t, K) => Meets(q, K)
  <2> HAVE Meets(t, K)
  <2>1. PICK i \in 1 .. Len(t) : t[i] \in K
    BY DEF Meets
  <2>2. Len(s) + i \in 1 .. Len(q)
    BY <1>1, <1>2
  <2> QED BY <1>2, <2>1, <2>2 DEF Meets
<1>7. ASSUME Once(s, K), Once(t, K), ~(Meets(s, K) /\ Meets(t, K))
      PROVE  Once(q, K)
  <2> SUFFICES ASSUME NEW i \in 1 .. Len(q), NEW j \in 1 .. Len(q), q[i] \in K, q[j] \in K
               PROVE  i = j
    BY DEF Once
  <2>1. CASE i \in 1 .. Len(s) /\ q[i] = s[i] /\ j \in 1 .. Len(s) /\ q[j] = s[j]
    BY <1>7, <2>1 DEF Once
  <2>2. CASE /\ i - Len(s) \in 1 .. Len(t) /\ q[i] = t[i - Len(s)]
             /\ j - Len(s) \in 1 .. Len(t) /\ q[j] = t[j - Len(s)]
    <3>1. i - Len(s) = j - Len(s)
      BY <1>7, <2>2 DEF Once
    <3> QED BY <1>1, <1>2, <3>1
  <2>3. CASE ~Meets(s, K)
    <3>1. ~(i \in 1 .. Len(s) /\ q[i] = s[i]) /\ ~(j \in 1 .. Len(s) /\ q[j] = s[j])
      BY <2>3 DEF Meets
    <3> QED BY <1>3, <2>2, <3>1
  <2>4. CASE ~Meets(t, K)
    <3>1. ~(i - Len(s) \in 1 .. Len(t) /\ q[i] = t[i - Len(s)])
          /\ ~(j - Len(s) \in 1 .. Len(t) /\ q[j] = t[j - Len(s)])
      BY <2>4 DEF Meets
    <3> QED BY <1>3, <2>1, <3>1
  <2> QED BY <1>7, <2>3, <2>4
<1> QED BY <1>4, <1>5, <1>6, <1>7 DEF q

LEMMA MeetsOne ==
  ASSUME NEW S, NEW s \in Seq(S), NEW x \in S, NEW K
  PROVE  /\ s \o <<x>> \in Seq(S)
         /\ Meets(s \o <<x>>, K) <=> Meets(s, K) \/ x \in K
         /\ Once(s, K) /\ ~(Meets(s, K) /\ x \in K) => Once(s \o <<x>>, K)
<1> DEFINE t == <<x>>
<1>1. t \in Seq(S) /\ s \o t \in Seq(S)
  OBVIOUS
<1>2. (Meets(t, K) <=> x \in K) /\ Once(t, K)
  BY DEF Meets, Once
<1> HIDE DEF t
<1>3. /\ Meets(s \o t, K) <=> Meets(s, K) \/ Meets(t, K)
      /\ Once(s, K) /\ Once(t, K) /\ ~(Meets(s, K) /\ Meets(t, K)) => Once(s \o t, K)
  BY <1>1, MeetsConcat
<1>4. /\ s \o t \in Seq(S)
      /\ Meets(s \o t, K) <=> Meets(s, K) \/ x \in K
      /\ Once(s, K) /\ ~(Meets(s, K) /\ x \in K) => Once(s \o t, K)
  BY <1>1, <1>2, <1>3
<1> QED BY <1>4 DEF t

LEMMA MeetsTwo ==
  ASSUME NEW S, NEW s \in Seq(S), NEW x \in S, NEW y \in S, NEW K
  PROVE  /\ s \o <<x, y>> \in Seq(S)
         /\ Meets(s \o <<x, y>>, K) <=> Meets(s, K) \/ x \in K \/ y \in K
         /\ Once(s, K) /\ x \notin K /\ y \notin K => Once(s \o <<x, y>>, K)
<1> DEFINE t == <<x, y>>
<1>1. t \in Seq(S) /\ s \o t \in Seq(S)
  OBVIOUS
<1>2. (Meets(t, K) <=> x \in K \/ y \in K) /\ (x \notin K /\ y \notin K => Once(t, K))
  <2>1. Len(t) = 2 /\ t[1] = x /\ t[2] = y /\ 1 .. 2 = {1, 2}
    OBVIOUS
  <2> HIDE DEF t
  <2> QED BY <2>1 DEF Meets, Once
<1> HIDE DEF t
<1>3. /\ Meets(s \o t, K) <=> Meets(s, K) \/ Meets(t, K)
      /\ Once(s, K) /\ Once(t, K) /\ ~(Meets(s, K) /\ Meets(t, K)) => Once(s \o t, K)
  BY <1>1, MeetsConcat
<1>4. /\ s \o t \in Seq(S)
      /\ Meets(s \o t, K) <=> Meets(s, K) \/ x \in K \/ y \in K
      /\ Once(s, K) /\ x \notin K /\ y \notin K => Once(s \o t, K)
  BY <1>1, <1>2, <1>3
<1> QED BY <1>4 DEF t

LEMMA MeetsAppend ==
  ASSUME NEW S, NEW s \in Seq(S), NEW x \in S, NEW K
  PROVE  /\ Append(s, x) \in Seq(S)
         /\ Meets(Append(s, x), K) <=> Meets(s, K) \/ x \in K
         /\ Once(s, K) /\ ~(Meets(s, K) /\ x \in K) => Once(Append(s, x), K)
<1>1. Append(s, x) = s \o <<x>>
  BY AppendIsConcat
<1> QED BY <1>1, MeetsOne

\* No "text" behind a "close".
TextFirst(s) ==
  \A i, j \in 1 .. Len(s) : s[i] = "close" /\ s[j] = "text" => j < i

LEMMA TextFirstEmpty == TextFirst(<<>>)
BY DEF TextFirst

LEMMA TextFirstTail ==
  ASSUME NEW S, NEW s \in Seq(S), s # <<>>, TextFirst(s)
  PROVE  TextFirst(Tail(s)) /\ (Head(s) = "close" => ~Meets(Tail(s), {"text"}))
<1>1. /\ Head(s) = s[1] /\ Len(s) \in Nat /\ Len(s) >= 1 /\ Len(Tail(s)) = Len(s) - 1
      /\ \A i \in 1 .. Len(Tail(s)) : Tail(s)[i] = s[i + 1]
  BY TailParts
<1>2. \A i \in 1 .. Len(Tail(s)) : i + 1 \in 1 .. Len(s) /\ 1 \in 1 .. Len(s) /\ ~(i + 1 < 1)
  BY <1>1
<1>3. TextFirst(Tail(s))
  <2> SUFFICES ASSUME NEW i \in 1 .. Len(Tail(s)), NEW j \in 1 .. Len(Tail(s)),
                      Tail(s)[i] = "close", Tail(s)[j] = "text"
               PROVE  j < i
    BY DEF TextFirst
  <2>1. j + 1 < i + 1
    BY <1>1, <1>2 DEF TextFirst
  <2> QED BY <2>1
<1>4. Head(s) = "close" => ~Meets(Tail(s), {"text"})
  BY <1>1, <1>2 DEF TextFirst, Meets
<1> QED BY <1>3, <1>4

LEMMA TextFirstAppend ==
  ASSUME NEW S, NEW s \in Seq(S), NEW x \in S, TextFirst(s),
         x = "text" => ~Meets(s, {"close"})
  PROVE  TextFirst(Append(s, x))
<1>1. /\ Len(s) \in Nat /\ Len(Append(s, x)) = Len(s) + 1
      /\ Append(s, x)[Len(s) + 1] = x
      /\ \A i \in 1 .. Len(s) : Append(s, x)[i] = s[i]
  OBVIOUS
<1>2. \A i \in 1 .. Len(s) + 1 : i \in 1 .. Len(s) \/ i = Len(s) + 1
  BY <1>1
<1> SUFFICES ASSUME NEW i \in 1 .. Len(s) + 1, NEW j \in 1 .. Len(s) + 1,
                    Append(s, x)[i] = "close", Append(s, x)[j] = "text"
             PROVE  j < i
  BY <1>1 DEF TextFirst
<1>3. CASE i \in 1 .. Len(s) /\ j \in 1 .. Len(s)
  BY <1>1, <1>3 DEF TextFirst
<1>4. CASE i = Len(s) + 1 /\ j \in 1 .. Len(s)
  BY <1>1, <1>4
<1>5. CASE i \in 1 .. Len(s) /\ j = Len(s) + 1
  BY <1>1, <1>5 DEF Meets
<1>6. CASE i = Len(s) + 1 /\ j = Len(s) + 1
  BY <1>1, <1>6
<1> QED BY <1>2, <1>3, <1>4, <1>5, <1>6

-----------------------------------------------------------------------------
(* The inductive invariant. *)

Events == [kind : Kinds, conn : Conns \cup {Nobody}]
Of(kind) == {event \in Events : event.kind = kind}

\* What waits for the callback of w: the rest of a drain, then worker.events.
Inbox(w) == IF target = w THEN batch \o events[w] ELSE events[w]

\* The owner drains, or releases, a record.
OwnerKept ==
  /\ joining => target \in Workers
  /\ target \in Workers => record[target]

\* A connection that waits for its thread, and a thread before it starts.
FreshKept ==
  /\ backlog \cap pending = {}
  /\ \A c \in backlog \cup pending : pc[c] = "none"
  /\ pc[Listener] = "none" => \A c \in Conns : pc[c] = "none"
  /\ \A w \in Workers : pc[w] = "none" =>
       ~record[w] /\ ~stopped[w] /\ ~terminal[w] /\ Inbox(w) = <<>>

\* A thread that is not released: what it owes, and what was asked of it.
EndOwed(w) == Meets(Inbox(w), {Event("close")}) \/ (joining /\ target = w)
OwedKept ==
  \A w \in Workers : record[w] =>
    /\ terminal[w] \/ pc[w] = "done" => EndOwed(w)
    /\ stopped[w] => joining /\ target = w

\* Without a failing callback, what JavaScript holds has a record, and is not
\* released before JavaScript knows of its end.
HeldHasRecord ==
  ~threw =>
    /\ sockets \subseteq {c \in Conns : record[c]}
    /\ handle => record[Listener]
    /\ joining => target \notin sockets /\ (target = Listener => ~handle)

\* Only the listener reports connections, and nothing else before its end.
Active == {"waiting", "accepted", "leaving"}
Strange == {event \in Events : event.kind \notin {"accept", "close"}}
ListenerKept ==
  /\ \A c \in Conns : ~Meets(Inbox(c), Of("accept"))
  /\ ~Meets(Inbox(Listener), Strange)
  /\ accepting \in Conns <=> pc[Listener] = "accepted"
  /\ accepting \in Conns => accepting \in pending
  /\ pc[Listener] \notin Active => pending = {}
  /\ pc[Listener] # "done" =>
       /\ ~terminal[Listener] /\ ~stopped[Listener] /\ ~(joining /\ target = Listener)
       /\ ~Meets(Inbox(Listener), Of("close"))

\* While the listener is at work, the pending connections are those whose
\* "accept" is in its inbox, each once, and the one it is about to report.
PendingExact ==
  LET inbox == Inbox(Listener) IN
  pc[Listener] \in Active =>
    /\ \A i \in 1 .. Len(inbox) : inbox[i].conn \in pending /\ inbox[i].conn # accepting
    /\ \A i, j \in 1 .. Len(inbox) : inbox[i].conn = inbox[j].conn => i = j
    /\ Cardinality(pending) = Len(inbox) + (IF accepting \in Conns THEN 1 ELSE 0)
    /\ Cardinality(pending) <= MaxPending
    /\ \A c \in pending : c = accepting \/ Meets(inbox, {Accept(c)})

\* Where a connection's thread is tells what it holds; a reply to the peer's
\* Close frame, or to a bad frame, is the last it writes.
Replies == {"closeReply", "failClose"}
ThreadKept ==
  \A c \in Conns :
    /\ pc[c] = "writing" => frame[c] # "none"
    /\ pc[c] \in {"none", "reading", "done"} =>
         out[c] = <<>> /\ cmds[c] = <<>> /\ frame[c] = "none"
    /\ Meets(out[c], Replies) => pc[c] \in {"clean", "failing", "leaving"}
    /\ \A i \in 1 .. Len(out[c]) : out[c][i] \in Replies => i = Len(out[c])

\* The places of a websocket between the request and its "open".
Asking(c) == pc[c] \in {"none", "reading"}
UpgradeComes(c) == Meets(Inbox(c), Of("upgrade"))
Commanded(c) == Meets(commands[c], {"websocket"})
Held(c) == Meets(cmds[c], {"websocket"})
Written(c) == frame[c] = "websocket"
Opening(c) == pc[c] = "opening"
OpenComes(c) == Meets(Inbox(c), Of("open"))

Beyond(c) == OpenComes(c) \/ Opening(c) \/ Written(c) \/ Held(c) \/ Commanded(c)
Ahead(c) == Asking(c) \/ UpgradeComes(c) \/ Beyond(c)

\* A websocket is at one of these places at a time, once, or is open.
OpensOnce(c) ==
  /\ ws[c] = "open" => ~Ahead(c)
  /\ Asking(c) => ~UpgradeComes(c) /\ ~Beyond(c)
  /\ UpgradeComes(c) => ~Beyond(c)
  /\ Commanded(c) => ~Held(c) /\ ~Written(c) /\ ~Opening(c) /\ ~OpenComes(c)
  /\ Held(c) => ~Written(c) /\ ~Opening(c) /\ ~OpenComes(c)
  /\ Written(c) => ~Opening(c) /\ ~OpenComes(c)
  /\ Opening(c) => ~OpenComes(c)
  /\ Once(Inbox(c), Of("upgrade")) /\ Once(Inbox(c), Of("open"))
  /\ Once(commands[c], {"websocket"}) /\ Once(cmds[c], {"websocket"})

\* The Close frame of JavaScript is on its way to the peer, or there.
CloseAt(c) ==
  \/ Meets(out[c], {"close"}) \/ frame[c] = "close"
  \/ Meets(cmds[c], {"close"}) \/ Meets(commands[c], {"close"})

\* Behind it there is no message.
TextPlaces(c) ==
  /\ TextFirst(out[c]) /\ TextFirst(cmds[c]) /\ TextFirst(commands[c])
  /\ Meets(out[c], {"close"}) => frame[c] # "text" /\ ~Meets(cmds[c], {"text"})
  /\ frame[c] = "close" => ~Meets(cmds[c], {"text"})
  /\ Meets(out[c], {"close"}) \/ frame[c] = "close" \/ Meets(cmds[c], {"close"})
       => ~Meets(commands[c], {"text"})

\* And there will be none.
TextKept(c) ==
  /\ TextPlaces(c)
  /\ CloseAt(c) => ws[c] \notin {"connecting", "open"} /\ ~Ahead(c)

SocketKept(c) == OpensOnce(c) /\ (~hasty[c] => TextKept(c))
SocketsKept == \A c \in Conns : SocketKept(c)

ServerInv ==
  /\ TypeOK /\ OwnerKept /\ FreshKept /\ OwedKept /\ HeldHasRecord /\ ListenerKept
  /\ PendingExact /\ ConnectionsBounded /\ ThreadKept /\ SocketsKept

-----------------------------------------------------------------------------
(* Types. *)

JsTyped ==
  /\ handle \in BOOLEAN /\ closing \in BOOLEAN /\ awaiting \in BOOLEAN
  /\ sockets \subseteq Conns
  /\ destroyed \in [Conns -> BOOLEAN] /\ hasty \in [Conns -> BOOLEAN]
  /\ res \in [Conns -> {"none", "open", "ended"}]
  /\ ws \in [Conns -> {"none", "connecting", "open", "closing", "closed"}]
  /\ calls \in 0 .. MaxCalls
OwnerTyped ==
  /\ joining \in BOOLEAN /\ threw \in BOOLEAN
  /\ record \in [Workers -> BOOLEAN]
  /\ target \in Workers \cup {Nobody}
  /\ events \in [Workers -> Seq(Events)]
  /\ batch \in Seq(Events)
FlagTyped ==
  /\ terminal \in [Workers -> BOOLEAN] /\ stopped \in [Workers -> BOOLEAN]
  /\ cancelRequested \in [Workers -> BOOLEAN] /\ wake \in [Workers -> BOOLEAN]
ListenerTyped ==
  /\ backlog \subseteq Conns /\ pending \subseteq Conns
  /\ accepting \in Conns \cup {Nobody}
StepTyped == pc \in [Workers -> WorkerSteps]
CommandTyped ==
  /\ commands \in [Conns -> Seq(CommandKinds)] /\ cmds \in [Conns -> Seq(CommandKinds)]
  /\ frame \in [Conns -> Frames \cup {"none"}]
  /\ out \in [Conns -> Seq(Frames)]
PeerTyped ==
  /\ closeSent \in [Conns -> BOOLEAN] /\ spent \in [Conns -> BOOLEAN]
  /\ mode \in [Conns -> {"plain", "upgrade", "raw", "websocket"}]
  /\ incoming \in [Conns -> PeerFrames \cup {"none"}]
  /\ wire \in [Conns -> Seq(PeerFrames)]
  /\ sent \in [Conns -> 0 .. MaxFrames]

LEMMA TypedParts ==
  TypeOK <=> JsTyped /\ OwnerTyped /\ FlagTyped /\ ListenerTyped /\ StepTyped
             /\ CommandTyped /\ PeerTyped
BY DEF TypeOK, JsTyped, OwnerTyped, FlagTyped, ListenerTyped, StepTyped, CommandTyped,
       PeerTyped, Events

LEMMA WorkerFacts ==
  /\ Conns \subseteq Workers /\ Listener \in Workers /\ Listener \notin Conns
  /\ Nobody \notin Workers /\ Nobody \notin Conns
BY HttpServerAssumption DEF Workers

\* The steps, in groups.
Calls ==
  \/ \E cs \in {{}, sockets} : Close(cs)
  \/ \E c \in sockets :
       \/ Destroy(c)
       \/ Respond(c)
       \/ \E kind \in {"write", "end"} : SocketSend(c, kind)
       \/ WebSocketCall(c)
ConnectionStepOrPeer(c) == ConnectionStep(c) \/ Peer(c)

LEMMA StepCases ==
  ASSUME [Next]_vars
  PROVE  \/ Listen \/ Calls
         \/ \E w \in Workers : Deliver(w)
         \/ ReleaseStops \/ ReleaseEnds
         \/ ListenerStep
         \/ \E c \in Conns : ConnectionStep(c)
         \/ \E c \in Conns : Peer(c)
         \/ UNCHANGED vars
BY DEF Next, Application, OwnerStep, Calls

\* JavaScript's calls change its objects, and ask threads for something.
LEMMA CallsLeave ==
  ASSUME Calls
  PROVE  /\ UNCHANGED <<handle, sockets, ownerVars, pending, threw, Workings>>
         /\ calls > 0 /\ calls' = calls - 1 /\ ~joining
<1>1. CASE \E cs \in {{}, sockets} : Close(cs)
  BY <1>1 DEF Close, ApiCall, JsRuns
<1>2. CASE \E c \in sockets : Destroy(c)
  BY <1>2 DEF Destroy, ApiCall, JsRuns
<1>3. CASE \E c \in sockets : Respond(c)
  BY <1>3 DEF Respond, ApiCall, JsRuns
<1>4. CASE \E c \in sockets : \E kind \in {"write", "end"} : SocketSend(c, kind)
  BY <1>4 DEF SocketSend, ApiCall, JsRuns, jsVars
<1>5. CASE \E c \in sockets : WebSocketCall(c)
  BY <1>5 DEF WebSocketCall, ApiCall, JsRuns
<1> QED BY <1>1, <1>2, <1>3, <1>4, <1>5 DEF Calls

\* What a drain leaves alone, besides the queue and the record it works on.
LEMMA DeliveryLeaves ==
  ASSUME NEW w \in Workers, Deliver(w)
  PROVE  /\ UNCHANGED Elsewhere
         /\ \E kind \in Kinds : Delivering(w, kind)
         /\ Returns(w) \/ Escapes(w)
<1>1. CASE DeliverAccept(w)
  BY <1>1 DEF DeliverAccept, Kinds
<1>2. CASE DeliverRequest(w)
  BY <1>2 DEF DeliverRequest, Kinds
<1>3. CASE DeliverUpgrade(w)
  BY <1>3 DEF DeliverUpgrade, Kinds
<1>4. CASE DeliverOpen(w)
  BY <1>4 DEF DeliverOpen, Kinds
<1>5. CASE DeliverMessage(w)
  BY <1>5 DEF DeliverMessage, Kinds
<1>6. CASE DeliverOther(w)
  BY <1>6 DEF DeliverOther, Kinds
<1>7. CASE DeliverClose(w)
  BY <1>7 DEF DeliverClose, Kinds
<1>8. CASE DeliverListenerClose(w)
  BY <1>8 DEF DeliverListenerClose, Kinds
<1> QED BY <1>1, <1>2, <1>3, <1>4, <1>5, <1>6, <1>7, <1>8 DEF Deliver

LEMMA ThreadsLeave ==
  /\ ListenerStep => UNCHANGED <<OwnerSide, commands, connVars, peerVars, out, spent>>
  /\ \A c \in Conns : ConnectionStep(c) => UNCHANGED <<OwnerSide, acceptVars>>
  /\ \A c \in Conns : Peer(c) =>
       UNCHANGED <<OwnerSide, acceptVars, events, terminal, commands, wake, pc, connVars,
                   out, spent>>
<1>1. ListenerStep => UNCHANGED <<OwnerSide, commands, connVars, peerVars, out, spent>>
  BY DEF ListenerStep, ListenerWoken, ListenerAccepts, ListenerReports, ListenerLeaves,
         ListenerCloses
<1>2. ASSUME NEW c \in Conns, ConnectionStep(c)
      PROVE  UNCHANGED <<OwnerSide, acceptVars>>
  BY <1>2 DEF ConnectionStep, IoWoken, ReadRequest, ReadFails, TakeCommands, WriteDone,
       WriteFails, Opened, IncomingMessage, IncomingControl, Clean, WaitWoken, WaitReads,
       WaitEnds, Fails, ConnectionLeaves, Others
<1>3. ASSUME NEW c \in Conns, Peer(c)
      PROVE  UNCHANGED <<OwnerSide, acceptVars, events, terminal, commands, wake, pc,
                         connVars, out, spent>>
  BY <1>3 DEF Peer, PeerSends
<1> QED BY <1>1, <1>2, <1>3

\* worker.emit refuses, or queues the event, or an error and the end instead of it.
Refused(w, refusedNext) ==
  /\ stopped[w] \/ terminal[w]
  /\ pc' = [pc EXCEPT ![w] = refusedNext]
  /\ UNCHANGED <<events, terminal>>
Accepted(w, event, next) ==
  /\ ~stopped[w] /\ ~terminal[w]
  /\ event.kind = "close" \/ ~(Len(events[w]) >= Capacity)
  /\ events' = [events EXCEPT ![w] = @ \o <<event>>]
  /\ terminal' = [terminal EXCEPT ![w] = (event.kind = "close")]
  /\ pc' = [pc EXCEPT ![w] = next]
Overflowed(w, event, refusedNext) ==
  /\ ~stopped[w] /\ ~terminal[w]
  /\ event.kind # "close" /\ Len(events[w]) >= Capacity
  /\ events' = [events EXCEPT ![w] = @ \o <<Event("error"), Event("close")>>]
  /\ terminal' = [terminal EXCEPT ![w] = TRUE]
  /\ pc' = [pc EXCEPT ![w] = refusedNext]

LEMMA EmitCases ==
  ASSUME NEW w, NEW event, NEW next, NEW refusedNext, Emit(w, event, next, refusedNext)
  PROVE  \/ Refused(w, refusedNext)
         \/ Accepted(w, event, next)
         \/ Overflowed(w, event, refusedNext)
<1>1. CASE stopped[w] \/ terminal[w]
  BY <1>1 DEF Emit, Refused
<1>2. CASE ~(stopped[w] \/ terminal[w]) /\ (event.kind = "close" \/ ~(Len(events[w]) >= Capacity))
  <2>1. Emitted(w, event) = <<event>>
    BY <1>2 DEF Emitted
  <2>2. Last(<<event>>) = event
    BY DEF Last
  <2> QED BY <1>2, <2>1, <2>2 DEF Emit, Accepted
<1>3. CASE ~(stopped[w] \/ terminal[w]) /\ event.kind # "close" /\ Len(events[w]) >= Capacity
  <2>1. Emitted(w, event) = <<Event("error"), Event("close")>>
    BY <1>3 DEF Emitted
  <2>2. Last(<<Event("error"), Event("close")>>).kind = "close"
    BY DEF Last, Event
  <2>3. <<Event("error"), Event("close")>> # <<event>>
    OBVIOUS
  <2> QED BY <1>3, <2>1, <2>2, <2>3 DEF Emit, Overflowed
<1> QED BY <1>1, <1>2, <1>3

LEMMA EventTypes ==
  /\ \A kind \in Kinds : Event(kind) \in Events /\ Event(kind).kind = kind
                         /\ Event(kind).conn = Nobody
  /\ \A c \in Conns : Accept(c) \in Events /\ Accept(c).kind = "accept" /\ Accept(c).conn = c
  /\ \A c : Accept(c).kind = "accept"
BY DEF Event, Accept, Events, Kinds

LEMMA EmitTyped ==
  ASSUME TypeOK, NEW w \in Workers, NEW event \in Events,
         NEW next \in WorkerSteps, NEW refusedNext \in WorkerSteps,
         Emit(w, event, next, refusedNext)
  PROVE  /\ events' \in [Workers -> Seq(Events)]
         /\ terminal' \in [Workers -> BOOLEAN]
         /\ pc' \in [Workers -> WorkerSteps]
<1> /\ events \in [Workers -> Seq(Events)] /\ terminal \in [Workers -> BOOLEAN]
    /\ pc \in [Workers -> WorkerSteps]
  BY TypedParts DEF OwnerTyped, FlagTyped, StepTyped
<1>1. /\ events[w] \in Seq(Events)
      /\ events[w] \o <<event>> \in Seq(Events)
      /\ events[w] \o <<Event("error"), Event("close")>> \in Seq(Events)
  <2>1. Event("error") \in Events /\ Event("close") \in Events
    BY EventTypes DEF Kinds
  <2>2. <<event>> \in Seq(Events) /\ <<Event("error"), Event("close")>> \in Seq(Events)
    BY <2>1
  <2> QED BY <2>2
<1>2. (event.kind = "close") \in BOOLEAN
  OBVIOUS
<1>3. CASE Refused(w, refusedNext)
  BY <1>3 DEF Refused
<1>4. CASE Accepted(w, event, next)
  BY <1>1, <1>2, <1>4 DEF Accepted
<1>5. CASE Overflowed(w, event, refusedNext)
  BY <1>1, <1>5 DEF Overflowed
<1> QED BY <1>3, <1>4, <1>5, EmitCases

\* A thread that reports: which event, and where it goes on.
Reports(w, event, next, refusedNext) ==
  \/ /\ w = Listener /\ pc[w] = "accepted" /\ event = Accept(accepting)
     /\ next = "waiting" /\ refusedNext = "leaving"
  \/ /\ w = Listener /\ pc[w] = "closing" /\ event = Event("close")
     /\ next = "done" /\ refusedNext = "done"
  \/ /\ w \in Conns /\ pc[w] = "reading"
     /\ event = Event("request") \/ event = Event("upgrade")
     /\ next = "loop" /\ refusedNext = "leaving"
  \/ /\ w \in Conns /\ pc[w] = "opening" /\ event = Event("open")
     /\ next = NextPlace(w, cmds[w], mode[w]) /\ refusedNext = "leaving"
  \/ /\ w \in Conns /\ pc[w] = "incoming"
     /\ event = Event("data") \/ event = Event("text")
     /\ next = "waiting" /\ refusedNext = "leaving"
  \/ /\ w \in Conns /\ pc[w] = "clean" /\ event = Event("close")
     /\ next = "leaving" /\ refusedNext = "leaving"
  \/ /\ w \in Conns /\ pc[w] = "failing" /\ event = Event("error")
     /\ next = "leaving" /\ refusedNext = "leaving"
  \/ /\ w \in Conns /\ pc[w] = "leaving" /\ event = Event("close")
     /\ next = "done" /\ refusedNext = "done"
ReportStep(w) ==
  \E event \in Events, next \in WorkerSteps, refusedNext \in WorkerSteps :
    Reports(w, event, next, refusedNext) /\ Emit(w, event, next, refusedNext)

LEMMA PlacesTyped ==
  \A c, s, m : NextPlace(c, s, m) \in {"waiting", "incoming", "failing", "leaving", "writing"}
BY DEF NextPlace

LEMMA ListenerQueues ==
  ASSUME TypeOK, ListenerStep
  PROVE  ReportStep(Listener) \/ UNCHANGED <<events, terminal>>
<1> USE DEF WorkerSteps
<1>0. accepting \in Conns \cup {Nobody}
  BY TypedParts DEF ListenerTyped
<1>1. CASE ListenerReports
  <2>1. Accept(accepting) \in Events
    BY <1>0 DEF Accept, Events, Kinds
  <2> QED BY <1>1, <2>1 DEF ListenerReports, ReportStep, Reports
<1>2. CASE ListenerCloses
  <2>1. Event("close") \in Events
    BY EventTypes DEF Kinds
  <2> QED BY <1>2, <2>1 DEF ListenerCloses, ReportStep, Reports
<1>3. CASE ListenerWoken \/ (\E c \in Conns : ListenerAccepts(c)) \/ ListenerLeaves
  BY <1>3 DEF ListenerWoken, ListenerAccepts, ListenerLeaves
<1> QED BY <1>1, <1>2, <1>3 DEF ListenerStep

\* The steps of a connection that report something.
Reporting(c) ==
  \/ \E kind \in {"request", "upgrade"} : ReadRequest(c, kind)
  \/ Opened(c)
  \/ IncomingMessage(c) /\ ~(closeSent[c] /\ mode[c] = "websocket")
  \/ Clean(c) \/ Fails(c) \/ ConnectionLeaves(c)
Silent(c) ==
  \/ IoWoken(c) \/ ReadFails(c) \/ TakeCommands(c) \/ WriteDone(c) \/ WriteFails(c)
  \/ IncomingMessage(c) /\ closeSent[c] /\ mode[c] = "websocket"
  \/ IncomingControl(c) \/ WaitWoken(c) \/ WaitReads(c) \/ WaitEnds(c)

LEMMA ConnectionQueues ==
  ASSUME NEW c \in Conns, ConnectionStep(c), TypeOK
  PROVE  \/ Reporting(c) /\ ReportStep(c)
         \/ Silent(c) /\ UNCHANGED <<events, terminal>>
<1>1. \A kind \in Kinds : Event(kind) \in Events
  BY EventTypes
<1> USE DEF Reporting, ReportStep, Reports, WorkerSteps, Kinds
<1>2. CASE \E kind \in {"request", "upgrade"} : ReadRequest(c, kind)
  <2> PICK kind \in {"request", "upgrade"} : ReadRequest(c, kind)
    BY <1>2
  <2>1. pc[c] = "reading" /\ Emit(c, Event(kind), "loop", "leaving")
    BY DEF ReadRequest
  <2>2. Event(kind) = Event("request") \/ Event(kind) = Event("upgrade")
    OBVIOUS
  <2> QED BY <1>1, <1>2, <2>1, <2>2
<1>3. CASE Opened(c)
  <2>1. Emit(c, Event("open"), NextPlace(c, cmds[c], mode[c]), "leaving") /\ pc[c] = "opening"
    BY <1>3 DEF Opened
  <2> QED BY <1>1, <1>3, <2>1, PlacesTyped
<1>4. CASE IncomingMessage(c) /\ ~(closeSent[c] /\ mode[c] = "websocket")
  <2>1. pc[c] = "incoming"
        /\ \/ Emit(c, Event("data"), "waiting", "leaving")
           \/ Emit(c, Event("text"), "waiting", "leaving")
    BY <1>4 DEF IncomingMessage
  <2> QED BY <1>1, <1>4, <2>1
<1>5. CASE Clean(c)
  <2>1. pc[c] = "clean" /\ Emit(c, Event("close"), "leaving", "leaving")
    BY <1>5 DEF Clean
  <2> QED BY <1>1, <1>5, <2>1
<1>6. CASE Fails(c)
  <2>1. pc[c] = "failing" /\ Emit(c, Event("error"), "leaving", "leaving")
    BY <1>6 DEF Fails
  <2> QED BY <1>1, <1>6, <2>1
<1>7. CASE ConnectionLeaves(c)
  <2>1. pc[c] = "leaving" /\ Emit(c, Event("close"), "done", "done")
    BY <1>7 DEF ConnectionLeaves
  <2> QED BY <1>1, <1>7, <2>1
<1>8. CASE Silent(c)
  BY <1>8 DEF Silent, IoWoken, ReadFails, TakeCommands, WriteDone, WriteFails,
       IncomingMessage, IncomingControl, WaitWoken, WaitReads, WaitEnds
<1> QED BY <1>2, <1>3, <1>4, <1>5, <1>6, <1>7, <1>8 DEF ConnectionStep, Silent

LEMMA DeliveryTyped ==
  ASSUME TypeOK, NEW w \in Workers, NEW kind, Delivering(w, kind), Returns(w) \/ Escapes(w)
  PROVE  /\ batch' \in Seq(Events) /\ events' \in [Workers -> Seq(Events)]
         /\ target' \in Workers \cup {Nobody} /\ joining' \in BOOLEAN /\ threw' \in BOOLEAN
         /\ Head(Taken(w)) \in Events
<1>1. /\ batch \in Seq(Events) /\ events \in [Workers -> Seq(Events)] /\ threw \in BOOLEAN
      /\ joining \in BOOLEAN
  BY TypedParts DEF OwnerTyped
<1>2. Taken(w) \in Seq(Events) /\ Taken(w) # <<>>
  BY <1>1 DEF Taken, Delivering
<1>3. Head(Taken(w)) \in Events /\ Tail(Taken(w)) \in Seq(Events)
  BY <1>2, TailParts
<1>4. events' \in [Workers -> Seq(Events)]
  BY <1>1 DEF Delivering
<1>5. CASE Returns(w)
  BY <1>1, <1>3, <1>4, <1>5 DEF Returns
<1>6. CASE Escapes(w)
  BY <1>1, <1>3, <1>4, <1>6 DEF Escapes
<1> QED BY <1>5, <1>6

LEMMA OwnerTypedStep ==
  ASSUME TypeOK, [Next]_vars
  PROVE  OwnerTyped'
<1> OwnerTyped
  BY TypedParts
<1> USE DEF OwnerTyped
<1>1. CASE Listen
  BY <1>1 DEF Listen
<1>2. CASE Calls
  BY <1>2, CallsLeave DEF ownerVars, Workings
<1>3. CASE \E w \in Workers : Deliver(w)
  <2> PICK w \in Workers : Deliver(w)
    BY <1>3
  <2> PICK kind \in Kinds : Delivering(w, kind)
    BY DeliveryLeaves
  <2>1. record' \in [Workers -> BOOLEAN]
    BY DEF Deliver, DeliverAccept, DeliverRequest, DeliverUpgrade, DeliverOpen,
           DeliverMessage, DeliverOther, DeliverClose, DeliverListenerClose
  <2> QED BY <2>1, DeliveryLeaves, DeliveryTyped
<1>4. CASE ReleaseStops
  BY <1>4 DEF ReleaseStops, ownerVars
<1>5. CASE ReleaseEnds
  <2>1. <<>> \in Seq(Events)
    OBVIOUS
  <2> QED BY <1>5, <2>1 DEF ReleaseEnds
<1>6. CASE ListenerStep
  <2>1. events' \in [Workers -> Seq(Events)]
    BY <1>6, ListenerQueues, WorkerFacts, EmitTyped DEF ReportStep
  <2> QED BY <1>6, <2>1, ThreadsLeave DEF OwnerSide, ownerVars
<1>7. CASE \E c \in Conns : ConnectionStep(c)
  <2> PICK c \in Conns : ConnectionStep(c)
    BY <1>7
  <2>1. events' \in [Workers -> Seq(Events)]
    BY ConnectionQueues, WorkerFacts, EmitTyped DEF ReportStep
  <2> QED BY <2>1, ThreadsLeave DEF OwnerSide, ownerVars
<1>8. CASE \E c \in Conns : Peer(c)
  BY <1>8, ThreadsLeave DEF OwnerSide, ownerVars
<1>9. CASE UNCHANGED vars
  BY <1>9 DEF vars, ownerVars
<1> QED BY <1>1, <1>2, <1>3, <1>4, <1>5, <1>6, <1>7, <1>8, <1>9, StepCases

LEMMA JsTypedStep ==
  ASSUME TypeOK, [Next]_vars
  PROVE  JsTyped'
<1> JsTyped
  BY TypedParts
<1> USE HttpServerAssumption DEF JsTyped
<1>1. CASE Listen
  BY <1>1 DEF Listen
<1>2. CASE Calls
  <2>1. UNCHANGED <<handle, sockets>> /\ calls' \in 0 .. MaxCalls
    BY <1>2, CallsLeave
  <2>2. closing' \in BOOLEAN /\ awaiting' \in BOOLEAN
    BY <1>2 DEF Calls, Close, Destroy, Respond, SocketSend, WebSocketCall, CloseServer,
         jsVars
  <2>3. CASE \E cs \in {{}, sockets} : Close(cs)
    BY <2>1, <2>2, <2>3 DEF Close, Destroyed
  <2>4. CASE \E c \in sockets : Destroy(c)
    BY <2>1, <2>2, <2>4 DEF Destroy, Destroyed
  <2>5. CASE \E c \in sockets : Respond(c)
    BY <2>1, <2>2, <2>5 DEF Respond
  <2>6. CASE \E c \in sockets : \E kind \in {"write", "end"} : SocketSend(c, kind)
    BY <2>1, <2>2, <2>6 DEF SocketSend, jsVars
  <2>7. CASE \E c \in sockets : WebSocketCall(c)
    <3> PICK c \in sockets : WebSocketCall(c)
      BY <2>7
    <3>1. CASE WsClose(c)
      BY <2>1, <2>2, <3>1 DEF WebSocketCall, WsClose, Destroyed
    <3>2. CASE UNCHANGED <<ws, hasty, destroyed>>
      BY <2>1, <2>2, <3>2 DEF WebSocketCall
    <3> QED BY <3>1, <3>2 DEF WebSocketCall
  <2> QED BY <1>2, <2>3, <2>4, <2>5, <2>6, <2>7 DEF Calls
<1>3. CASE \E w \in Workers : Deliver(w)
  <2> PICK w \in Workers : Deliver(w)
    BY <1>3
  <2> UNCHANGED calls
    BY DeliveryLeaves DEF Elsewhere
  <2>0. ListenerTyped
    BY TypedParts
  <2>1. CASE DeliverAccept(w)
    BY <2>0, <2>1 DEF DeliverAccept, TooMany, ListenerTyped
  <2>2. CASE DeliverRequest(w)
    BY <2>2 DEF DeliverRequest
  <2>3. CASE DeliverUpgrade(w)
    BY <2>3 DEF DeliverUpgrade, AcceptWebSocket, Destroyed
  <2>4. CASE DeliverOpen(w)
    BY <2>4 DEF DeliverOpen
  <2>5. CASE DeliverMessage(w)
    BY <2>5 DEF DeliverMessage, WsClose, Destroyed
  <2>6. CASE DeliverOther(w)
    BY <2>6 DEF DeliverOther
  <2>7. CASE DeliverClose(w)
    BY <2>7 DEF DeliverClose, MaybeClose
  <2>8. CASE DeliverListenerClose(w)
    BY <2>8 DEF DeliverListenerClose, MaybeClose
  <2> QED BY <2>1, <2>2, <2>3, <2>4, <2>5, <2>6, <2>7, <2>8 DEF Deliver
<1>4. CASE ReleaseStops
  BY <1>4 DEF ReleaseStops, jsVars
<1>5. CASE ReleaseEnds
  BY <1>5 DEF ReleaseEnds
<1>6. CASE ListenerStep
  BY <1>6, ThreadsLeave DEF OwnerSide, jsVars
<1>7. CASE \E c \in Conns : ConnectionStep(c)
  BY <1>7, ThreadsLeave DEF OwnerSide, jsVars
<1>8. CASE \E c \in Conns : Peer(c)
  BY <1>8, ThreadsLeave DEF OwnerSide, jsVars
<1>9. CASE UNCHANGED vars
  BY <1>9 DEF vars, jsVars
<1> QED BY <1>1, <1>2, <1>3, <1>4, <1>5, <1>6, <1>7, <1>8, <1>9, StepCases

\* Signals and requests to stop.
LEMMA StopTyped ==
  ASSUME FlagTyped, NEW ws_, Stop(ws_)
  PROVE  cancelRequested' \in [Workers -> BOOLEAN] /\ wake' \in [Workers -> BOOLEAN]
BY DEF Stop, FlagTyped

LEMMA SendTyped ==
  ASSUME TypeOK, NEW c \in Conns, NEW kind \in CommandKinds, Send(c, kind)
  PROVE  wake' \in [Workers -> BOOLEAN] /\ commands' \in [Conns -> Seq(CommandKinds)]
<1>1. /\ commands \in [Conns -> Seq(CommandKinds)] /\ wake \in [Workers -> BOOLEAN]
      /\ c \in Workers
  BY TypedParts, WorkerFacts DEF CommandTyped, FlagTyped
<1>2. Append(commands[c], kind) \in Seq(CommandKinds)
  BY <1>1
<1> QED BY <1>1, <1>2 DEF Send

LEMMA WsCallTyped ==
  ASSUME TypeOK, NEW c \in Conns,
         \/ WsSend(c) /\ UNCHANGED <<ws, hasty, destroyed, cancelRequested>>
         \/ WsClose(c)
         \/ UNCHANGED <<commands, wake, ws, hasty, destroyed, cancelRequested>>
  PROVE  /\ commands' \in [Conns -> Seq(CommandKinds)] /\ wake' \in [Workers -> BOOLEAN]
         /\ cancelRequested' \in [Workers -> BOOLEAN]
<1>1. FlagTyped /\ CommandTyped
  BY TypedParts
<1>2. CASE WsSend(c) /\ UNCHANGED <<ws, hasty, destroyed, cancelRequested>>
  BY <1>1, <1>2, SendTyped DEF WsSend, CommandKinds, FlagTyped
<1>3. CASE WsClose(c)
  <2>1. CASE Send(c, "close") /\ UNCHANGED <<destroyed, cancelRequested>>
    BY <1>1, <2>1, SendTyped DEF CommandKinds, FlagTyped
  <2>2. CASE Stop(NewlyDestroyed({c})) /\ UNCHANGED commands
    BY <1>1, <2>2, StopTyped DEF CommandTyped
  <2> QED BY <1>3, <2>1, <2>2 DEF WsClose
<1>4. CASE UNCHANGED <<commands, wake, ws, hasty, destroyed, cancelRequested>>
  BY <1>1, <1>4 DEF FlagTyped, CommandTyped
<1> QED BY <1>2, <1>3, <1>4

LEMMA CallTyped ==
  ASSUME TypeOK, Calls
  PROVE  /\ commands' \in [Conns -> Seq(CommandKinds)] /\ wake' \in [Workers -> BOOLEAN]
         /\ cancelRequested' \in [Workers -> BOOLEAN]
<1>1. FlagTyped /\ CommandTyped /\ sockets \subseteq Conns
  BY TypedParts DEF JsTyped
<1>2. CASE \E cs \in {{}, sockets} : Close(cs)
  BY <1>1, <1>2, StopTyped DEF Close, CommandTyped
<1>3. CASE \E c \in sockets : Destroy(c)
  BY <1>1, <1>3, StopTyped DEF Destroy, CommandTyped
<1>4. CASE \E c \in sockets : Respond(c)
  BY <1>1, <1>4, SendTyped DEF Respond, FlagTyped, CommandKinds
<1>5. CASE \E c \in sockets : \E kind \in {"write", "end"} : SocketSend(c, kind)
  BY <1>1, <1>5, SendTyped DEF SocketSend, FlagTyped, CommandKinds
<1>6. CASE \E c \in sockets : WebSocketCall(c)
  BY <1>1, <1>6, WsCallTyped DEF WebSocketCall
<1> QED BY <1>2, <1>3, <1>4, <1>5, <1>6 DEF Calls

\* The inbox of a worker and a delivery.
LEMMA InboxTyped ==
  ASSUME TypeOK, NEW w \in Workers
  PROVE  /\ Inbox(w) \in Seq(Events) /\ events[w] \in Seq(Events) /\ batch \in Seq(Events)
BY TypedParts DEF OwnerTyped, Inbox

LEMMA DeliveryInbox ==
  ASSUME TypeOK, NEW w \in Workers, NEW kind, Delivering(w, kind), Returns(w) \/ Escapes(w)
  PROVE  /\ Inbox(w) # <<>> /\ Head(Taken(w)) = Head(Inbox(w)) /\ Head(Inbox(w)) \in Events
         /\ Head(Inbox(w)).kind = kind
         /\ \A v \in Workers \ {w} : Inbox(v)' = Inbox(v)
         /\ RestOf(Inbox(w)', Inbox(w)) /\ Inbox(w)' \in Seq(Events)
         /\ Returns(w) => Inbox(w)' = Tail(Inbox(w))
         /\ target' \in {w, Nobody} /\ (joining' => target' = w)
<1>1. /\ Inbox(w) \in Seq(Events) /\ events[w] \in Seq(Events) /\ batch \in Seq(Events)
      /\ target \in Workers \cup {Nobody}
      /\ events \in [Workers -> Seq(Events)]
  BY InboxTyped, TypedParts DEF OwnerTyped
<1>2. /\ ~joining /\ target \in {Nobody, w} /\ Nobody # w
      /\ Taken(w) # <<>> /\ Head(Taken(w)).kind = kind
      /\ events' = IF target = Nobody THEN [events EXCEPT ![w] = <<>>] ELSE events
  BY WorkerFacts DEF Delivering
<1>3. Taken(w) = (IF target = Nobody THEN events[w] ELSE batch)
      /\ Inbox(w) = (IF target = Nobody THEN events[w] ELSE batch \o events[w])
  BY <1>2 DEF Taken, Inbox
<1>4. /\ Inbox(w) # <<>> /\ Head(Taken(w)) = Head(Inbox(w)) /\ Head(Inbox(w)) \in Events
      /\ (target = Nobody => Tail(Inbox(w)) = Tail(events[w]))
      /\ (target # Nobody => Tail(Inbox(w)) = Tail(batch) \o events[w] /\ batch # <<>>)
  <2>1. CASE target = Nobody
    BY <1>1, <1>2, <1>3, <2>1, TailParts
  <2>2. CASE target # Nobody
    <3>1. batch # <<>>
      BY <1>2, <1>3, <2>2
    <3>2. Head(batch \o events[w]) = Head(batch)
          /\ Tail(batch \o events[w]) = Tail(batch) \o events[w]
      BY <1>1, <3>1, HeadTailOfConcat
    <3> QED BY <1>1, <1>3, <2>2, <3>1, <3>2, TailParts
  <2> QED BY <2>1, <2>2
<1>5. target' \in {w, Nobody} /\ (joining' => target' = w)
  BY DEF Returns, Escapes
<1>6. ASSUME NEW v \in Workers \ {w}
      PROVE  Inbox(v)' = Inbox(v)
  <2>1. v # Nobody /\ events'[v] = events[v]
    BY <1>1, <1>2, WorkerFacts
  <2> QED BY <1>2, <1>5, <2>1 DEF Inbox
<1>7. events'[w] = IF target = Nobody THEN <<>> ELSE events[w]
  BY <1>1, <1>2
<1>8. ASSUME Returns(w)
      PROVE  Inbox(w)' = Tail(Inbox(w))
  <2>1. batch' = Tail(Taken(w)) /\ Tail(Taken(w)) \in Seq(Events)
        /\ target' = IF batch' # <<>> \/ joining' THEN w ELSE Nobody
    BY <1>1, <1>2, <1>3, <1>8, TailParts DEF Returns
  <2>2. \A s \in Seq(Events) : s \o <<>> = s /\ <<>> \o s = s
    OBVIOUS
  <2>3. Inbox(w)' = batch' \o events'[w]
    <3>1. CASE target' = w
      BY <3>1 DEF Inbox
    <3>2. CASE target' # w
      <4>1. batch' = <<>>
        BY <1>2, <2>1, <3>2
      <4>2. events'[w] \in Seq(Events)
        BY <1>1, <1>7
      <4> QED BY <2>2, <3>2, <4>1, <4>2 DEF Inbox
    <3> QED BY <3>1, <3>2
  <2> QED BY <1>1, <1>3, <1>4, <1>7, <2>1, <2>2, <2>3
<1>9. ASSUME Escapes(w)
      PROVE  RestOf(Inbox(w)', Inbox(w)) /\ Inbox(w)' \in Seq(Events)
  <2>1. Inbox(w)' = <<>> \o events'[w] /\ <<>> \o events'[w] = events'[w]
    BY <1>1, <1>7, <1>9 DEF Escapes, Inbox
  <2>2. CASE target = Nobody
    <3>1. Inbox(w)' = <<>> /\ Len(Inbox(w)) \in 1 .. Len(Inbox(w))
          /\ Len(Inbox(w)) - Len(Inbox(w)) = 0
      BY <1>1, <1>4, <1>7, <2>1, <2>2, TailParts
    <3> QED BY <3>1 DEF RestOf
  <2>3. CASE target # Nobody
    <3>1. Inbox(w)' = events[w] /\ Inbox(w) = batch \o events[w]
      BY <1>3, <1>7, <2>1, <2>3
    <3>2. /\ Len(batch) \in Nat /\ Len(batch) >= 1 /\ Len(events[w]) \in Nat
          /\ Len(Inbox(w)) = Len(batch) + Len(events[w])
          /\ \A i \in 1 .. Len(events[w]) : Inbox(w)[Len(batch) + i] = events[w][i]
      BY <1>1, <1>4, <2>3, <3>1, ConcatParts, TailParts
    <3>3. /\ Len(batch) \in 1 .. Len(Inbox(w))
          /\ Len(events[w]) = Len(Inbox(w)) - Len(batch)
          /\ \A i \in 1 .. Len(events[w]) : events[w][i] = Inbox(w)[i + Len(batch)]
      BY <3>2
    <3> QED BY <1>1, <3>1, <3>3 DEF RestOf
  <2> QED BY <2>2, <2>3
<1>10. RestOf(Inbox(w)', Inbox(w)) /\ Inbox(w)' \in Seq(Events)
  <2>1. RestOf(Tail(Inbox(w)), Inbox(w)) /\ Tail(Inbox(w)) \in Seq(Events)
    BY <1>1, <1>4, TailParts, TailIsRest
  <2> QED BY <1>8, <1>9, <2>1
<1> QED BY <1>2, <1>4, <1>5, <1>6, <1>8, <1>10

\* Who is called with what.
LEMMA DeliverCases ==
  ASSUME TypeOK, ListenerKept, NEW w \in Workers, Deliver(w)
  PROVE  \/ w = Listener /\ (DeliverAccept(w) \/ DeliverListenerClose(w))
         \/ /\ w \in Conns
            /\ \/ DeliverRequest(w) \/ DeliverUpgrade(w) \/ DeliverOpen(w)
               \/ DeliverMessage(w) \/ DeliverOther(w) \/ DeliverClose(w)
<1>1. Inbox(w) \in Seq(Events)
  BY InboxTyped
<1>2. ASSUME NEW kind, Delivering(w, kind)
      PROVE  /\ w = Listener => kind \in {"accept", "close"}
             /\ w \in Conns => kind # "accept"
  <2>1. /\ Inbox(w) # <<>> /\ Head(Inbox(w)) \in Events /\ Head(Inbox(w)).kind = kind
    BY <1>2, DeliveryLeaves, DeliveryInbox
  <2>2. Head(Inbox(w)) = Inbox(w)[1] /\ 1 \in 1 .. Len(Inbox(w))
    BY <1>1, <2>1, TailParts
  <2> QED BY <2>1, <2>2 DEF ListenerKept, Meets, Of, Strange
<1>3. CASE w = Listener
  BY <1>2, <1>3 DEF Deliver, DeliverRequest, DeliverUpgrade, DeliverOpen, DeliverMessage,
       DeliverOther, DeliverClose
<1>4. CASE w \in Conns
  BY <1>2, <1>4, WorkerFacts DEF Deliver, DeliverAccept, DeliverListenerClose
<1> QED BY <1>3, <1>4 DEF Workers

LEMMA DeliverTyped ==
  ASSUME TypeOK, ListenerKept, NEW w \in Workers, Deliver(w)
  PROVE  /\ cancelRequested' \in [Workers -> BOOLEAN] /\ wake' \in [Workers -> BOOLEAN]
         /\ commands' \in [Conns -> Seq(CommandKinds)]
<1>1. FlagTyped /\ CommandTyped /\ ListenerTyped
  BY TypedParts
<1>2. CASE DeliverAccept(w)
  <2>1. UNCHANGED commands
    BY <1>2 DEF DeliverAccept
  <2>2. cancelRequested' \in [Workers -> BOOLEAN] /\ wake' \in [Workers -> BOOLEAN]
    BY <1>1, <1>2 DEF DeliverAccept, FlagTyped, TooMany
  <2> QED BY <1>1, <2>1, <2>2 DEF CommandTyped
<1>3. CASE w \in Conns /\ DeliverRequest(w)
  <2>1. UNCHANGED cancelRequested
        /\ (Send(w, "end") \/ UNCHANGED <<commands, wake>>)
    BY <1>3 DEF DeliverRequest
  <2> QED BY <1>1, <1>3, <2>1, SendTyped DEF FlagTyped, CommandTyped, CommandKinds
<1>4. CASE w \in Conns /\ DeliverUpgrade(w)
  <2>1. \/ UNCHANGED <<commands, wake, cancelRequested>>
        \/ Send(w, "websocket") /\ UNCHANGED cancelRequested
        \/ Stop(NewlyDestroyed({w})) /\ UNCHANGED commands
    BY <1>4 DEF DeliverUpgrade, AcceptWebSocket
  <2> QED BY <1>1, <1>4, <2>1, SendTyped, StopTyped DEF FlagTyped, CommandTyped, CommandKinds
<1>5. CASE w \in Conns /\ DeliverMessage(w)
  BY <1>5, WsCallTyped DEF DeliverMessage
<1>6. CASE DeliverOpen(w) \/ DeliverOther(w) \/ DeliverClose(w) \/ DeliverListenerClose(w)
  BY <1>1, <1>6 DEF DeliverOpen, DeliverOther, DeliverClose, DeliverListenerClose,
       FlagTyped, CommandTyped
<1> QED BY <1>2, <1>3, <1>4, <1>5, <1>6, DeliverCases

LEMMA FlagTypedStep ==
  ASSUME TypeOK, ListenerKept, [Next]_vars
  PROVE  FlagTyped'
<1>0. FlagTyped
  BY TypedParts
<1> USE DEF FlagTyped
<1>1. CASE Listen
  BY <1>0, <1>1 DEF Listen, flagVars
<1>2. CASE Calls
  BY <1>0, <1>2, CallsLeave, CallTyped DEF Workings
<1>3. CASE \E w \in Workers : Deliver(w)
  BY <1>0, <1>3, DeliveryLeaves, DeliverTyped DEF Elsewhere
<1>4. CASE ReleaseStops
  BY <1>0, <1>4 DEF ReleaseStops
<1>5. CASE ReleaseEnds
  BY <1>0, <1>5 DEF ReleaseEnds, flagVars
<1>6. CASE ListenerStep
  <2>1. terminal' \in [Workers -> BOOLEAN]
    BY <1>0, <1>6, ListenerQueues, WorkerFacts, EmitTyped DEF ReportStep
  <2>2. wake' \in [Workers -> BOOLEAN]
    BY <1>0, <1>6 DEF ListenerStep, ListenerWoken, ListenerAccepts, ListenerReports,
         ListenerLeaves, ListenerCloses
  <2> QED BY <1>0, <1>6, <2>1, <2>2, ThreadsLeave DEF OwnerSide
<1>7. CASE \E c \in Conns : ConnectionStep(c)
  <2> PICK c \in Conns : ConnectionStep(c)
    BY <1>7
  <2>1. terminal' \in [Workers -> BOOLEAN]
    BY <1>0, ConnectionQueues, WorkerFacts, EmitTyped DEF ReportStep
  <2>2. wake' \in [Workers -> BOOLEAN]
    BY <1>0 DEF ConnectionStep, IoWoken, ReadRequest, ReadFails, TakeCommands, WriteDone,
         WriteFails, Opened, IncomingMessage, IncomingControl, Clean, WaitWoken, WaitReads,
         WaitEnds, Fails, ConnectionLeaves
  <2> QED BY <1>0, <2>1, <2>2, ThreadsLeave DEF OwnerSide
<1>8. CASE \E c \in Conns : Peer(c)
  BY <1>0, <1>8, ThreadsLeave DEF OwnerSide
<1>9. CASE UNCHANGED vars
  BY <1>0, <1>9 DEF vars, flagVars
<1> QED BY <1>1, <1>2, <1>3, <1>4, <1>5, <1>6, <1>7, <1>8, <1>9, StepCases

LEMMA ListenerTypedStep ==
  ASSUME TypeOK, [Next]_vars
  PROVE  ListenerTyped'
<1>0. ListenerTyped
  BY TypedParts
<1> USE DEF ListenerTyped
<1>1. CASE Listen
  BY <1>0, <1>1 DEF Listen
<1>2. CASE Calls
  BY <1>0, <1>2, CallsLeave DEF Workings
<1>3. CASE \E w \in Workers : Deliver(w)
  <2> PICK w \in Workers : Deliver(w)
    BY <1>3
  <2>1. pending' \subseteq Conns
    BY <1>0 DEF Deliver, DeliverAccept, DeliverRequest, DeliverUpgrade, DeliverOpen,
           DeliverMessage, DeliverOther, DeliverClose, DeliverListenerClose
  <2> QED BY <1>0, <2>1, DeliveryLeaves DEF Elsewhere
<1>4. CASE ReleaseStops
  BY <1>0, <1>4 DEF ReleaseStops, acceptVars
<1>5. CASE ReleaseEnds
  BY <1>0, <1>5 DEF ReleaseEnds, acceptVars
<1>6. CASE ListenerStep
  BY <1>0, <1>6 DEF ListenerStep, ListenerWoken, ListenerAccepts, ListenerReports,
         ListenerLeaves, ListenerCloses, acceptVars
<1>7. CASE \E c \in Conns : ConnectionStep(c)
  BY <1>0, <1>7, ThreadsLeave DEF acceptVars
<1>8. CASE \E c \in Conns : Peer(c)
  BY <1>0, <1>8, ThreadsLeave DEF acceptVars
<1>9. CASE UNCHANGED vars
  BY <1>0, <1>9 DEF vars, acceptVars
<1> QED BY <1>1, <1>2, <1>3, <1>4, <1>5, <1>6, <1>7, <1>8, <1>9, StepCases

\* Where a silent step of a connection leads.
LEMMA SilentPlaces ==
  ASSUME NEW c \in Conns, Silent(c), StepTyped
  PROVE  \E next \in WorkerSteps \ {"none", "reading", "opening", "done"} :
           \/ pc' = [pc EXCEPT ![c] = next]
           \/ pc' = [pc EXCEPT ![c] = pc[c]]
           \/ pc[c] = "writing" /\ frame[c] = "websocket" /\ pc' = [pc EXCEPT ![c] = "opening"]
<1> USE PlacesTyped DEF WorkerSteps, Goes
<1>1. CASE IoWoken(c)
  <2>1. Goes(c, "failing") \/ Goes(c, pc[c])
    BY <1>1 DEF IoWoken
  <2> QED BY <2>1
<1>2. CASE ReadFails(c)
  BY <1>2 DEF ReadFails
<1>3. CASE TakeCommands(c)
  <2>1. Goes(c, "leaving") \/ Goes(c, NextPlace(c, commands[c], mode[c]))
    BY <1>3 DEF TakeCommands
  <2> QED BY <2>1
<1>4. CASE WriteDone(c)
  <2>1. pc[c] = "writing" /\ Goes(c, AfterWrite(c, mode'[c]))
    BY <1>4 DEF WriteDone
  <2>2. CASE frame[c] = "websocket"
    BY <2>1, <2>2 DEF AfterWrite
  <2>3. CASE frame[c] # "websocket"
    <3>1. AfterWrite(c, mode'[c]) \in
            {"leaving", "clean", "failing", NextPlace(c, cmds[c], mode'[c])}
      BY <2>3 DEF AfterWrite
    <3>2. NextPlace(c, cmds[c], mode'[c])
            \in {"waiting", "incoming", "failing", "leaving", "writing"}
      BY PlacesTyped
    <3>3. AfterWrite(c, mode'[c]) \in WorkerSteps \ {"none", "reading", "opening", "done"}
      BY <3>1, <3>2
    <3> QED BY <2>1, <3>3
  <2> QED BY <2>2, <2>3
<1>5. CASE WriteFails(c)
  BY <1>5 DEF WriteFails
<1>6. CASE IncomingMessage(c) /\ closeSent[c] /\ mode[c] = "websocket"
  BY <1>6 DEF IncomingMessage
<1>7. CASE IncomingControl(c)
  BY <1>7 DEF IncomingControl
<1>8. CASE WaitWoken(c) \/ WaitReads(c) \/ WaitEnds(c)
  BY <1>8 DEF WaitWoken, WaitReads, WaitEnds
<1> QED BY <1>1, <1>2, <1>3, <1>4, <1>5, <1>6, <1>7, <1>8 DEF Silent

LEMMA StepTypedStep ==
  ASSUME TypeOK, [Next]_vars
  PROVE  StepTyped'
<1>0. StepTyped
  BY TypedParts
<1> USE DEF StepTyped
<1>1. CASE Listen
  BY <1>0, <1>1 DEF Listen, WorkerSteps
<1>2. CASE Calls
  BY <1>0, <1>2, CallsLeave DEF Workings
<1>3. CASE \E w \in Workers : Deliver(w)
  <2> PICK w \in Workers : Deliver(w)
    BY <1>3
  <2>1. pc' = pc \/ \E c : pc' = [pc EXCEPT ![c] = "reading"]
    BY DEF Deliver, DeliverAccept, DeliverRequest, DeliverUpgrade, DeliverOpen,
           DeliverMessage, DeliverOther, DeliverClose, DeliverListenerClose
  <2> QED BY <1>0, <2>1 DEF WorkerSteps
<1>4. CASE ReleaseStops
  BY <1>0, <1>4 DEF ReleaseStops
<1>5. CASE ReleaseEnds
  BY <1>0, <1>5 DEF ReleaseEnds
<1>6. CASE ListenerStep
  <2>1. CASE ReportStep(Listener)
    BY <1>0, <2>1, WorkerFacts, EmitTyped DEF ReportStep
  <2>2. CASE ListenerWoken \/ (\E c \in Conns : ListenerAccepts(c)) \/ ListenerLeaves
    BY <1>0, <2>2 DEF ListenerWoken, ListenerAccepts, ListenerLeaves, WorkerSteps
  <2>3. CASE ListenerReports \/ ListenerCloses
    <3>1. Accept(accepting) \in Events /\ Event("close") \in Events
      BY EventTypes, TypedParts DEF ListenerTyped, Accept, Events, Kinds
    <3> QED BY <2>3, <3>1, EmitTyped, WorkerFacts DEF ListenerReports, ListenerCloses, WorkerSteps
  <2> QED BY <1>6, <2>2, <2>3 DEF ListenerStep
<1>7. CASE \E c \in Conns : ConnectionStep(c)
  <2> PICK c \in Conns : ConnectionStep(c)
    BY <1>7
  <2>1. CASE ReportStep(c)
    BY <1>0, <2>1, WorkerFacts, EmitTyped DEF ReportStep
  <2>2. CASE Silent(c)
    BY <1>0, <2>2, SilentPlaces DEF WorkerSteps
  <2> QED BY <2>1, <2>2, ConnectionQueues
<1>8. CASE \E c \in Conns : Peer(c)
  BY <1>0, <1>8, ThreadsLeave
<1>9. CASE UNCHANGED vars
  BY <1>0, <1>9 DEF vars
<1> QED BY <1>1, <1>2, <1>3, <1>4, <1>5, <1>6, <1>7, <1>8, <1>9, StepCases

LEMMA TakesTyped ==
  ASSUME CommandTyped, NEW c \in Conns, NEW s \in Seq(CommandKinds), Takes(c, s)
  PROVE  /\ cmds' \in [Conns -> Seq(CommandKinds)]
         /\ frame' \in [Conns -> Frames \cup {"none"}]
<1>1. CASE s = <<>>
  <2>1. <<>> \in Seq(CommandKinds)
    OBVIOUS
  <2> QED BY <1>1, <2>1 DEF Takes, CommandTyped
<1>2. CASE s # <<>>
  <2>1. Head(s) \in CommandKinds /\ Tail(s) \in Seq(CommandKinds)
    BY <1>2, TailParts
  <2>2. Head(s) \in Frames
    BY <2>1 DEF CommandKinds, Frames
  <2> QED BY <1>2, <2>1, <2>2 DEF Takes, CommandTyped
<1> QED BY <1>1, <1>2

LEMMA ConnectionCommands ==
  ASSUME TypeOK, ThreadKept, NEW c \in Conns, ConnectionStep(c)
  PROVE  CommandTyped'
<1>0. CommandTyped
  BY TypedParts
<1>1. /\ commands[c] \in Seq(CommandKinds) /\ cmds[c] \in Seq(CommandKinds)
      /\ out[c] \in Seq(Frames) /\ <<>> \in Seq(CommandKinds) /\ <<>> \in Seq(Frames)
  BY <1>0 DEF CommandTyped
<1>2. CASE TakeCommands(c)
  <2>1. commands' \in [Conns -> Seq(CommandKinds)] /\ out' \in [Conns -> Seq(Frames)]
    BY <1>0, <1>1, <1>2 DEF TakeCommands, CommandTyped
  <2>2. Takes(c, commands[c]) \/ UNCHANGED <<cmds, frame>>
    BY <1>2 DEF TakeCommands
  <2> QED BY <1>0, <1>1, <2>1, <2>2, TakesTyped DEF CommandTyped
<1>3. CASE WriteDone(c)
  <2>1. frame[c] \in Frames
    BY <1>0, <1>3 DEF WriteDone, ThreadKept, CommandTyped
  <2>2. Append(out[c], frame[c]) \in Seq(Frames)
    BY <1>1, <2>1
  <2>3. out' \in [Conns -> Seq(Frames)] /\ commands' \in [Conns -> Seq(CommandKinds)]
    BY <1>0, <1>3, <2>2 DEF WriteDone, CommandTyped
  <2>4. Takes(c, cmds[c]) \/ (frame' = [frame EXCEPT ![c] = "none"] /\ UNCHANGED cmds)
    BY <1>3 DEF WriteDone
  <2> QED BY <1>0, <1>1, <2>3, <2>4, TakesTyped DEF CommandTyped
<1>4. CASE Opened(c)
  <2>1. Takes(c, cmds[c]) /\ UNCHANGED <<commands, out>>
    BY <1>4 DEF Opened
  <2> QED BY <1>0, <1>1, <2>1, TakesTyped DEF CommandTyped
<1>5. CASE IncomingControl(c)
  <2>1. frame' \in [Conns -> Frames \cup {"none"}]
    BY <1>0, <1>5 DEF IncomingControl, CommandTyped, Frames
  <2> QED BY <1>0, <1>5, <2>1 DEF IncomingControl, CommandTyped
<1>6. CASE ConnectionLeaves(c)
  BY <1>0, <1>1, <1>6 DEF ConnectionLeaves, CommandTyped
<1>7. CASE \E kind \in {"request", "upgrade"} : ReadRequest(c, kind)
  BY <1>0, <1>7 DEF ReadRequest, CommandTyped
<1>8. CASE IoWoken(c) \/ ReadFails(c) \/ WriteFails(c) \/ Clean(c) \/ WaitWoken(c)
           \/ WaitEnds(c) \/ Fails(c)
  BY <1>0, <1>8 DEF IoWoken, ReadFails, WriteFails, Clean, WaitWoken, WaitEnds, Fails,
       connVars, CommandTyped
<1>9. CASE WaitReads(c) \/ IncomingMessage(c)
  BY <1>0, <1>9 DEF WaitReads, IncomingMessage, CommandTyped
<1> QED BY <1>2, <1>3, <1>4, <1>5, <1>6, <1>7, <1>8, <1>9 DEF ConnectionStep

LEMMA CommandTypedStep ==
  ASSUME TypeOK, ListenerKept, ThreadKept, [Next]_vars
  PROVE  CommandTyped'
<1>0. CommandTyped
  BY TypedParts
<1> USE DEF CommandTyped
<1>1. CASE Listen
  BY <1>0, <1>1 DEF Listen, connVars
<1>2. CASE Calls
  BY <1>0, <1>2, CallsLeave, CallTyped DEF Workings, connVars
<1>3. CASE \E w \in Workers : Deliver(w)
  BY <1>0, <1>3, DeliveryLeaves, DeliverTyped DEF Elsewhere, connVars
<1>4. CASE ReleaseStops
  BY <1>0, <1>4 DEF ReleaseStops, connVars
<1>5. CASE ReleaseEnds
  <2>1. <<>> \in Seq(CommandKinds)
    OBVIOUS
  <2> QED BY <1>0, <1>5, <2>1 DEF ReleaseEnds, connVars
<1>6. CASE ListenerStep
  BY <1>0, <1>6, ThreadsLeave DEF connVars
<1>7. CASE \E c \in Conns : ConnectionStep(c)
  BY <1>7, ConnectionCommands
<1>8. CASE \E c \in Conns : Peer(c)
  BY <1>0, <1>8, ThreadsLeave DEF connVars
<1>9. CASE UNCHANGED vars
  BY <1>0, <1>9 DEF vars, connVars
<1> QED BY <1>1, <1>2, <1>3, <1>4, <1>5, <1>6, <1>7, <1>8, <1>9, StepCases

LEMMA PeerTypedStep ==
  ASSUME TypeOK, [Next]_vars
  PROVE  PeerTyped'
<1>0. PeerTyped
  BY TypedParts
<1> USE HttpServerAssumption DEF PeerTyped
<1>1. CASE Listen
  BY <1>0, <1>1 DEF Listen, connVars, peerVars
<1>2. CASE Calls
  BY <1>0, <1>2, CallsLeave DEF Workings, connVars, peerVars
<1>3. CASE \E w \in Workers : Deliver(w)
  BY <1>0, <1>3, DeliveryLeaves DEF Elsewhere, connVars, peerVars
<1>4. CASE ReleaseStops
  BY <1>0, <1>4 DEF ReleaseStops, connVars, peerVars
<1>5. CASE ReleaseEnds
  BY <1>0, <1>5 DEF ReleaseEnds, connVars, peerVars
<1>6. CASE ListenerStep
  BY <1>0, <1>6, ThreadsLeave DEF connVars, peerVars
<1>7. CASE \E c \in Conns : ConnectionStep(c)
  <2> PICK c \in Conns : ConnectionStep(c)
    BY <1>7
  <2>1. closeSent' \in [Conns -> BOOLEAN] /\ spent' \in [Conns -> BOOLEAN]
    BY <1>0 DEF ConnectionStep, IoWoken, ReadRequest, ReadFails, TakeCommands, WriteDone,
         WriteFails, Opened, IncomingMessage, IncomingControl, Clean, WaitWoken, WaitReads,
         WaitEnds, Fails, ConnectionLeaves, connVars
  <2>2. mode' \in [Conns -> {"plain", "upgrade", "raw", "websocket"}]
    <3>1. mode[c] \in {"plain", "upgrade", "raw", "websocket"}
      BY <1>0
    <3>2. CASE WriteDone(c)
      BY <1>0, <3>1, <3>2 DEF WriteDone
    <3>3. CASE ~WriteDone(c)
      BY <1>0, <3>3 DEF ConnectionStep, IoWoken, ReadRequest, ReadFails, TakeCommands,
           WriteFails, Opened, IncomingMessage, IncomingControl, Clean, WaitWoken,
           WaitReads, WaitEnds, Fails, ConnectionLeaves, connVars
    <3> QED BY <3>2, <3>3
  <2>3. /\ incoming' \in [Conns -> PeerFrames \cup {"none"}]
        /\ wire' \in [Conns -> Seq(PeerFrames)] /\ sent' \in [Conns -> 0 .. MaxFrames]
    <3>1. CASE WaitReads(c)
      <4>1. wire[c] \in Seq(PeerFrames) /\ wire[c] # <<>>
        BY <1>0, <3>1 DEF WaitReads
      <4>2. Head(wire[c]) \in PeerFrames /\ Tail(wire[c]) \in Seq(PeerFrames)
        BY <4>1, TailParts
      <4> QED BY <1>0, <3>1, <4>2 DEF WaitReads
    <3>2. CASE ConnectionLeaves(c)
      <4>1. <<>> \in Seq(PeerFrames) /\ 0 \in 0 .. MaxFrames
        OBVIOUS
      <4> QED BY <1>0, <3>2, <4>1 DEF ConnectionLeaves
    <3>3. CASE ~WaitReads(c) /\ ~ConnectionLeaves(c)
      BY <1>0, <3>3 DEF ConnectionStep, IoWoken, ReadRequest, ReadFails, TakeCommands,
           WriteDone, WriteFails, Opened, IncomingMessage, IncomingControl, Clean,
           WaitWoken, WaitEnds, Fails, Others, connVars, peerVars
    <3> QED BY <3>1, <3>2, <3>3
  <2> QED BY <2>1, <2>2, <2>3
<1>8. CASE \E c \in Conns : Peer(c)
  <2> PICK c \in Conns, kind \in {"text", "close", "bad", "end"} : PeerSends(c, kind)
    BY <1>8 DEF Peer
  <2>1. wire[c] \in Seq(PeerFrames) /\ kind \in PeerFrames
    BY <1>0 DEF PeerFrames
  <2>2. Append(wire[c], kind) \in Seq(PeerFrames) /\ sent[c] + 1 \in 0 .. MaxFrames
    BY <1>0, <2>1 DEF PeerSends
  <2> QED BY <1>0, <2>2 DEF PeerSends, connVars
<1>9. CASE UNCHANGED vars
  BY <1>0, <1>9 DEF vars, connVars, peerVars
<1> QED BY <1>1, <1>2, <1>3, <1>4, <1>5, <1>6, <1>7, <1>8, <1>9, StepCases

LEMMA TypesStep ==
  ASSUME TypeOK, ListenerKept, ThreadKept, [Next]_vars
  PROVE  TypeOK'
<1>1. JsTyped' /\ OwnerTyped' /\ FlagTyped' /\ ListenerTyped' /\ StepTyped'
      /\ CommandTyped' /\ PeerTyped'
  BY JsTypedStep, OwnerTypedStep, FlagTypedStep, ListenerTypedStep, StepTypedStep,
     CommandTypedStep, PeerTypedStep
<1>2. TypeOK' <=> (JsTyped /\ OwnerTyped /\ FlagTyped /\ ListenerTyped /\ StepTyped
      /\ CommandTyped /\ PeerTyped)'
  BY TypedParts, PTL
<1> QED BY <1>1, <1>2

-----------------------------------------------------------------------------
(* The owner, and threads that have not started. *)

\* Only a release and the calls of the owner change what it works on.
LEMMA OwnerKeptStep ==
  ASSUME TypeOK, OwnerKept, ListenerKept, FreshKept, [Next]_vars
  PROVE  OwnerKept'
<1>0. record \in [Workers -> BOOLEAN] /\ target \in Workers \cup {Nobody}
      /\ Nobody \notin Workers /\ Conns \subseteq Workers /\ Listener \in Workers
  BY TypedParts, WorkerFacts DEF OwnerTyped
<1> USE DEF OwnerKept
<1>1. CASE Listen
  BY <1>0, <1>1 DEF Listen
<1>2. CASE Calls
  BY <1>2, CallsLeave DEF ownerVars
<1>3. CASE \E w \in Workers : Deliver(w)
  <2> PICK w \in Workers : Deliver(w)
    BY <1>3
  <2> PICK kind \in Kinds : Delivering(w, kind)
    BY DeliveryLeaves
  <2>1. target' \in {w, Nobody} /\ (joining' => target' = w) /\ record[w]
    BY DeliveryLeaves, DeliveryInbox DEF Delivering
  <2>2. record'[w]
    <3>1. CASE DeliverAccept(w)
      BY <1>0, <2>1, <3>1 DEF DeliverAccept
    <3>2. CASE UNCHANGED record
      BY <2>1, <3>2
    <3> QED BY <3>1, <3>2 DEF Deliver, DeliverRequest, DeliverUpgrade, DeliverOpen,
             DeliverMessage, DeliverOther, DeliverClose, DeliverListenerClose
  <2> QED BY <1>0, <2>1, <2>2
<1>4. CASE ReleaseStops
  BY <1>4 DEF ReleaseStops, ownerVars
<1>5. CASE ReleaseEnds
  BY <1>0, <1>5 DEF ReleaseEnds
<1>6. CASE ListenerStep
  BY <1>6, ThreadsLeave DEF OwnerSide, ownerVars
<1>7. CASE \E c \in Conns : ConnectionStep(c)
  BY <1>7, ThreadsLeave DEF OwnerSide, ownerVars
<1>8. CASE \E c \in Conns : Peer(c)
  BY <1>8, ThreadsLeave DEF OwnerSide, ownerVars
<1>9. CASE UNCHANGED vars
  BY <1>9 DEF vars, ownerVars
<1> QED BY <1>1, <1>2, <1>3, <1>4, <1>5, <1>6, <1>7, <1>8, <1>9, StepCases

\* A step of a thread leaves the inboxes of the others alone, and appends to its own.
LEMMA ReportInbox ==
  ASSUME TypeOK, NEW w \in Workers, NEW event \in Events, NEW next, NEW refusedNext,
         Emit(w, event, next, refusedNext), UNCHANGED <<batch, target>>
  PROVE  /\ \A v \in Workers \ {w} : /\ Inbox(v)' = Inbox(v) /\ terminal'[v] = terminal[v]
                                     /\ pc'[v] = pc[v]
         /\ \/ /\ Refused(w, refusedNext)
               /\ Inbox(w)' = Inbox(w) /\ pc'[w] = refusedNext
            \/ /\ Accepted(w, event, next)
               /\ Inbox(w)' = Inbox(w) \o <<event>>
               /\ pc'[w] = next
            \/ /\ Overflowed(w, event, refusedNext)
               /\ Inbox(w)' = Inbox(w) \o <<Event("error"), Event("close")>>
               /\ pc'[w] = refusedNext
<1>1. /\ events \in [Workers -> Seq(Events)] /\ batch \in Seq(Events)
      /\ terminal \in [Workers -> BOOLEAN] /\ pc \in [Workers -> WorkerSteps]
      /\ events[w] \in Seq(Events)
      /\ <<event>> \in Seq(Events) /\ <<Event("error"), Event("close")>> \in Seq(Events)
  BY TypedParts, EventTypes DEF OwnerTyped, FlagTyped, StepTyped, Kinds
<1>2. ASSUME NEW t \in Seq(Events), events' = [events EXCEPT ![w] = @ \o t]
      PROVE  /\ Inbox(w)' = Inbox(w) \o t
             /\ \A v \in Workers \ {w} : Inbox(v)' = Inbox(v)
  <2>1. events'[w] = events[w] \o t /\ \A v \in Workers \ {w} : events'[v] = events[v]
    BY <1>1, <1>2
  <2>2. batch \o (events[w] \o t) = (batch \o events[w]) \o t
    BY <1>1, ConcatAssociative
  <2> QED BY <2>1, <2>2 DEF Inbox
<1>3. CASE Refused(w, refusedNext)
  BY <1>1, <1>3 DEF Refused, Inbox
<1>4. CASE Accepted(w, event, next)
  <2>1. Inbox(w)' = Inbox(w) \o <<event>> /\ \A v \in Workers \ {w} : Inbox(v)' = Inbox(v)
    BY <1>1, <1>2, <1>4 DEF Accepted
  <2> QED BY <1>1, <1>4, <2>1 DEF Accepted
<1>5. CASE Overflowed(w, event, refusedNext)
  <2>1. Inbox(w)' = Inbox(w) \o <<Event("error"), Event("close")>>
        /\ \A v \in Workers \ {w} : Inbox(v)' = Inbox(v)
    BY <1>1, <1>2, <1>5 DEF Overflowed
  <2> QED BY <1>1, <1>5, <2>1 DEF Overflowed
<1> QED BY <1>3, <1>4, <1>5, EmitCases

LEMMA EmitGoesOn ==
  ASSUME TypeOK, NEW w \in Workers, NEW event, NEW next, NEW refusedNext,
         Emit(w, event, next, refusedNext)
  PROVE  pc'[w] = next \/ pc'[w] = refusedNext
<1>0. pc \in [Workers -> WorkerSteps]
  BY TypedParts DEF StepTyped
<1>1. Refused(w, refusedNext) \/ Accepted(w, event, next) \/ Overflowed(w, event, refusedNext)
  BY EmitCases
<1>2. Refused(w, refusedNext) => pc'[w] = refusedNext
  BY <1>0 DEF Refused
<1>3. Accepted(w, event, next) => pc'[w] = next
  BY <1>0 DEF Accepted
<1>4. Overflowed(w, event, refusedNext) => pc'[w] = refusedNext
  BY <1>0 DEF Overflowed
<1> QED BY <1>1, <1>2, <1>3, <1>4

LEMMA ReportTerminal ==
  ASSUME TypeOK, NEW w \in Workers, NEW event, NEW next, NEW refusedNext
  PROVE  /\ Refused(w, refusedNext) => UNCHANGED terminal /\ (stopped[w] \/ terminal[w])
         /\ Accepted(w, event, next) => (terminal'[w] <=> event.kind = "close")
                                       /\ ~stopped[w] /\ ~terminal[w]
         /\ Overflowed(w, event, refusedNext) => terminal'[w] /\ ~stopped[w] /\ ~terminal[w]
<1>1. terminal \in [Workers -> BOOLEAN]
  BY TypedParts DEF FlagTyped
<1>2. Refused(w, refusedNext) => UNCHANGED terminal /\ (stopped[w] \/ terminal[w])
  BY DEF Refused
<1>3. Accepted(w, event, next) => (terminal'[w] <=> event.kind = "close")
                                   /\ ~stopped[w] /\ ~terminal[w]
  BY <1>1 DEF Accepted
<1>4. Overflowed(w, event, refusedNext) => terminal'[w] /\ ~stopped[w] /\ ~terminal[w]
  BY <1>1 DEF Overflowed
<1> QED BY <1>2, <1>3, <1>4

\* The steps of one thread.
ThreadStep(w) == (w = Listener /\ ListenerStep) \/ (w \in Conns /\ ConnectionStep(w))

LEMMA OneThread ==
  ASSUME TypeOK, NEW w \in Workers, ThreadStep(w)
  PROVE  /\ \A v \in Workers \ {w} : /\ Inbox(v)' = Inbox(v) /\ terminal'[v] = terminal[v]
                                     /\ pc'[v] = pc[v]
         /\ pc[w] \notin {"none", "done"} /\ pc'[w] # "none"
         /\ UNCHANGED <<OwnerSide, record, target, joining, batch>>
<1>0. /\ pc \in [Workers -> WorkerSteps] /\ terminal \in [Workers -> BOOLEAN]
  BY TypedParts DEF StepTyped, FlagTyped
<1>1. UNCHANGED <<OwnerSide, record, target, joining, batch>>
  BY ThreadsLeave DEF ThreadStep, OwnerSide, ownerVars
<1>2. CASE ReportStep(w)
  <2> PICK event \in Events, next \in WorkerSteps, refusedNext \in WorkerSteps :
        Reports(w, event, next, refusedNext) /\ Emit(w, event, next, refusedNext)
    BY <1>2 DEF ReportStep
  <2>1. pc[w] \notin {"none", "done"} /\ next # "none" /\ refusedNext # "none"
    BY PlacesTyped DEF Reports
  <2>2. UNCHANGED <<batch, target>>
    BY <1>1
  <2>3. Emit(w, event, next, refusedNext)
    OBVIOUS
  <2>4. /\ \A v \in Workers \ {w} : /\ Inbox(v)' = Inbox(v) /\ terminal'[v] = terminal[v]
                                     /\ pc'[v] = pc[v]
        /\ pc'[w] = next \/ pc'[w] = refusedNext
    <3>1. \A v \in Workers \ {w} : /\ Inbox(v)' = Inbox(v) /\ terminal'[v] = terminal[v]
                                     /\ pc'[v] = pc[v]
      BY <2>2, <2>3, ReportInbox
    <3>2. pc'[w] = next \/ pc'[w] = refusedNext
      BY <2>3, EmitGoesOn
    <3> QED BY <3>1, <3>2
  <2> QED BY <1>1, <2>1, <2>4
<1>3. CASE UNCHANGED <<events, terminal>>
  <2>1. \A v \in Workers : Inbox(v)' = Inbox(v) /\ terminal'[v] = terminal[v]
    BY <1>1, <1>3 DEF Inbox
  <2>2. CASE w = Listener /\ ListenerStep /\ ~ReportStep(Listener)
    <3>1. pc[w] \notin {"none", "done"}
      BY <2>2 DEF ListenerStep, ListenerWoken, ListenerAccepts, ListenerReports,
         ListenerLeaves, ListenerCloses
    <3>2. CASE ListenerWoken \/ (\E c \in Conns : ListenerAccepts(c)) \/ ListenerLeaves
      <4>1. \/ pc' = pc \/ pc' = [pc EXCEPT ![Listener] = "leaving"]
            \/ pc' = [pc EXCEPT ![Listener] = "waiting"]
            \/ pc' = [pc EXCEPT ![Listener] = "accepted"]
            \/ pc' = [pc EXCEPT ![Listener] = "closing"]
        BY <3>2 DEF ListenerWoken, ListenerAccepts, ListenerLeaves
      <4> QED BY <1>0, <1>1, <2>1, <2>2, <3>1, <4>1
    <3>3. CASE ListenerReports
      <4>1. Accept(accepting) \in Events
        BY TypedParts DEF ListenerTyped, Accept, Events, Kinds
      <4>2. ReportStep(Listener)
        BY <3>3, <4>1 DEF ListenerReports, ReportStep, Reports, WorkerSteps
      <4> QED BY <2>2, <4>2
    <3>4. CASE ListenerCloses
      <4>1. ReportStep(Listener)
        BY <3>4, EventTypes DEF ListenerCloses, ReportStep, Reports, WorkerSteps, Kinds
      <4> QED BY <2>2, <4>1
    <3> QED BY <2>2, <3>2, <3>3, <3>4 DEF ListenerStep
  <2>3. CASE w \in Conns /\ Silent(w)
    <3>1. pc[w] \notin {"none", "done"}
      BY <2>3 DEF Silent, IoWoken, ReadFails, TakeCommands, WriteDone, WriteFails,
         IncomingMessage, IncomingControl, WaitWoken, WaitReads, WaitEnds
    <3> QED BY <1>0, <1>1, <2>1, <2>3, <3>1, SilentPlaces DEF StepTyped
  <2> QED BY <1>2, <2>2, <2>3, ConnectionQueues DEF ThreadStep
<1> QED BY <1>2, <1>3, ListenerQueues, ConnectionQueues DEF ThreadStep

LEMMA FreshKeptStep ==
  ASSUME TypeOK, OwnerKept, FreshKept, ListenerKept, [Next]_vars
  PROVE  FreshKept'
<1>0. /\ record \in [Workers -> BOOLEAN] /\ target \in Workers \cup {Nobody}
      /\ pc \in [Workers -> WorkerSteps] /\ stopped \in [Workers -> BOOLEAN]
      /\ backlog \subseteq Conns /\ pending \subseteq Conns
      /\ Nobody \notin Workers /\ Conns \subseteq Workers /\ Listener \in Workers
      /\ Listener \notin Conns
  BY TypedParts, WorkerFacts DEF OwnerTyped, StepTyped, FlagTyped, ListenerTyped
<1> USE DEF FreshKept
<1>1. CASE Listen
  <2>1. pending = {} /\ pc[Listener] = "none"
    BY <1>1 DEF Listen, ListenerKept, Active
  <2>2. \A w \in Workers : Inbox(w)' = Inbox(w)
    BY <1>1 DEF Listen, Inbox
  <2> QED BY <1>0, <1>1, <2>1, <2>2 DEF Listen, flagVars
<1>2. CASE UNCHANGED <<backlog, pending, pc, record, stopped, terminal, events, target, batch>>
  BY <1>2 DEF Inbox
<1>3. CASE \E w \in Workers : Deliver(w)
  <2> PICK w \in Workers : Deliver(w)
    BY <1>3
  <2> PICK kind \in Kinds : Delivering(w, kind)
    BY DeliveryLeaves
  <2>1. /\ record[w] /\ pc[w] # "none"
        /\ \A v \in Workers \ {w} : Inbox(v)' = Inbox(v)
    BY DeliveryLeaves, DeliveryInbox DEF Delivering
  <2>2. UNCHANGED <<terminal, stopped, backlog>>
    BY DeliveryLeaves DEF Elsewhere
  <2>3. CASE DeliverAccept(w)
    <3> DEFINE c == Head(Taken(w)).conn
    <3>1. /\ pending' = pending \ {c}
          /\ \/ UNCHANGED <<record, pc>>
             \/ /\ c \in pending
                /\ record' = [record EXCEPT ![c] = TRUE]
                /\ pc' = [pc EXCEPT ![c] = "reading"]
      BY <2>3 DEF DeliverAccept
    <3> HIDE DEF c
    <3>2. w = Listener
      BY <2>3, DeliverCases DEF DeliverAccept, DeliverRequest, DeliverUpgrade, DeliverOpen,
         DeliverMessage, DeliverOther, DeliverClose, Delivering
    <3> QED BY <1>0, <2>1, <2>2, <3>1, <3>2
  <2>4. CASE UNCHANGED <<record, pc, pending>>
    BY <1>0, <2>1, <2>2, <2>4
  <2> QED BY <2>3, <2>4 DEF Deliver, DeliverRequest, DeliverUpgrade, DeliverOpen,
           DeliverMessage, DeliverOther, DeliverClose, DeliverListenerClose
<1>4. CASE ReleaseStops
  <2>1. record[target] /\ target \in Workers /\ pc[target] # "none"
    BY <1>4 DEF ReleaseStops, OwnerKept
  <2>2. UNCHANGED <<backlog, pending, pc, record, terminal, events, target, batch>>
    BY <1>4 DEF ReleaseStops, acceptVars, ownerVars
  <2>3. \A w \in Workers : Inbox(w)' = Inbox(w) /\ (w # target => stopped'[w] = stopped[w])
    BY <1>0, <1>4, <2>2 DEF ReleaseStops, Inbox
  <2> QED BY <2>1, <2>2, <2>3
<1>5. CASE ReleaseEnds
  <2>1. target \in Workers /\ pc[target] # "none"
    BY <1>5 DEF ReleaseEnds, OwnerKept
  <2>2. UNCHANGED <<backlog, pending, pc, terminal, stopped>>
    BY <1>5 DEF ReleaseEnds, acceptVars, flagVars
  <2>3. \A w \in Workers \ {target} : Inbox(w)' = Inbox(w) /\ record'[w] = record[w]
    BY <1>0, <1>5, <2>1, TypedParts DEF ReleaseEnds, Inbox, OwnerTyped
  <2> QED BY <2>1, <2>2, <2>3
<1>6. CASE ListenerStep
  <2>1. /\ \A v \in Conns : Inbox(v)' = Inbox(v) /\ terminal'[v] = terminal[v]
                            /\ pc'[v] = pc[v]
        /\ pc[Listener] # "none" /\ pc'[Listener] # "none"
        /\ UNCHANGED <<record, stopped>>
    BY <1>0, <1>6, OneThread DEF ThreadStep, OwnerSide
  <2>2. backlog' \cap pending' = {} /\ backlog' \cup pending' \subseteq backlog \cup pending
    BY <1>6 DEF ListenerStep, ListenerWoken, ListenerAccepts, ListenerReports,
       ListenerLeaves, ListenerCloses, acceptVars
  <2> QED BY <1>0, <2>1, <2>2 DEF Workers
<1>7. CASE \E c \in Conns : ConnectionStep(c)
  <2> PICK c \in Conns : ConnectionStep(c)
    BY <1>7
  <2>1. /\ \A v \in Workers \ {c} : Inbox(v)' = Inbox(v) /\ terminal'[v] = terminal[v]
                            /\ pc'[v] = pc[v]
        /\ pc[c] # "none" /\ pc'[c] # "none"
        /\ UNCHANGED <<record, stopped>>
    BY <1>0, OneThread DEF ThreadStep, OwnerSide
  <2>2. UNCHANGED <<backlog, pending>>
    BY ThreadsLeave DEF acceptVars
  <2> QED BY <1>0, <2>1, <2>2
<1>8. CASE (\E c \in Conns : Peer(c)) \/ Calls \/ UNCHANGED vars
  <2>1. UNCHANGED <<backlog, pending, pc, record, stopped, terminal, events, target, batch>>
    BY <1>8, ThreadsLeave, CallsLeave
       DEF OwnerSide, ownerVars, acceptVars, Workings, vars, flagVars
  <2> QED BY <1>2, <2>1
<1> QED BY <1>1, <1>3, <1>4, <1>5, <1>6, <1>7, <1>8, StepCases

-----------------------------------------------------------------------------
(* The listener and the pending connections. *)

\* The listener's report is neither refused nor too much for its queue.
LEMMA ListenerReportsAccepted ==
  ASSUME TypeOK, ListenerKept, PendingExact, ListenerReports
  PROVE  /\ Accepted(Listener, Accept(accepting), "waiting")
         /\ pc'[Listener] = "waiting"
         /\ Inbox(Listener)' = Inbox(Listener) \o <<Accept(accepting)>>
         /\ accepting \in Conns /\ accepting' = Nobody
         /\ UNCHANGED <<backlog, pending, target, batch, joining, stopped>>
         /\ ~terminal'[Listener]
<1>1. /\ pc[Listener] = "accepted" /\ accepting \in Conns
      /\ Emit(Listener, Accept(accepting), "waiting", "leaving")
      /\ accepting' = Nobody
      /\ UNCHANGED <<backlog, pending, target, batch, joining, stopped>>
  BY DEF ListenerReports, ListenerKept, OwnerSide, ownerVars
<1>2. Accept(accepting) \in Events /\ Accept(accepting).kind = "accept" /\ Listener \in Workers
  BY <1>1, EventTypes, WorkerFacts
<1>3. ~Refused(Listener, "leaving")
  BY <1>1 DEF Refused, ListenerKept
<1>4. ~Overflowed(Listener, Accept(accepting), "leaving")
  <2>1. /\ Inbox(Listener) \in Seq(Events) /\ events[Listener] \in Seq(Events)
        /\ batch \in Seq(Events)
    BY <1>2, InboxTyped
  <2>2. Len(events[Listener]) <= Len(Inbox(Listener)) /\ Len(Inbox(Listener)) \in Nat
    BY <2>1, ConcatParts DEF Inbox
  <2>3. Len(Inbox(Listener)) + 1 <= MaxPending
    BY <1>1 DEF PendingExact, Active
  <2>4. Len(events[Listener]) < Capacity /\ Len(events[Listener]) \in Nat
    BY <2>1, <2>2, <2>3, HttpServerAssumption
  <2> QED BY <2>4, HttpServerAssumption DEF Overflowed
<1>5. Accepted(Listener, Accept(accepting), "waiting")
  BY <1>1, <1>3, <1>4, EmitCases
<1>6. ~terminal'[Listener]
  BY <1>2, <1>5, ReportTerminal
<1>7. pc'[Listener] = "waiting"
      /\ Inbox(Listener)' = Inbox(Listener) \o <<Accept(accepting)>>
  <2>1. UNCHANGED <<batch, target>>
    BY <1>1
  <2> QED BY <1>1, <1>2, <1>3, <1>4, <2>1, ReportInbox
<1> QED BY <1>1, <1>5, <1>6, <1>7

\* What the owner takes from the listener.
LEMMA AcceptTaken ==
  ASSUME TypeOK, ListenerKept, PendingExact, DeliverAccept(Listener)
  PROVE  LET c == Head(Inbox(Listener)).conn
             inbox == Inbox(Listener)
         IN  /\ inbox # <<>> /\ inbox \in Seq(Events)
             /\ Inbox(Listener)' = Tail(inbox)
             /\ pending' = pending \ {c}
             /\ UNCHANGED <<accepting, backlog, terminal, stopped>>
             /\ pc'[Listener] = pc[Listener]
             /\ ~joining'
             /\ pc[Listener] \in Active => c \in pending /\ c # accepting
<1>1. Delivering(Listener, "accept") /\ Returns(Listener) /\ Listener \in Workers
  BY WorkerFacts DEF DeliverAccept
<1>2. /\ Inbox(Listener) # <<>> /\ Inbox(Listener) \in Seq(Events)
      /\ Head(Taken(Listener)) = Head(Inbox(Listener))
      /\ Head(Inbox(Listener)).kind = "accept"
      /\ Inbox(Listener)' = Tail(Inbox(Listener))
  BY <1>1, DeliveryInbox, InboxTyped
<1>3. Head(Inbox(Listener)) = Inbox(Listener)[1] /\ 1 \in 1 .. Len(Inbox(Listener))
  BY <1>2, TailParts
<1>4. pending' = pending \ {Head(Inbox(Listener)).conn}
  BY <1>2 DEF DeliverAccept
<1>5. UNCHANGED <<accepting, backlog, terminal, stopped>>
  BY DEF DeliverAccept, Elsewhere
<1>6. pc'[Listener] = pc[Listener]
  <2>1. pending \subseteq Conns /\ pc \in [Workers -> WorkerSteps] /\ Listener \notin Conns
    BY TypedParts, WorkerFacts DEF ListenerTyped, StepTyped
  <2> QED BY <1>1, <2>1 DEF DeliverAccept
<1>7. ~joining'
  BY <1>1, <1>2 DEF Returns
<1> QED BY <1>2, <1>3, <1>4, <1>5, <1>6, <1>7 DEF PendingExact

LEMMA ListenerKeptStep ==
  ASSUME TypeOK, OwnerKept, ListenerKept, PendingExact, [Next]_vars
  PROVE  ListenerKept'
<1>0. /\ target \in Workers \cup {Nobody} /\ pc \in [Workers -> WorkerSteps]
      /\ stopped \in [Workers -> BOOLEAN] /\ events \in [Workers -> Seq(Events)]
      /\ pending \subseteq Conns /\ accepting \in Conns \cup {Nobody}
      /\ Nobody \notin Workers /\ Nobody \notin Conns /\ Conns \subseteq Workers
      /\ Listener \in Workers /\ Listener \notin Conns
  BY TypedParts, WorkerFacts DEF OwnerTyped, StepTyped, FlagTyped, ListenerTyped
<1>1. CASE Listen
  <2>1. \A w \in Workers : Inbox(w)' = Inbox(w)
    BY <1>1 DEF Listen, Inbox
  <2> QED BY <1>0, <1>1, <2>1 DEF Listen, ListenerKept, Active, flagVars
<1>2. CASE UNCHANGED <<pending, accepting, pc, stopped, terminal, events, target, batch, joining>>
  BY <1>2 DEF Inbox, ListenerKept
<1>3. CASE \E w \in Workers : Deliver(w)
  <2> PICK w \in Workers : Deliver(w)
    BY <1>3
  <2> PICK kind \in Kinds : Delivering(w, kind)
    BY DeliveryLeaves
  <2>1. /\ \A v \in Workers \ {w} : Inbox(v)' = Inbox(v)
        /\ RestOf(Inbox(w)', Inbox(w)) /\ Inbox(w)' \in Seq(Events) /\ Inbox(w) \in Seq(Events)
        /\ joining' => target' = w
    BY DeliveryLeaves, DeliveryInbox, InboxTyped
  <2>2. \A v \in Workers : \A K : Meets(Inbox(v)', K) => Meets(Inbox(v), K)
    BY <2>1, MeetsRest
  <2>3. UNCHANGED <<terminal, stopped, accepting>> /\ ~joining
    BY DeliveryLeaves DEF Elsewhere, Delivering
  <2>4. CASE w = Listener /\ DeliverAccept(w)
    BY <1>0, <2>2, <2>3, <2>4, AcceptTaken DEF ListenerKept, Active
  <2>5. CASE w = Listener /\ DeliverListenerClose(w)
    <3>1. Head(Inbox(w)) \in Events /\ Head(Inbox(w)).kind = "close" /\ Inbox(w) # <<>>
      BY <2>5, DeliveryInbox DEF DeliverListenerClose
    <3>2. Meets(Inbox(Listener), Of("close"))
      BY <2>1, <2>5, <3>1, MeetsTail DEF Of
    <3>3. pc[Listener] = "done" /\ UNCHANGED <<pc, pending>>
      BY <2>5, <3>2 DEF ListenerKept, DeliverListenerClose
    <3> QED BY <1>0, <2>2, <2>3, <3>3 DEF ListenerKept
  <2>6. CASE w \in Conns
    <3>1. UNCHANGED <<pc, pending>> /\ ~(joining' /\ target' = Listener)
      BY <1>0, <2>1, <2>6, DeliverCases DEF DeliverRequest, DeliverUpgrade, DeliverOpen,
         DeliverMessage, DeliverOther, DeliverClose
    <3> QED BY <1>0, <2>2, <2>3, <3>1 DEF ListenerKept
  <2> QED BY <2>4, <2>5, <2>6, DeliverCases
<1>4. CASE ReleaseStops
  <2>1. UNCHANGED <<pending, accepting, pc, terminal, events, target, batch, joining>>
        /\ joining /\ (target # Listener => stopped'[Listener] = stopped[Listener])
    BY <1>0, <1>4 DEF ReleaseStops, acceptVars, ownerVars
  <2> QED BY <2>1 DEF ListenerKept, Inbox
<1>5. CASE ReleaseEnds
  <2>1. target \in Workers /\ joining
    BY <1>5 DEF ReleaseEnds, OwnerKept
  <2>2. UNCHANGED <<pending, accepting, pc, terminal, stopped>> /\ ~joining'
    BY <1>5 DEF ReleaseEnds, acceptVars, flagVars
  <2>3. \A w \in Workers : Inbox(w)' = Inbox(w) \/ Inbox(w)' = <<>>
    BY <1>0, <1>5, <2>1 DEF ReleaseEnds, Inbox
  <2> QED BY <1>0, <2>2, <2>3, MeetsEmpty DEF ListenerKept
<1>6. CASE ListenerStep
  <2>1. /\ \A v \in Conns : Inbox(v)' = Inbox(v)
        /\ UNCHANGED <<stopped, joining, target, batch>>
    BY <1>0, <1>6, OneThread DEF ThreadStep, OwnerSide
  <2>2. CASE ListenerReports
    <3>1. Inbox(Listener) \in Seq(Events) /\ Accept(accepting) \in Events
          /\ Accept(accepting).kind = "accept"
      BY <1>0, <2>2, InboxTyped, EventTypes, ListenerReportsAccepted
    <3>2. Accept(accepting) \notin Strange /\ Accept(accepting) \notin Of("close")
      BY <3>1 DEF Strange, Of
    <3>3. ~Meets(Inbox(Listener)', Strange) /\ ~Meets(Inbox(Listener)', Of("close"))
      <4>1. ~Meets(Inbox(Listener), Strange) /\ ~Meets(Inbox(Listener), Of("close"))
        BY <2>2 DEF ListenerKept, ListenerReports
      <4> QED BY <2>2, <3>1, <3>2, <4>1, MeetsOne, ListenerReportsAccepted
    <3> QED BY <1>0, <2>1, <2>2, <3>3, ListenerReportsAccepted DEF ListenerKept, Active
  <2>3. CASE ListenerWoken \/ ListenerLeaves \/ \E c \in Conns : ListenerAccepts(c)
    <3>1. UNCHANGED <<events, terminal>> /\ Inbox(Listener)' = Inbox(Listener)
      BY <2>1, <2>3 DEF ListenerWoken, ListenerLeaves, ListenerAccepts, Inbox
    <3> QED BY <1>0, <2>1, <2>3, <3>1 DEF ListenerWoken, ListenerLeaves, ListenerAccepts,
           ListenerKept, Active, acceptVars
  <2>4. CASE ListenerCloses
    <3>1. /\ pc[Listener] = "closing" /\ Emit(Listener, Event("close"), "done", "done")
          /\ UNCHANGED <<accepting, pending>>
      BY <2>4 DEF ListenerCloses, acceptVars
    <3>2. Event("close") \in Events /\ Event("close").kind = "close"
      BY EventTypes DEF Kinds
    <3>3. pc'[Listener] = "done"
          /\ \/ Inbox(Listener)' = Inbox(Listener)
             \/ Inbox(Listener)' = Inbox(Listener) \o <<Event("close")>>
      <4>1. ~Overflowed(Listener, Event("close"), "done")
        BY <3>2 DEF Overflowed
      <4>2. Refused(Listener, "done") \/ Accepted(Listener, Event("close"), "done")
        BY <3>1, <4>1, EmitCases
      <4>3. UNCHANGED <<batch, target>>
        BY <2>1
      <4> QED BY <1>0, <3>1, <3>2, <4>1, <4>3, ReportInbox
    <3>4. ~Meets(Inbox(Listener)', Strange)
      <4>1. Inbox(Listener) \in Seq(Events) /\ Event("close") \notin Strange
        BY <1>0, <3>2, InboxTyped DEF Strange
      <4>2. ~Meets(Inbox(Listener) \o <<Event("close")>>, Strange)
        BY <3>2, <4>1, MeetsOne DEF ListenerKept
      <4> QED BY <3>3, <4>2 DEF ListenerKept
    <3> QED BY <2>1, <3>1, <3>3, <3>4 DEF ListenerKept, Active
  <2> QED BY <1>6, <2>2, <2>3, <2>4 DEF ListenerStep
<1>7. CASE \E c \in Conns : ConnectionStep(c)
  <2> PICK c \in Conns : ConnectionStep(c)
    BY <1>7
  <2>1. /\ \A v \in Workers \ {c} : Inbox(v)' = Inbox(v) /\ terminal'[v] = terminal[v]
                                    /\ pc'[v] = pc[v]
        /\ UNCHANGED <<stopped, joining, target, batch, pending, accepting>>
    BY <1>0, OneThread, ThreadsLeave DEF ThreadStep, OwnerSide, acceptVars
  <2>2. ~Meets(Inbox(c)', Of("accept"))
    <3>1. CASE UNCHANGED <<events, terminal>>
      BY <2>1, <3>1 DEF Inbox, ListenerKept
    <3>2. CASE ReportStep(c)
      <4> PICK event \in Events, next \in WorkerSteps, refusedNext \in WorkerSteps :
            Reports(c, event, next, refusedNext) /\ Emit(c, event, next, refusedNext)
        BY <3>2 DEF ReportStep
      <4>1. event.kind # "accept"
        BY <1>0 DEF Reports, Event
      <4>2. UNCHANGED <<batch, target>> /\ Emit(c, event, next, refusedNext)
        BY <2>1
      <4>3. \/ Inbox(c)' = Inbox(c) \/ Inbox(c)' = Inbox(c) \o <<event>>
            \/ Inbox(c)' = Inbox(c) \o <<Event("error"), Event("close")>>
        BY <1>0, <4>2, ReportInbox
      <4>4. /\ Event("error") \in Events /\ Event("close") \in Events
            /\ event \notin Of("accept")
            /\ Event("error") \notin Of("accept") /\ Event("close") \notin Of("accept")
        BY <4>1, EventTypes DEF Kinds, Of
      <4>5. ~Meets(Inbox(c), Of("accept")) /\ Inbox(c) \in Seq(Events)
        BY <1>0, InboxTyped DEF ListenerKept
      <4>6. /\ ~Meets(Inbox(c) \o <<event>>, Of("accept"))
            /\ ~Meets(Inbox(c) \o <<Event("error"), Event("close")>>, Of("accept"))
        BY <4>4, <4>5, MeetsOne, MeetsTwo
      <4> QED BY <4>3, <4>5, <4>6
    <3> QED BY <3>1, <3>2, ConnectionQueues
  <2> QED BY <1>0, <2>1, <2>2 DEF ListenerKept
<1>8. CASE (\E c \in Conns : Peer(c)) \/ Calls \/ UNCHANGED vars
  <2>1. UNCHANGED <<pending, accepting, pc, stopped, terminal, events, target, batch, joining>>
    BY <1>8, ThreadsLeave, CallsLeave
       DEF OwnerSide, ownerVars, acceptVars, Workings, vars, flagVars
  <2> QED BY <1>2, <2>1
<1> QED BY <1>1, <1>3, <1>4, <1>5, <1>6, <1>7, <1>8, StepCases

LEMMA PendingExactStep ==
  ASSUME TypeOK, OwnerKept, FreshKept, ListenerKept, PendingExact, [Next]_vars
  PROVE  PendingExact'
<1>0. /\ target \in Workers \cup {Nobody} /\ pc \in [Workers -> WorkerSteps]
      /\ events \in [Workers -> Seq(Events)]
      /\ pending \subseteq Conns /\ accepting \in Conns \cup {Nobody}
      /\ Nobody \notin Workers /\ Nobody \notin Conns /\ Conns \subseteq Workers
      /\ Listener \in Workers /\ Listener \notin Conns
      /\ IsFiniteSet(pending) /\ Cardinality(pending) \in Nat
      /\ Inbox(Listener) \in Seq(Events) /\ Len(Inbox(Listener)) \in Nat
  <2>1. IsFiniteSet(pending)
    BY TypedParts, HttpServerAssumption, FS_Subset DEF ListenerTyped
  <2> QED BY <2>1, FS_CardinalityType, TypedParts, WorkerFacts, InboxTyped
       DEF OwnerTyped, StepTyped, ListenerTyped
<1>1. CASE Listen
  <2>1. Inbox(Listener)' = Inbox(Listener) /\ Inbox(Listener) = <<>>
    BY <1>0, <1>1 DEF Listen, Inbox, FreshKept
  <2>2. pc[Listener] = "none" /\ pending = {} /\ accepting \notin Conns
        /\ UNCHANGED <<pending, accepting>>
    BY <1>1 DEF Listen, ListenerKept, Active
  <2>3. Cardinality(pending) = 0 /\ Len(Inbox(Listener)) = 0
    BY <2>1, <2>2, FS_EmptySet
  <2> QED BY <2>1, <2>2, <2>3, HttpServerAssumption DEF PendingExact
<1>2. CASE /\ UNCHANGED <<pending, accepting>> /\ pc'[Listener] = pc[Listener]
           /\ Inbox(Listener)' = Inbox(Listener)
  BY <1>2 DEF PendingExact
<1>3. CASE \E w \in Workers : Deliver(w)
  <2> PICK w \in Workers : Deliver(w)
    BY <1>3
  <2> PICK kind \in Kinds : Delivering(w, kind)
    BY DeliveryLeaves
  <2>1. CASE w = Listener /\ DeliverAccept(w)
    <3> DEFINE inbox == Inbox(Listener)
               c == Head(inbox).conn
    <3>1. /\ inbox # <<>> /\ inbox \in Seq(Events)
          /\ Inbox(Listener)' = Tail(inbox)
          /\ pending' = pending \ {c}
          /\ UNCHANGED accepting /\ pc'[Listener] = pc[Listener]
          /\ pc[Listener] \in Active => c \in pending /\ c # accepting
      BY <2>1, AcceptTaken
    <3>2. /\ Len(inbox) \in Nat /\ Len(Tail(inbox)) = Len(inbox) - 1 /\ inbox[1] = Head(inbox)
          /\ \A i \in 1 .. Len(Tail(inbox)) :
               Tail(inbox)[i] = inbox[i + 1] /\ i + 1 \in 1 .. Len(inbox) /\ i + 1 # 1
          /\ 1 \in 1 .. Len(inbox) /\ Head(inbox).conn = c
      BY <3>1, TailParts
    <3>3. \A b \in Conns : b # c /\ Meets(inbox, {Accept(b)}) => Meets(Tail(inbox), {Accept(b)})
      <4> TAKE b \in Conns
      <4>1. b # c => Head(inbox) \notin {Accept(b)}
        BY EventTypes
      <4> QED BY <3>1, <4>1, MeetsTail
    <3> HIDE DEF inbox, c
    <3> SUFFICES ASSUME pc[Listener] \in Active
                 PROVE  PendingExact'
      BY <3>1 DEF PendingExact
    <3>4. /\ \A i \in 1 .. Len(inbox) : inbox[i].conn \in pending /\ inbox[i].conn # accepting
          /\ \A i, j \in 1 .. Len(inbox) : inbox[i].conn = inbox[j].conn => i = j
          /\ Cardinality(pending) = Len(inbox) + (IF accepting \in Conns THEN 1 ELSE 0)
          /\ Cardinality(pending) <= MaxPending
          /\ \A b \in pending : b = accepting \/ Meets(inbox, {Accept(b)})
      BY DEF PendingExact, inbox
    <3>5. Cardinality(pending') = Cardinality(pending) - 1
      BY <1>0, <3>1, FS_RemoveElement
    <3>6. \A i \in 1 .. Len(Tail(inbox)) :
            Tail(inbox)[i].conn \in pending' /\ Tail(inbox)[i].conn # accepting
      BY <3>1, <3>2, <3>4
    <3>7. \A i, j \in 1 .. Len(Tail(inbox)) :
            Tail(inbox)[i].conn = Tail(inbox)[j].conn => i = j
      <4> TAKE i, j \in 1 .. Len(Tail(inbox))
      <4>1. i + 1 = j + 1 => i = j
        OBVIOUS
      <4> QED BY <3>2, <3>4, <4>1
    <3>8. \A b \in pending' : b = accepting \/ Meets(Tail(inbox), {Accept(b)})
      BY <1>0, <3>1, <3>3, <3>4
    <3>9. /\ Cardinality(pending') = Len(Tail(inbox)) + (IF accepting \in Conns THEN 1 ELSE 0)
          /\ Cardinality(pending') <= MaxPending
      <4>1. CASE accepting \in Conns
        BY <1>0, <3>2, <3>4, <3>5, <4>1, HttpServerAssumption
      <4>2. CASE accepting \notin Conns
        BY <1>0, <3>2, <3>4, <3>5, <4>2, HttpServerAssumption
      <4> QED BY <4>1, <4>2
    <3> QED BY <3>1, <3>6, <3>7, <3>8, <3>9 DEF PendingExact
  <2>2. CASE w = Listener /\ DeliverListenerClose(w)
    <3>1. Head(Inbox(w)) \in Events /\ Head(Inbox(w)).kind = "close" /\ Inbox(w) # <<>>
      BY <2>2, DeliveryInbox DEF DeliverListenerClose
    <3>2. Meets(Inbox(Listener), Of("close"))
      BY <1>0, <2>2, <3>1, MeetsTail DEF Of
    <3>3. pc'[Listener] = "done"
      BY <2>2, <3>2 DEF ListenerKept, DeliverListenerClose
    <3> QED BY <3>3 DEF PendingExact, Active
  <2>3. CASE w \in Conns
    <3>1. UNCHANGED <<pc, pending>> /\ Inbox(Listener)' = Inbox(Listener)
      BY <1>0, <2>3, DeliverCases, DeliveryLeaves, DeliveryInbox
         DEF DeliverRequest, DeliverUpgrade, DeliverOpen, DeliverMessage, DeliverOther,
             DeliverClose
    <3>2. UNCHANGED accepting
      BY DeliveryLeaves DEF Elsewhere
    <3> QED BY <1>2, <3>1, <3>2
  <2> QED BY <2>1, <2>2, <2>3, DeliverCases
<1>4. CASE ReleaseStops
  BY <1>2, <1>4 DEF ReleaseStops, acceptVars, ownerVars, Inbox
<1>5. CASE ReleaseEnds
  <2>1. target \in Workers /\ joining /\ UNCHANGED <<pending, accepting, pc>>
    BY <1>5 DEF ReleaseEnds, OwnerKept, acceptVars
  <2>2. CASE target = Listener
    <3>1. pc'[Listener] = "done"
      BY <2>1, <2>2 DEF ListenerKept
    <3> QED BY <3>1 DEF PendingExact, Active
  <2>3. CASE target # Listener
    <3>1. Inbox(Listener)' = Inbox(Listener)
      BY <1>0, <1>5, <2>1, <2>3 DEF ReleaseEnds, Inbox
    <3> QED BY <1>2, <2>1, <3>1
  <2> QED BY <2>2, <2>3
<1>6. CASE ListenerStep
  <2>0. UNCHANGED <<stopped, joining, target, batch>>
    BY <1>0, <1>6, OneThread DEF ThreadStep, OwnerSide
  <2>1. CASE ListenerReports
    <3> DEFINE inbox == Inbox(Listener)
               e == Accept(accepting)
    <3>1. /\ pc[Listener] = "accepted" /\ accepting \in Conns /\ accepting' = Nobody
          /\ UNCHANGED pending /\ Inbox(Listener)' = inbox \o <<e>>
          /\ accepting \in pending
      BY <2>1, ListenerReportsAccepted DEF ListenerReports, ListenerKept
    <3>2. e \in Events /\ e.conn = accepting
      BY <3>1, EventTypes
    <3>3. /\ Len(inbox \o <<e>>) = Len(inbox) + 1
          /\ \A i \in 1 .. Len(inbox) : (inbox \o <<e>>)[i] = inbox[i]
          /\ (inbox \o <<e>>)[Len(inbox) + 1] = e
      BY <1>0, <3>2
    <3>4. \A K : Meets(inbox \o <<e>>, K) <=> Meets(inbox, K) \/ e \in K
      BY <1>0, <3>2, MeetsOne
    <3>5. /\ \A i \in 1 .. Len(inbox) : inbox[i].conn \in pending /\ inbox[i].conn # accepting
          /\ \A i, j \in 1 .. Len(inbox) : inbox[i].conn = inbox[j].conn => i = j
          /\ Cardinality(pending) = Len(inbox) + 1
          /\ Cardinality(pending) <= MaxPending
          /\ \A b \in pending : b = accepting \/ Meets(inbox, {Accept(b)})
      BY <3>1 DEF PendingExact, Active
    <3>6. \A b \in pending : Meets(inbox \o <<e>>, {Accept(b)})
      BY <3>4, <3>5
    <3> DEFINE q == inbox \o <<e>>
    <3>7. /\ Len(q) = Len(inbox) + 1
          /\ \A i \in 1 .. Len(inbox) : q[i] = inbox[i]
          /\ q[Len(inbox) + 1] = e
          /\ \A b \in pending : Meets(q, {Accept(b)})
          /\ Inbox(Listener)' = q /\ Len(inbox) \in Nat
      BY <1>0, <3>1, <3>3, <3>6
    <3> HIDE DEF q, e, inbox
    <3>8. \A i \in 1 .. Len(q) :
            i \in 1 .. Len(inbox) \/ (i = Len(inbox) + 1 /\ q[i].conn = accepting)
      BY <3>2, <3>7
    <3>9. \A i \in 1 .. Len(q) : q[i].conn \in pending /\ q[i].conn # accepting'
      BY <1>0, <3>1, <3>5, <3>7, <3>8
    <3>10. \A i, j \in 1 .. Len(q) : q[i].conn = q[j].conn => i = j
      BY <3>5, <3>7, <3>8
    <3>11. accepting' \notin Conns /\ Cardinality(pending) = Len(q) + 0
      BY <1>0, <3>1, <3>5, <3>7
    <3> QED BY <3>1, <3>5, <3>7, <3>9, <3>10, <3>11 DEF PendingExact
  <2>2. CASE \E c \in Conns : ListenerAccepts(c)
    <3> PICK c \in Conns : ListenerAccepts(c)
      BY <2>2
    <3>1. Inbox(Listener)' = Inbox(Listener) /\ pc[Listener] = "waiting" /\ c \in backlog
      BY <2>0 DEF ListenerAccepts, Inbox
    <3>2. CASE UNCHANGED <<pending, accepting, pc>>
      BY <1>2, <3>1, <3>2
    <3>3. CASE /\ ~(Cardinality(pending) >= MaxPending)
               /\ pending' = pending \cup {c} /\ accepting' = c
      <4>1. c \notin pending /\ accepting \notin Conns
        BY <3>1 DEF FreshKept, ListenerKept
      <4>2. Cardinality(pending') = Cardinality(pending) + 1
        BY <1>0, <3>3, <4>1, FS_AddElement
      <4> DEFINE inbox == Inbox(Listener)
      <4>3. /\ \A i \in 1 .. Len(inbox) : inbox[i].conn \in pending /\ inbox[i].conn # accepting
            /\ \A i, j \in 1 .. Len(inbox) : inbox[i].conn = inbox[j].conn => i = j
            /\ Cardinality(pending) = Len(inbox)
            /\ \A b \in pending : b = accepting \/ Meets(inbox, {Accept(b)})
        <5>1. pc[Listener] \in Active
          BY <3>1 DEF Active
        <5>2. Cardinality(pending) = Len(inbox) + 0
          BY <4>1, <5>1 DEF PendingExact
        <5>3. Cardinality(pending) = Len(inbox)
          BY <1>0, <5>2
        <5> HIDE DEF inbox
        <5>4. /\ \A i \in 1 .. Len(inbox) : inbox[i].conn \in pending /\ inbox[i].conn # accepting
              /\ \A i, j \in 1 .. Len(inbox) : inbox[i].conn = inbox[j].conn => i = j
              /\ \A b \in pending : b = accepting \/ Meets(inbox, {Accept(b)})
          BY <5>1 DEF PendingExact, inbox
        <5> QED BY <5>3, <5>4
      <4> HIDE DEF inbox
      <4>4. Cardinality(pending') = Len(inbox) + 1 /\ Cardinality(pending') <= MaxPending
        BY <1>0, <3>3, <4>2, <4>3, HttpServerAssumption
      <4>5. \A i \in 1 .. Len(inbox) : inbox[i].conn \in pending' /\ inbox[i].conn # accepting'
        BY <3>3, <4>1, <4>3
      <4>6. \A b \in pending' : b = accepting' \/ Meets(inbox, {Accept(b)})
        BY <1>0, <3>3, <4>1, <4>3
      <4>7. Inbox(Listener)' = inbox
        BY <3>1 DEF inbox
      <4> QED BY <3>3, <4>3, <4>4, <4>5, <4>6, <4>7 DEF PendingExact
    <3> QED BY <3>2, <3>3 DEF ListenerAccepts
  <2>3. CASE ListenerWoken
    <3>1. /\ UNCHANGED <<pending, accepting>> /\ Inbox(Listener)' = Inbox(Listener)
          /\ pc[Listener] = "waiting"
      BY <2>0, <2>3 DEF ListenerWoken, Inbox, acceptVars
    <3> QED BY <3>1 DEF PendingExact, Active
  <2>4. CASE ListenerLeaves \/ ListenerCloses
    <3>1. CASE ListenerLeaves
      BY <1>0, <3>1 DEF ListenerLeaves, PendingExact, Active
    <3>2. CASE ListenerCloses
      <4>1. Emit(Listener, Event("close"), "done", "done") /\ Event("close") \in Events
        BY <3>2, EventTypes DEF ListenerCloses, Kinds
      <4>2. pc'[Listener] = "done"
        BY <1>0, <4>1, EmitGoesOn
      <4> QED BY <4>2 DEF PendingExact, Active
    <3> QED BY <2>4, <3>1, <3>2
  <2> QED BY <1>6, <2>1, <2>2, <2>3, <2>4 DEF ListenerStep
<1>7. CASE \E c \in Conns : ConnectionStep(c)
  <2> PICK c \in Conns : ConnectionStep(c)
    BY <1>7
  <2>1. /\ \A v \in Workers \ {c} : Inbox(v)' = Inbox(v) /\ pc'[v] = pc[v]
        /\ UNCHANGED <<pending, accepting>>
    BY <1>0, OneThread, ThreadsLeave DEF ThreadStep, acceptVars
  <2> QED BY <1>0, <1>2, <2>1
<1>8. CASE (\E c \in Conns : Peer(c)) \/ Calls \/ UNCHANGED vars
  <2>1. UNCHANGED <<pending, accepting, pc, events, target, batch>>
    BY <1>8, ThreadsLeave, CallsLeave
       DEF OwnerSide, ownerVars, acceptVars, Workings, vars, flagVars
  <2>2. Inbox(Listener)' = Inbox(Listener)
    BY <2>1 DEF Inbox
  <2> QED BY <1>2, <2>1, <2>2
<1> QED BY <1>1, <1>3, <1>4, <1>5, <1>6, <1>7, <1>8, StepCases

-----------------------------------------------------------------------------
(* The end of a thread. *)

LEMMA ReportedEnds ==
  ASSUME TypeOK, NEW w \in Workers, NEW event \in Events, NEW next, NEW refusedNext,
         Reports(w, event, next, refusedNext)
  PROVE  /\ event.kind = "close" => event = Event("close")
         /\ next = "done" \/ refusedNext = "done" => event = Event("close")
<1>1. /\ \A kind \in Kinds : Event(kind).kind = kind
      /\ Accept(accepting).kind = "accept"
  BY EventTypes
<1> QED BY <1>1, PlacesTyped DEF Reports, Kinds

LEMMA ThreadEnds ==
  ASSUME TypeOK, NEW w \in Workers, ThreadStep(w)
  PROVE  /\ Meets(Inbox(w), {Event("close")}) => Meets(Inbox(w)', {Event("close")})
         /\ terminal'[w] \/ pc'[w] = "done" =>
              Meets(Inbox(w)', {Event("close")}) \/ terminal[w] \/ stopped[w]
<1>0. /\ Inbox(w) \in Seq(Events) /\ UNCHANGED <<batch, target>>
      /\ Event("error") \in Events /\ Event("close") \in Events
      /\ pc[w] \notin {"none", "done"} /\ pc \in [Workers -> WorkerSteps]
  BY InboxTyped, EventTypes, OneThread, TypedParts DEF Kinds, StepTyped
<1>1. CASE ReportStep(w)
  <2> PICK event \in Events, next \in WorkerSteps, refusedNext \in WorkerSteps :
        Reports(w, event, next, refusedNext) /\ Emit(w, event, next, refusedNext)
    BY <1>1 DEF ReportStep
  <2>1. /\ event.kind = "close" => event = Event("close")
        /\ next = "done" \/ refusedNext = "done" => event = Event("close")
    BY ReportedEnds
  <2>2. Emit(w, event, next, refusedNext)
    OBVIOUS
  <2>3. CASE Refused(w, refusedNext)
    <3>1. UNCHANGED terminal /\ (stopped[w] \/ terminal[w])
      BY <2>3, ReportTerminal
    <3>2. Inbox(w)' = Inbox(w)
      BY <1>0, <2>3 DEF Refused, Inbox
    <3> QED BY <3>1, <3>2
  <2>4. CASE Accepted(w, event, next)
    <3>1. terminal'[w] <=> event.kind = "close"
      BY <2>4, ReportTerminal
    <3>2. Inbox(w)' = Inbox(w) \o <<event>> /\ pc'[w] = next
      <4>1. ~Refused(w, refusedNext) /\ ~Overflowed(w, event, refusedNext)
        BY <2>4 DEF Refused, Accepted, Overflowed
      <4> QED BY <1>0, <2>2, <4>1, ReportInbox
    <3>3. Meets(Inbox(w)', {Event("close")})
            <=> Meets(Inbox(w), {Event("close")}) \/ event = Event("close")
      BY <1>0, <3>2, MeetsOne
    <3> QED BY <2>1, <3>1, <3>2, <3>3
  <2>5. CASE Overflowed(w, event, refusedNext)
    <3>1. Inbox(w)' = Inbox(w) \o <<Event("error"), Event("close")>>
      <4>1. ~Refused(w, refusedNext) /\ ~Accepted(w, event, next)
        BY <2>5 DEF Refused, Accepted, Overflowed
      <4> QED BY <1>0, <2>2, <4>1, ReportInbox
    <3>2. Meets(Inbox(w)', {Event("close")})
      BY <1>0, <3>1, MeetsTwo
    <3> QED BY <3>2
  <2> QED BY <2>2, <2>3, <2>4, <2>5, EmitCases
<1>2. CASE UNCHANGED <<events, terminal>> /\ pc'[w] # "done"
  BY <1>0, <1>2 DEF Inbox
<1>3. CASE w = Listener /\ ListenerStep
  <2>1. CASE ListenerReports
    <3>1. Accept(accepting) \in Events
      BY TypedParts DEF ListenerTyped, Accept, Events, Kinds
    <3>2. ReportStep(Listener)
      BY <2>1, <3>1 DEF ListenerReports, ReportStep, Reports, WorkerSteps
    <3> QED BY <1>1, <1>3, <3>2
  <2>2. CASE ListenerCloses
    <3>1. ReportStep(Listener)
      BY <1>0, <2>2 DEF ListenerCloses, ReportStep, Reports, WorkerSteps
    <3> QED BY <1>1, <1>3, <3>1
  <2>3. CASE ListenerWoken \/ (\E c \in Conns : ListenerAccepts(c)) \/ ListenerLeaves
    <3>1. \/ pc' = pc \/ pc' = [pc EXCEPT ![Listener] = "leaving"]
          \/ pc' = [pc EXCEPT ![Listener] = "waiting"]
          \/ pc' = [pc EXCEPT ![Listener] = "accepted"]
          \/ pc' = [pc EXCEPT ![Listener] = "closing"]
      BY <2>3 DEF ListenerWoken, ListenerAccepts, ListenerLeaves
    <3>2. UNCHANGED <<events, terminal>>
      BY <2>3 DEF ListenerWoken, ListenerAccepts, ListenerLeaves
    <3> QED BY <1>0, <1>2, <1>3, <3>1, <3>2
  <2> QED BY <1>3, <2>1, <2>2, <2>3 DEF ListenerStep
<1>4. CASE w \in Conns /\ Silent(w) /\ UNCHANGED <<events, terminal>>
  <2>1. pc'[w] # "done"
    BY <1>0, <1>4, SilentPlaces DEF StepTyped
  <2> QED BY <1>2, <1>4, <2>1
<1> QED BY <1>1, <1>3, <1>4, ConnectionQueues DEF ThreadStep

LEMMA OwedKeptStep ==
  ASSUME TypeOK, OwnerKept, FreshKept, ListenerKept, OwedKept, [Next]_vars
  PROVE  OwedKept'
<1>0. /\ record \in [Workers -> BOOLEAN] /\ target \in Workers \cup {Nobody}
      /\ pc \in [Workers -> WorkerSteps] /\ stopped \in [Workers -> BOOLEAN]
      /\ events \in [Workers -> Seq(Events)] /\ pending \subseteq Conns
      /\ Nobody \notin Workers /\ Conns \subseteq Workers /\ Listener \in Workers
      /\ Listener \notin Conns
  BY TypedParts, WorkerFacts DEF OwnerTyped, StepTyped, FlagTyped, ListenerTyped
<1> USE DEF OwedKept, EndOwed
<1>1. CASE Listen
  <2>1. \A w \in Workers : Inbox(w)' = Inbox(w)
    BY <1>1 DEF Listen, Inbox
  <2>2. ~terminal[Listener] /\ ~stopped[Listener] /\ pc'[Listener] = "waiting"
        /\ UNCHANGED <<terminal, stopped, joining, target>>
    BY <1>0, <1>1 DEF Listen, FreshKept, flagVars
  <2>3. \A w \in Workers \ {Listener} : record'[w] = record[w] /\ pc'[w] = pc[w]
    BY <1>0, <1>1 DEF Listen
  <2> QED BY <2>1, <2>2, <2>3
<1>2. CASE UNCHANGED <<pc, record, stopped, terminal, events, target, batch, joining>>
  BY <1>2 DEF Inbox
<1>3. CASE \E w \in Workers : Deliver(w)
  <2> PICK w \in Workers : Deliver(w)
    BY <1>3
  <2> PICK kind \in Kinds : Delivering(w, kind)
    BY DeliveryLeaves
  <2>1. /\ \A v \in Workers \ {w} : Inbox(v)' = Inbox(v)
        /\ Inbox(w) \in Seq(Events) /\ Inbox(w) # <<>> /\ Head(Inbox(w)).kind = kind
        /\ Returns(w) => Inbox(w)' = Tail(Inbox(w)) /\ joining' = (kind = "close")
        /\ ~joining /\ record[w]
        /\ UNCHANGED <<terminal, stopped>>
    <3>1. Returns(w) => joining' = (kind = "close")
      BY DEF Returns, Delivering
    <3> QED BY <3>1, DeliveryLeaves, DeliveryInbox, InboxTyped DEF Delivering, Elsewhere
  <2>2. \/ UNCHANGED <<record, pc>>
        \/ \E c \in pending : /\ record' = [record EXCEPT ![c] = TRUE]
                              /\ pc' = [pc EXCEPT ![c] = "reading"]
    BY DEF Deliver, DeliverAccept, DeliverRequest, DeliverUpgrade, DeliverOpen,
           DeliverMessage, DeliverOther, DeliverClose, DeliverListenerClose
  <2>3. \A v \in Workers : record'[v] =>
          \/ record[v] /\ pc'[v] = pc[v]
          \/ pc'[v] = "reading" /\ ~terminal[v] /\ ~stopped[v]
    BY <1>0, <2>2 DEF FreshKept
  <2>4. terminal[w] \/ pc[w] = "done" =>
          Meets(Inbox(w)', {Event("close")}) \/ (joining' /\ target' = w)
    <3>1. CASE Returns(w)
      <4>1. CASE kind = "close"
        <5>1. joining' /\ target' = w
          BY <2>1, <3>1, <4>1 DEF Returns
        <5> QED BY <5>1
      <4>2. CASE kind # "close"
        <5>1. Head(Inbox(w)) \notin {Event("close")}
          BY <2>1, <4>2, EventTypes DEF Kinds
        <5>2. Meets(Inbox(w), {Event("close")}) => Meets(Inbox(w)', {Event("close")})
          <6>1. Inbox(w)' = Tail(Inbox(w)) /\ Inbox(w) \in Seq(Events) /\ Inbox(w) # <<>>
            BY <2>1, <3>1
          <6>2. Meets(Inbox(w), {Event("close")}) => Meets(Tail(Inbox(w)), {Event("close")})
            BY <5>1, <6>1, MeetsTail
          <6> QED BY <6>1, <6>2
        <5> QED BY <2>1, <5>2
      <4> QED BY <4>1, <4>2
    <3>2. CASE Escapes(w)
      BY <3>2 DEF Escapes
    <3> QED BY <3>1, <3>2, DeliveryLeaves
  <2>5. \A v \in Workers \ {w} : record[v] =>
          ~stopped[v] /\ (terminal[v] \/ pc[v] = "done" => Meets(Inbox(v)', {Event("close")}))
    BY <2>1
  <2> QED BY <2>1, <2>3, <2>4, <2>5
<1>4. CASE ReleaseStops
  <2>1. UNCHANGED <<pc, record, terminal, events, target, batch, joining>> /\ joining
    BY <1>4 DEF ReleaseStops, ownerVars
  <2>2. \A w \in Workers : Inbox(w)' = Inbox(w) /\ (w # target => stopped'[w] = stopped[w])
    BY <1>0, <1>4, <2>1 DEF ReleaseStops, Inbox
  <2> QED BY <2>1, <2>2
<1>5. CASE ReleaseEnds
  <2>1. target \in Workers /\ joining /\ UNCHANGED <<pc, terminal, stopped>>
    BY <1>5 DEF ReleaseEnds, OwnerKept, flagVars
  <2>2. ~record'[target]
        /\ \A w \in Workers \ {target} : Inbox(w)' = Inbox(w) /\ record'[w] = record[w]
    BY <1>0, <1>5, <2>1 DEF ReleaseEnds, Inbox
  <2> QED BY <2>1, <2>2
<1>6. CASE \E w \in Workers : ThreadStep(w)
  <2> PICK w \in Workers : ThreadStep(w)
    BY <1>6
  <2>1. /\ \A v \in Workers \ {w} : /\ Inbox(v)' = Inbox(v) /\ terminal'[v] = terminal[v]
                                     /\ pc'[v] = pc[v]
        /\ UNCHANGED <<record, stopped, target, joining>>
    BY OneThread DEF OwnerSide
  <2> QED BY <2>1, ThreadEnds
<1>7. CASE (\E c \in Conns : Peer(c)) \/ Calls \/ UNCHANGED vars
  <2>1. UNCHANGED <<pc, record, stopped, terminal, events, target, batch, joining>>
    BY <1>7, ThreadsLeave, CallsLeave
       DEF OwnerSide, ownerVars, acceptVars, Workings, vars, flagVars
  <2> QED BY <1>2, <2>1
<1> QED BY <1>0, <1>1, <1>3, <1>4, <1>5, <1>6, <1>7, StepCases DEF ThreadStep

LEMMA HeldHasRecordStep ==
  ASSUME TypeOK, OwnerKept, ListenerKept, HeldHasRecord, [Next]_vars
  PROVE  HeldHasRecord'
<1>0. /\ record \in [Workers -> BOOLEAN] /\ pending \subseteq Conns /\ sockets \subseteq Conns
      /\ Conns \subseteq Workers /\ Listener \in Workers /\ Listener \notin Conns
  BY TypedParts, WorkerFacts DEF OwnerTyped, ListenerTyped, JsTyped
<1> USE DEF HeldHasRecord
<1>1. CASE Listen
  BY <1>0, <1>1 DEF Listen, JsRuns
<1>2. CASE UNCHANGED <<handle, sockets, record, target, joining, threw>>
  BY <1>2
<1>3. CASE \E w \in Workers : Deliver(w)
  <2> PICK w \in Workers : Deliver(w)
    BY <1>3
  <2>1. CASE Escapes(w)
    BY <2>1 DEF Escapes
  <2>2. CASE Returns(w)
    <3>1. UNCHANGED threw
      BY <2>2 DEF Returns
    <3>2. CASE w = Listener /\ DeliverAccept(w)
      <4>1. ~joining'
        BY <2>2, <3>2 DEF DeliverAccept, Delivering, Returns
      <4>2. UNCHANGED handle
            /\ \/ UNCHANGED <<record, sockets>>
               \/ \E c \in pending : /\ record' = [record EXCEPT ![c] = TRUE]
                                     /\ sockets' = sockets \cup {c}
        BY <3>2 DEF DeliverAccept
      <4> QED BY <1>0, <3>1, <4>1, <4>2
    <3>3. CASE w = Listener /\ DeliverListenerClose(w)
      <4>1. ~handle' /\ UNCHANGED <<sockets, record>>
        BY <3>3 DEF DeliverListenerClose
      <4>2. joining' => target' = Listener
        BY <2>2, <3>3 DEF Returns
      <4> QED BY <1>0, <3>1, <4>1, <4>2
    <3>4. CASE w \in Conns /\ DeliverClose(w)
      <4>1. sockets' = sockets \ {w} /\ UNCHANGED <<handle, record>>
        BY <3>4 DEF DeliverClose
      <4>2. joining' => target' = w
        BY <2>2 DEF Returns
      <4> QED BY <1>0, <3>1, <3>4, <4>1, <4>2
    <3>5. CASE \/ DeliverRequest(w) \/ DeliverUpgrade(w) \/ DeliverOpen(w)
               \/ DeliverMessage(w) \/ DeliverOther(w)
      <4>1. UNCHANGED <<handle, sockets, record>>
        BY <3>5 DEF DeliverRequest, DeliverUpgrade, DeliverOpen, DeliverMessage, DeliverOther
      <4>2. ~joining'
        <5>1. \E kind \in Kinds : kind # "close" /\ Delivering(w, kind)
          BY <3>5 DEF DeliverRequest, DeliverUpgrade, DeliverOpen, DeliverMessage, DeliverOther,
               Kinds
        <5> QED BY <2>2, <5>1 DEF Returns, Delivering
      <4> QED BY <3>1, <4>1, <4>2
    <3> QED BY <3>2, <3>3, <3>4, <3>5, DeliverCases
  <2> QED BY <2>1, <2>2, DeliveryLeaves
<1>4. CASE ReleaseStops
  BY <1>2, <1>4 DEF ReleaseStops, jsVars, ownerVars
<1>5. CASE ReleaseEnds
  <2>1. joining /\ target \in Workers /\ UNCHANGED <<handle, sockets, threw>> /\ ~joining'
        /\ \A w \in Workers \ {target} : record'[w] = record[w]
    BY <1>0, <1>5 DEF ReleaseEnds, OwnerKept
  <2> QED BY <1>0, <2>1
<1>6. CASE \/ ListenerStep \/ (\E c \in Conns : ConnectionStep(c)) \/ (\E c \in Conns : Peer(c))
           \/ Calls \/ UNCHANGED vars
  BY <1>2, <1>6, ThreadsLeave, CallsLeave DEF OwnerSide, ownerVars, jsVars, vars
<1> QED BY <1>1, <1>3, <1>4, <1>5, <1>6, StepCases

-----------------------------------------------------------------------------
(* The limit on the sockets. *)

LEMMA CallsDestroy ==
  ASSUME Calls
  PROVE  UNCHANGED destroyed \/ \E cs : Destroyed(cs)
<1>1. CASE \E cs \in {{}, sockets} : Close(cs)
  BY <1>1 DEF Close
<1>2. CASE \E c \in sockets : Destroy(c)
  BY <1>2 DEF Destroy
<1>3. CASE \E c \in sockets : Respond(c)
  BY <1>3 DEF Respond
<1>4. CASE \E c \in sockets : \E kind \in {"write", "end"} : SocketSend(c, kind)
  BY <1>4 DEF SocketSend, jsVars
<1>5. CASE \E c \in sockets : WebSocketCall(c)
  BY <1>5 DEF WebSocketCall, WsClose
<1> QED BY <1>1, <1>2, <1>3, <1>4, <1>5 DEF Calls

LEMMA ConnectionsBoundedStep ==
  ASSUME TypeOK, OwnerKept, ListenerKept, ConnectionsBounded, [Next]_vars
  PROVE  ConnectionsBounded'
<1> DEFINE live == {c \in sockets : ~destroyed[c]}
<1>0. /\ sockets \subseteq Conns /\ destroyed \in [Conns -> BOOLEAN] /\ pending \subseteq Conns
      /\ IsFiniteSet(Conns) /\ MaxConnections \in Nat
  BY TypedParts, HttpServerAssumption DEF JsTyped, ListenerTyped
<1>1. IsFiniteSet(live) /\ Cardinality(live) \in Nat /\ Cardinality(live) <= MaxConnections
  <2>1. IsFiniteSet(live)
    BY <1>0, FS_Subset
  <2> QED BY <2>1, FS_CardinalityType DEF ConnectionsBounded
<1>2. ASSUME live' \subseteq live
      PROVE  ConnectionsBounded'
  <2>1. Cardinality(live') <= Cardinality(live) /\ Cardinality(live') \in Nat
    BY <1>1, <1>2, FS_Subset, FS_CardinalityType
  <2> HIDE DEF live
  <2>2. Cardinality(live') <= MaxConnections
    BY <1>0, <1>1, <2>1
  <2> QED BY <2>2 DEF ConnectionsBounded, live
<1>3. ASSUME sockets' \subseteq sockets, \A c \in sockets' : destroyed[c] => destroyed'[c]
      PROVE  ConnectionsBounded'
  BY <1>2, <1>3
<1>4. CASE \E w \in Workers : Deliver(w)
  <2> PICK w \in Workers : Deliver(w)
    BY <1>4
  <2>1. CASE DeliverAccept(w)
    <3> DEFINE c == Head(Taken(w)).conn
               refused == TooMany(sockets \cup {c})
    <3>1. \/ UNCHANGED <<sockets, destroyed>>
          \/ /\ c \in pending /\ sockets' = sockets \cup {c}
             /\ destroyed' = [destroyed EXCEPT ![c] = refused]
      BY <2>1 DEF DeliverAccept
    <3>2. ~refused => ~(Cardinality(sockets \cup {c}) > MaxConnections)
      BY DEF TooMany
    <3> HIDE DEF c, refused
    <3>3. CASE UNCHANGED <<sockets, destroyed>>
      BY <1>3, <3>3
    <3>4. CASE /\ c \in pending /\ sockets' = sockets \cup {c}
               /\ destroyed' = [destroyed EXCEPT ![c] = refused]
      <4>1. CASE refused
        <5>1. live' \subseteq live
          BY <1>0, <3>4, <4>1
        <5> QED BY <1>2, <5>1
      <4>2. CASE ~refused
        <5>1. IsFiniteSet(sockets \cup {c}) /\ Cardinality(sockets \cup {c}) \in Nat
          <6>1. IsFiniteSet(sockets \cup {c})
            BY <1>0, <3>4, FS_Subset
          <6> QED BY <6>1, FS_CardinalityType
        <5>2. live' \subseteq sockets \cup {c}
          BY <3>4
        <5>3. IsFiniteSet(live') /\ Cardinality(live') <= Cardinality(sockets \cup {c})
              /\ Cardinality(live') \in Nat
          BY <5>1, <5>2, FS_Subset, FS_CardinalityType
        <5> HIDE DEF live
        <5>4. Cardinality(live') <= MaxConnections
          BY <1>0, <3>2, <4>2, <5>1, <5>3
        <5> QED BY <5>4 DEF ConnectionsBounded, live
      <4> QED BY <4>1, <4>2
    <3> QED BY <3>1, <3>3, <3>4
  <2>2. CASE DeliverClose(w) /\ w \in Conns
    BY <1>0, <1>3, <2>2 DEF DeliverClose
  <2>3. CASE \/ DeliverRequest(w) \/ DeliverUpgrade(w) \/ DeliverOpen(w)
             \/ DeliverMessage(w) \/ DeliverOther(w) \/ DeliverListenerClose(w)
    <3>1. UNCHANGED sockets /\ (UNCHANGED destroyed \/ Destroyed({w}))
      BY <2>3 DEF DeliverRequest, DeliverUpgrade, DeliverOpen, DeliverMessage, DeliverOther,
           DeliverListenerClose, WsClose
    <3> QED BY <1>0, <1>3, <3>1 DEF Destroyed
  <2> QED BY <2>1, <2>2, <2>3, DeliverCases
<1>5. CASE Calls
  <2>1. UNCHANGED sockets
    BY <1>5, CallsLeave
  <2>2. \A c \in Conns : destroyed[c] => destroyed'[c]
    BY <1>5, CallsDestroy DEF Destroyed
  <2> QED BY <1>0, <1>3, <2>1, <2>2
<1>6. CASE ReleaseEnds
  <2>1. UNCHANGED sockets
        /\ (destroyed' = destroyed \/ (target \in Conns \ sockets
                                       /\ destroyed' = [destroyed EXCEPT ![target] = FALSE]))
    BY <1>6 DEF ReleaseEnds
  <2> QED BY <1>0, <1>3, <2>1
<1>7. CASE \/ Listen \/ ReleaseStops \/ ListenerStep \/ (\E c \in Conns : ConnectionStep(c))
           \/ (\E c \in Conns : Peer(c)) \/ UNCHANGED vars
  <2>1. UNCHANGED <<sockets, destroyed>>
    BY <1>7, ThreadsLeave DEF OwnerSide, jsVars, vars, Listen, ReleaseStops
  <2> QED BY <1>3, <2>1
<1> QED BY <1>4, <1>5, <1>6, <1>7, StepCases

-----------------------------------------------------------------------------
(* What a connection's thread holds. *)

\* The commands and frames of c, from native.send to the peer.
Pipe(c) == <<commands[c], cmds[c], frame[c], out[c]>>

LEMMA OnePipe ==
  ASSUME TypeOK, NEW c \in Conns, ConnectionStep(c)
  PROVE  \A d \in Conns \ {c} : Pipe(d)' = Pipe(d)
<1> /\ commands \in [Conns -> Seq(CommandKinds)] /\ cmds \in [Conns -> Seq(CommandKinds)]
    /\ frame \in [Conns -> Frames \cup {"none"}] /\ out \in [Conns -> Seq(Frames)]
  BY TypedParts DEF CommandTyped
<1>1. CASE \/ IoWoken(c) \/ ReadFails(c) \/ WriteFails(c) \/ Clean(c) \/ Fails(c)
           \/ WaitWoken(c) \/ WaitReads(c) \/ WaitEnds(c) \/ IncomingMessage(c)
           \/ \E kind \in {"request", "upgrade"} : ReadRequest(c, kind)
  <2>1. UNCHANGED <<commands, cmds, frame, out>>
    BY <1>1 DEF IoWoken, ReadFails, WriteFails, Clean, Fails, WaitWoken, WaitReads, WaitEnds,
         IncomingMessage, ReadRequest, connVars
  <2> QED BY <2>1 DEF Pipe
<1>2. CASE TakeCommands(c)
  <2>1. /\ commands' = [commands EXCEPT ![c] = <<>>] /\ UNCHANGED out
        /\ UNCHANGED <<cmds, frame>> \/ Takes(c, commands[c])
    BY <1>2 DEF TakeCommands
  <2> QED BY <2>1 DEF Pipe, Takes
<1>3. CASE WriteDone(c)
  <2>1. /\ out' = [out EXCEPT ![c] = Append(@, frame[c])] /\ UNCHANGED commands
        /\ Takes(c, cmds[c]) \/ (frame' = [frame EXCEPT ![c] = "none"] /\ UNCHANGED cmds)
    BY <1>3 DEF WriteDone
  <2> QED BY <2>1 DEF Pipe, Takes
<1>4. CASE Opened(c)
  <2>1. UNCHANGED <<commands, out>> /\ Takes(c, cmds[c])
    BY <1>4 DEF Opened
  <2> QED BY <2>1 DEF Pipe, Takes
<1>5. CASE IncomingControl(c)
  BY <1>5 DEF IncomingControl, Pipe
<1>6. CASE ConnectionLeaves(c)
  BY <1>6 DEF ConnectionLeaves, Pipe
<1> QED BY <1>1, <1>2, <1>3, <1>4, <1>5, <1>6 DEF ConnectionStep

\* The batch of commands moves on by one.
LEMMA TakesOne ==
  ASSUME CommandTyped, NEW c \in Conns, NEW s \in Seq(CommandKinds), Takes(c, s)
  PROVE  \/ s = <<>> /\ cmds'[c] = <<>> /\ frame'[c] = "none"
         \/ /\ s # <<>> /\ cmds'[c] = Tail(s) /\ frame'[c] = Head(s)
            /\ frame'[c] \in CommandKinds
<1>1. cmds \in [Conns -> Seq(CommandKinds)] /\ frame \in [Conns -> Frames \cup {"none"}]
  BY DEF CommandTyped
<1>2. CASE s = <<>>
  BY <1>1, <1>2 DEF Takes
<1>3. CASE s # <<>>
  BY <1>1, <1>3, TailParts DEF Takes
<1> QED BY <1>2, <1>3

LEMMA NextPlaceWrites ==
  \A c, s, m : NextPlace(c, s, m) = "writing" => s # <<>>
BY DEF NextPlace

Settled(c) ==
  /\ pc[c] = "writing" => frame[c] # "none"
  /\ pc[c] \in {"none", "reading", "done"} =>
       out[c] = <<>> /\ cmds[c] = <<>> /\ frame[c] = "none"
  /\ Meets(out[c], Replies) => pc[c] \in {"clean", "failing", "leaving"}
  /\ \A i \in 1 .. Len(out[c]) : out[c][i] \in Replies => i = Len(out[c])

LEMMA SettledStep ==
  ASSUME TypeOK, NEW c \in Conns, ConnectionStep(c), Settled(c)
  PROVE  Settled(c)'
<1>0. /\ commands \in [Conns -> Seq(CommandKinds)] /\ cmds \in [Conns -> Seq(CommandKinds)]
      /\ frame \in [Conns -> Frames \cup {"none"}] /\ out \in [Conns -> Seq(Frames)]
      /\ pc \in [Workers -> WorkerSteps] /\ c \in Workers /\ CommandTyped
      /\ commands[c] \in Seq(CommandKinds) /\ cmds[c] \in Seq(CommandKinds)
  BY TypedParts, WorkerFacts DEF CommandTyped, StepTyped
<1>1. CASE UNCHANGED <<cmds, frame, out>> /\ pc'[c] \notin {"writing", "none", "reading", "done"}
           /\ (pc'[c] \in {"clean", "failing", "leaving"}
               \/ pc[c] \notin {"clean", "failing", "leaving"})
  BY <1>1 DEF Settled
<1>2. CASE UNCHANGED <<cmds, frame, out>> /\ pc'[c] = pc[c]
  BY <1>2 DEF Settled
<1>3. ASSUME NEW event, NEW next, NEW refusedNext, Emit(c, event, next, refusedNext)
      PROVE  pc'[c] \in {next, refusedNext}
  BY <1>0, <1>3, EmitGoesOn
<1>4. CASE IoWoken(c)
  <2>1. UNCHANGED <<cmds, frame, out>> /\ pc'[c] \in {"failing", pc[c]}
    BY <1>0, <1>4 DEF IoWoken, connVars, Goes
  <2> QED BY <1>1, <1>2, <2>1
<1>5. CASE \E kind \in {"request", "upgrade"} : ReadRequest(c, kind)
  <2> PICK kind \in {"request", "upgrade"} : ReadRequest(c, kind)
    BY <1>5
  <2>1. UNCHANGED <<cmds, frame, out>> /\ pc[c] = "reading"
        /\ Emit(c, Event(kind), "loop", "leaving")
    BY DEF ReadRequest
  <2> QED BY <1>1, <1>3, <2>1
<1>6. CASE ReadFails(c) \/ WriteFails(c) \/ WaitWoken(c) \/ WaitReads(c) \/ WaitEnds(c)
  <2>1. UNCHANGED <<cmds, frame, out>> /\ pc[c] \in {"reading", "writing", "waiting"}
        /\ pc'[c] \in {"failing", "leaving", "loop"}
    BY <1>0, <1>6 DEF ReadFails, WriteFails, WaitWoken, WaitReads, WaitEnds, connVars, Goes
  <2> QED BY <1>1, <2>1
<1>7. CASE Clean(c) \/ Fails(c)
  <2>1. UNCHANGED <<cmds, frame, out>>
        /\ \E event : Emit(c, event, "leaving", "leaving")
    BY <1>7 DEF Clean, Fails, connVars
  <2> QED BY <1>1, <1>3, <2>1
<1>8. CASE IncomingMessage(c)
  <2>1. UNCHANGED <<cmds, frame, out>> /\ pc[c] = "incoming"
    BY <1>8 DEF IncomingMessage
  <2>2. pc'[c] = "waiting" \/ \E event : Emit(c, event, "waiting", "leaving")
    BY <1>0, <1>8 DEF IncomingMessage, Goes
  <2>3. pc'[c] \in {"waiting", "leaving"}
    BY <1>3, <2>2
  <2> QED BY <1>1, <2>1, <2>3
<1>9. CASE TakeCommands(c)
  <2>1. UNCHANGED out /\ pc[c] = "loop"
    BY <1>9 DEF TakeCommands
  <2>2. \/ pc'[c] = "leaving"
        \/ pc'[c] = NextPlace(c, commands[c], mode[c]) /\ Takes(c, commands[c])
    BY <1>0, <1>9 DEF TakeCommands, Goes
  <2>3. pc'[c] = "writing" => frame'[c] # "none"
    BY <1>0, <2>2, NextPlaceWrites, TakesOne DEF CommandKinds
  <2> QED BY <2>1, <2>2, <2>3, PlacesTyped DEF Settled
<1>10. CASE Opened(c)
  <2>1. UNCHANGED out /\ pc[c] = "opening" /\ Takes(c, cmds[c])
        /\ Emit(c, Event("open"), NextPlace(c, cmds[c], mode[c]), "leaving")
    BY <1>10 DEF Opened
  <2>2. pc'[c] = "writing" => frame'[c] # "none"
    <3>1. pc'[c] = "writing" => NextPlace(c, cmds[c], mode[c]) = "writing"
      BY <1>3, <2>1
    <3>2. cmds[c] # <<>> => frame'[c] \in CommandKinds
      BY <1>0, <2>1, TakesOne
    <3> QED BY <3>1, <3>2, NextPlaceWrites DEF CommandKinds
  <2> QED BY <1>3, <2>1, <2>2, PlacesTyped DEF Settled
<1>11. CASE IncomingControl(c)
  <2>1. UNCHANGED out /\ pc[c] = "incoming" /\ pc'[c] \in {"clean", "writing"}
        /\ frame'[c] # "none"
    BY <1>0, <1>11 DEF IncomingControl, Goes
  <2> QED BY <2>1 DEF Settled
<1>12. CASE WriteDone(c)
  <2>1. /\ pc[c] = "writing" /\ out'[c] = Append(out[c], frame[c])
        /\ pc'[c] = AfterWrite(c, mode'[c])
        /\ frame[c] \in {"write", "text", "close"} => Takes(c, cmds[c])
    BY <1>0, <1>12 DEF WriteDone, Goes
  <2>2. frame[c] \in Frames /\ out[c] \in Seq(Frames)
    BY <1>0, <2>1 DEF Settled
  <2>3. Meets(out'[c], Replies) <=> Meets(out[c], Replies) \/ frame[c] \in Replies
    BY <2>1, <2>2, MeetsAppend
  <2>4. frame[c] \in Replies
          => pc'[c] \in {"clean", "failing"}
    BY <2>1 DEF AfterWrite, Replies
  <2>5. pc'[c] \notin {"none", "reading", "done"}
    BY <2>1, PlacesTyped DEF AfterWrite
  <2>6. pc'[c] = "writing" => frame'[c] # "none"
    <3>1. pc'[c] = "writing" =>
            frame[c] \in {"write", "text", "close"} /\ NextPlace(c, cmds[c], mode'[c]) = "writing"
      BY <2>1, <2>2 DEF AfterWrite, Frames
    <3> QED BY <1>0, <2>1, <3>1, NextPlaceWrites, TakesOne DEF CommandKinds
  <2>7. \A i \in 1 .. Len(out'[c]) : out'[c][i] \in Replies => i = Len(out'[c])
    <3>1. ~Meets(out[c], Replies)
      BY <2>1 DEF Settled
    <3>2. /\ Len(out[c]) \in Nat /\ Len(out'[c]) = Len(out[c]) + 1
          /\ \A i \in 1 .. Len(out[c]) : out'[c][i] = out[c][i]
      BY <2>1, <2>2
    <3> QED BY <3>1, <3>2 DEF Meets
  <2> QED BY <2>1, <2>3, <2>4, <2>5, <2>6, <2>7 DEF Settled
<1>13. CASE ConnectionLeaves(c)
  <2>1. /\ out'[c] = <<>> /\ cmds'[c] = <<>> /\ frame'[c] = "none" /\ pc'[c] = "done"
    BY <1>0, <1>3, <1>13 DEF ConnectionLeaves
  <2> QED BY <2>1, MeetsEmpty DEF Settled
<1> QED BY <1>4, <1>5, <1>6, <1>7, <1>8, <1>9, <1>10, <1>11, <1>12, <1>13 DEF ConnectionStep

LEMMA ThreadKeptStep ==
  ASSUME TypeOK, ListenerKept, FreshKept, ThreadKept, [Next]_vars
  PROVE  ThreadKept'
<1>0. /\ pc \in [Workers -> WorkerSteps] /\ pending \subseteq Conns /\ Conns \subseteq Workers
      /\ Listener \in Workers /\ Listener \notin Conns
  BY TypedParts, WorkerFacts DEF StepTyped, ListenerTyped
<1>1. ThreadKept <=> \A c \in Conns : Settled(c)
  BY DEF ThreadKept, Settled, Replies
<1>2. ThreadKept' <=> \A c \in Conns : Settled(c)'
  BY DEF ThreadKept, Settled, Replies
<1>3. CASE UNCHANGED <<cmds, frame, out>> /\ \A c \in Conns : pc'[c] = pc[c]
  BY <1>1, <1>2, <1>3 DEF Settled
<1>4. CASE \E w \in Workers : Deliver(w)
  <2> PICK w \in Workers : Deliver(w)
    BY <1>4
  <2>1. UNCHANGED <<cmds, frame, out>>
    BY DeliveryLeaves DEF Elsewhere, connVars
  <2>2. \/ UNCHANGED pc
        \/ \E c \in pending : pc' = [pc EXCEPT ![c] = "reading"]
    BY DEF Deliver, DeliverAccept, DeliverRequest, DeliverUpgrade, DeliverOpen,
           DeliverMessage, DeliverOther, DeliverClose, DeliverListenerClose
  <2>3. \A c \in Conns : pc'[c] = pc[c] \/ (pc[c] = "none" /\ pc'[c] = "reading")
    BY <1>0, <2>2 DEF FreshKept
  <2> QED BY <1>1, <1>2, <2>1, <2>3, MeetsEmpty DEF Settled
<1>5. CASE \E c \in Conns : ConnectionStep(c)
  <2> PICK c \in Conns : ConnectionStep(c)
    BY <1>5
  <2>1. Settled(c)'
    BY <1>1, SettledStep
  <2>2. \A d \in Conns \ {c} : pc'[d] = pc[d] /\ Pipe(d)' = Pipe(d)
    BY <1>0, OneThread, OnePipe DEF ThreadStep
  <2> QED BY <1>1, <1>2, <2>1, <2>2 DEF Settled, Pipe
<1>6. CASE ListenerStep
  <2>1. \A c \in Conns : pc'[c] = pc[c]
    BY <1>0, <1>6, OneThread DEF ThreadStep
  <2> QED BY <1>3, <1>6, <2>1, ThreadsLeave DEF connVars
<1>7. CASE Listen \/ ReleaseStops \/ ReleaseEnds
  <2>1. UNCHANGED <<cmds, frame, out>> /\ \A c \in Conns : pc'[c] = pc[c]
    BY <1>0, <1>7 DEF Listen, ReleaseStops, ReleaseEnds, connVars
  <2> QED BY <1>3, <2>1
<1>8. CASE (\E c \in Conns : Peer(c)) \/ Calls \/ UNCHANGED vars
  <2>1. UNCHANGED <<cmds, frame, out, pc>>
    BY <1>8, ThreadsLeave, CallsLeave DEF connVars, Workings, vars
  <2> QED BY <1>3, <2>1
<1> QED BY <1>4, <1>5, <1>6, <1>7, <1>8, StepCases

-----------------------------------------------------------------------------
(* A websocket on its way, and what JavaScript sends. *)

\* A step that brings it to no other place, and hands its events over in order.
InboxShrinks(c) ==
  \A kind \in {"upgrade", "open"} :
    /\ Meets(Inbox(c)', Of(kind)) => Meets(Inbox(c), Of(kind))
    /\ Once(Inbox(c), Of(kind)) => Once(Inbox(c)', Of(kind))
FewerPlaces(c) ==
  /\ Asking(c)' => Asking(c)
  /\ UpgradeComes(c)' => UpgradeComes(c)
  /\ Commanded(c)' => Commanded(c)
  /\ Held(c)' => Held(c)
  /\ Written(c)' => Written(c)
  /\ Opening(c)' => Opening(c)
  /\ OpenComes(c)' => OpenComes(c)
OnceEach(c) ==
  /\ Once(Inbox(c), Of("upgrade")) /\ Once(Inbox(c), Of("open"))
  /\ Once(commands[c], {"websocket"}) /\ Once(cmds[c], {"websocket"})

LEMMA NoNewPlaces ==
  ASSUME NEW c \in Conns, OpensOnce(c), FewerPlaces(c), OnceEach(c)',
         ws'[c] = "open" => ws[c] = "open" \/ ~Ahead(c)'
  PROVE  OpensOnce(c)' /\ (Ahead(c)' => Ahead(c))
BY DEF OpensOnce, FewerPlaces, OnceEach, Ahead, Beyond

LEMMA SocketStays ==
  ASSUME NEW c \in Conns, SocketKept(c), FewerPlaces(c), OnceEach(c)',
         ws'[c] \in {"connecting", "open"} => ws'[c] = ws[c],
         hasty[c] => hasty'[c],
         ~hasty'[c] /\ TextKept(c) => TextPlaces(c)' /\ (CloseAt(c)' => CloseAt(c))
  PROVE  SocketKept(c)'
<1>1. OpensOnce(c) /\ (~hasty[c] => TextKept(c))
  BY DEF SocketKept
<1>2. OpensOnce(c)' /\ (Ahead(c)' => Ahead(c))
  BY <1>1, NoNewPlaces
<1>3. ASSUME ~hasty'[c]
      PROVE  TextKept(c)'
  <2>1. TextKept(c) /\ TextPlaces(c)' /\ (CloseAt(c)' => CloseAt(c))
    BY <1>1, <1>3
  <2> QED BY <1>2, <2>1 DEF TextKept
<1> QED BY <1>2, <1>3 DEF SocketKept

LEMMA RestShrinks ==
  ASSUME TypeOK, NEW c \in Conns,
         Inbox(c)' = Inbox(c) \/ (RestOf(Inbox(c)', Inbox(c)) /\ Inbox(c)' \in Seq(Events))
  PROVE  InboxShrinks(c)
<1>1. Inbox(c) \in Seq(Events)
  BY InboxTyped, WorkerFacts
<1>2. CASE Inbox(c)' = Inbox(c)
  BY <1>2 DEF InboxShrinks
<1>3. CASE RestOf(Inbox(c)', Inbox(c)) /\ Inbox(c)' \in Seq(Events)
  BY <1>1, <1>3, MeetsRest DEF InboxShrinks
<1> QED BY <1>2, <1>3

\* The pipe as it was.
LEMMA SamePipe ==
  ASSUME NEW c \in Conns, Pipe(c)' = Pipe(c)
  PROVE  /\ Commanded(c)' <=> Commanded(c)
         /\ Held(c)' <=> Held(c)
         /\ Written(c)' <=> Written(c)
         /\ TextPlaces(c)' <=> TextPlaces(c)
         /\ CloseAt(c)' <=> CloseAt(c)
         /\ Once(commands[c], {"websocket"}) => Once(commands[c], {"websocket"})'
         /\ Once(cmds[c], {"websocket"}) => Once(cmds[c], {"websocket"})'
<1>1. UNCHANGED <<commands[c], cmds[c], frame[c], out[c]>>
  BY DEF Pipe
<1> QED BY <1>1 DEF Commanded, Held, Written, TextPlaces, CloseAt

\* A thread and its inbox go on, and nothing else.
LEMMA SocketSame ==
  ASSUME NEW c \in Conns, SocketKept(c), Pipe(c)' = Pipe(c), InboxShrinks(c),
         Asking(c)' => Asking(c), Opening(c)' => Opening(c),
         hasty[c] => hasty'[c],
         ws'[c] \in {"connecting", "open"} => ws'[c] = ws[c]
  PROVE  SocketKept(c)'
<1>1. /\ Commanded(c)' <=> Commanded(c)
      /\ Held(c)' <=> Held(c)
      /\ Written(c)' <=> Written(c)
      /\ TextPlaces(c)' <=> TextPlaces(c)
      /\ CloseAt(c)' <=> CloseAt(c)
      /\ Once(commands[c], {"websocket"}) => Once(commands[c], {"websocket"})'
      /\ Once(cmds[c], {"websocket"}) => Once(cmds[c], {"websocket"})'
  BY SamePipe
<1>2. FewerPlaces(c)
  BY <1>1 DEF FewerPlaces, InboxShrinks, UpgradeComes, OpenComes, Of
<1>3. OnceEach(c)'
  BY <1>1 DEF OnceEach, InboxShrinks, SocketKept, OpensOnce, Of
<1>4. TextKept(c) => TextPlaces(c)
  BY DEF TextKept
<1> QED BY <1>1, <1>2, <1>3, <1>4, SocketStays

LEMMA SendPipe ==
  ASSUME TypeOK, NEW c \in Conns, NEW kind \in CommandKinds, Send(c, kind),
         UNCHANGED <<cmds, frame, out>>
  PROVE  /\ Commanded(c)' <=> Commanded(c) \/ kind = "websocket"
         /\ Held(c)' <=> Held(c)
         /\ Written(c)' <=> Written(c)
         /\ CloseAt(c)' <=> CloseAt(c) \/ kind = "close"
         /\ TextPlaces(c) /\ (kind = "text" => ~CloseAt(c)) => TextPlaces(c)'
         /\ Once(commands[c], {"websocket"}) /\ ~(Commanded(c) /\ kind = "websocket")
              => Once(commands[c], {"websocket"})'
         /\ Once(cmds[c], {"websocket"}) => Once(cmds[c], {"websocket"})'
         /\ \A d \in Conns \ {c} : Pipe(d)' = Pipe(d)
<1>1. /\ commands \in [Conns -> Seq(CommandKinds)]
      /\ commands' = [commands EXCEPT ![c] = Append(commands[c], kind)]
      /\ commands[c] \in Seq(CommandKinds)
  BY TypedParts DEF CommandTyped, Send
<1>2. commands'[c] = Append(commands[c], kind)
  BY <1>1
<1>3. \A K : /\ Meets(commands'[c], K) <=> Meets(commands[c], K) \/ kind \in K
             /\ Once(commands[c], K) /\ ~(Meets(commands[c], K) /\ kind \in K)
                  => Once(commands'[c], K)
  BY <1>1, <1>2, MeetsAppend
<1>4. /\ Held(c)' <=> Held(c)
      /\ Written(c)' <=> Written(c)
      /\ Once(cmds[c], {"websocket"}) => Once(cmds[c], {"websocket"})'
  BY DEF Held, Written
<1>5. Commanded(c)' <=> Commanded(c) \/ kind = "websocket"
  BY <1>3 DEF Commanded
<1>6. CloseAt(c)' <=> CloseAt(c) \/ kind = "close"
  BY <1>3 DEF CloseAt
<1>7. Once(commands[c], {"websocket"}) /\ ~(Commanded(c) /\ kind = "websocket")
         => Once(commands[c], {"websocket"})'
  BY <1>3 DEF Commanded
<1>8. ASSUME TextPlaces(c), kind = "text" => ~CloseAt(c)
      PROVE  TextPlaces(c)'
  <2>1. kind = "text" => ~Meets(commands[c], {"close"})
    BY <1>8 DEF CloseAt
  <2>2. TextFirst(commands[c])
    BY <1>8 DEF TextPlaces
  <2>3. TextFirst(commands'[c])
    BY <1>1, <1>2, <2>1, <2>2, TextFirstAppend
  <2>4. Meets(commands'[c], {"text"}) <=> Meets(commands[c], {"text"}) \/ kind = "text"
    BY <1>3
  <2> QED BY <1>8, <2>3, <2>4 DEF TextPlaces, CloseAt
<1>9. \A d \in Conns \ {c} : Pipe(d)' = Pipe(d)
  BY <1>1 DEF Pipe
<1> QED BY <1>4, <1>5, <1>6, <1>7, <1>8, <1>9

\* What JavaScript asks of the connection c while it goes on.
Says(c) ==
  \/ UNCHANGED <<commands, hasty>> /\ ws'[c] \in {ws[c], "none", "closed"}
     /\ \A d \in Conns \ {c} : ws'[d] = ws[d]
  \/ \E kind \in {"write", "end"} : Send(c, kind) /\ UNCHANGED <<ws, hasty>>
  \/ WsSend(c) /\ UNCHANGED <<ws, hasty>>
  \/ WsClose(c)

LEMMA SaysKept ==
  ASSUME TypeOK, NEW c \in Conns, SocketKept(c), Says(c), InboxShrinks(c),
         UNCHANGED <<cmds, frame, out, pc>>
  PROVE  SocketKept(c)'
<1>0. /\ Asking(c)' <=> Asking(c)
      /\ Opening(c)' <=> Opening(c)
      /\ UpgradeComes(c)' => UpgradeComes(c)
      /\ OpenComes(c)' => OpenComes(c)
      /\ SocketKept(c) => Once(Inbox(c), Of("upgrade"))' /\ Once(Inbox(c), Of("open"))'
  BY DEF Asking, Opening, UpgradeComes, OpenComes, InboxShrinks, SocketKept, OpensOnce, Of
<1>1. OpensOnce(c) /\ (~hasty[c] => TextKept(c)) /\ (TextKept(c) => TextPlaces(c))
  BY DEF SocketKept, TextKept
<1>2. ASSUME NEW kind \in CommandKinds, Send(c, kind), kind # "websocket"
      PROVE  FewerPlaces(c) /\ OnceEach(c)'
  <2>1. /\ Commanded(c)' <=> Commanded(c)
        /\ Held(c)' <=> Held(c)
        /\ Written(c)' <=> Written(c)
        /\ Once(commands[c], {"websocket"}) => Once(commands[c], {"websocket"})'
        /\ Once(cmds[c], {"websocket"}) => Once(cmds[c], {"websocket"})'
    BY <1>2, SendPipe
  <2>2. FewerPlaces(c)
    BY <1>0, <2>1 DEF FewerPlaces
  <2>3. OnceEach(c)'
    BY <1>0, <1>1, <2>1 DEF OnceEach, OpensOnce
  <2> QED BY <2>2, <2>3
<1>3. CASE UNCHANGED <<commands, hasty>> /\ ws'[c] \in {ws[c], "none", "closed"}
  <2>1. Pipe(c)' = Pipe(c)
    BY <1>3 DEF Pipe
  <2> QED BY <1>0, <1>3, <2>1, SocketSame
<1>4. CASE \E kind \in {"write", "end"} : Send(c, kind) /\ UNCHANGED <<ws, hasty>>
  <2> PICK kind \in {"write", "end"} : Send(c, kind) /\ UNCHANGED <<ws, hasty>>
    BY <1>4
  <2>1. kind \in CommandKinds /\ kind \notin {"websocket", "text", "close"}
    BY DEF CommandKinds
  <2>2. FewerPlaces(c) /\ OnceEach(c)'
    BY <1>2, <2>1
  <2>3. (CloseAt(c)' <=> CloseAt(c)) /\ (TextPlaces(c) => TextPlaces(c)')
    BY <2>1, SendPipe
  <2> QED BY <1>1, <2>2, <2>3, SocketStays
<1>5. CASE WsSend(c) /\ UNCHANGED <<ws, hasty>>
  <2>1. Send(c, "text") /\ "text" \in CommandKinds /\ ws[c] \in {"connecting", "open"}
    BY <1>5 DEF WsSend, CommandKinds
  <2>2. FewerPlaces(c) /\ OnceEach(c)'
    BY <1>2, <2>1
  <2>3. (CloseAt(c)' <=> CloseAt(c)) /\ (TextPlaces(c) /\ ~CloseAt(c) => TextPlaces(c)')
    BY <2>1, SendPipe
  <2>4. TextKept(c) => ~CloseAt(c)
    BY <2>1 DEF TextKept
  <2> QED BY <1>1, <1>5, <2>2, <2>3, <2>4, SocketStays
<1>6. CASE WsClose(c)
  <2>0. ws \in [Conns -> {"none", "connecting", "open", "closing", "closed"}]
        /\ hasty \in [Conns -> BOOLEAN]
    BY TypedParts DEF JsTyped
  <2>1. /\ ws[c] \in {"connecting", "open"} /\ ws' = [ws EXCEPT ![c] = "closing"]
        /\ hasty' = [hasty EXCEPT ![c] = @ \/ ws[c] = "connecting"]
        /\ Send(c, "close") \/ UNCHANGED commands
    BY <1>6 DEF WsClose
  <2>2. ws'[c] = "closing" /\ (~hasty'[c] => ~hasty[c] /\ ws[c] = "open")
    BY <2>0, <2>1
  <2>3. FewerPlaces(c) /\ OnceEach(c)' /\ (TextPlaces(c) => TextPlaces(c)')
    <3>1. CASE Send(c, "close")
      <4>1. "close" \in CommandKinds
        BY DEF CommandKinds
      <4>2. FewerPlaces(c) /\ OnceEach(c)'
        BY <1>2, <3>1, <4>1
      <4>3. TextPlaces(c) => TextPlaces(c)'
        BY <3>1, <4>1, SendPipe
      <4> QED BY <4>2, <4>3
    <3>2. CASE UNCHANGED commands
      <4>1. Pipe(c)' = Pipe(c)
        BY <3>2 DEF Pipe
      <4>2. /\ Commanded(c)' <=> Commanded(c)
            /\ Held(c)' <=> Held(c)
            /\ Written(c)' <=> Written(c)
            /\ TextPlaces(c)' <=> TextPlaces(c)
            /\ Once(commands[c], {"websocket"}) => Once(commands[c], {"websocket"})'
            /\ Once(cmds[c], {"websocket"}) => Once(cmds[c], {"websocket"})'
        BY <4>1, SamePipe
      <4>3. FewerPlaces(c)
        BY <1>0, <4>2 DEF FewerPlaces
      <4>4. OnceEach(c)'
        BY <1>0, <1>1, <4>2 DEF OnceEach, OpensOnce
      <4> QED BY <4>2, <4>3, <4>4
    <3> QED BY <2>1, <3>1, <3>2
  <2>4. OpensOnce(c)' /\ (Ahead(c)' => Ahead(c))
    BY <1>1, <2>2, <2>3, NoNewPlaces
  <2>5. ASSUME ~hasty'[c]
        PROVE  TextKept(c)'
    <3>1. ~Ahead(c) /\ TextPlaces(c)
      BY <1>1, <2>2, <2>5 DEF OpensOnce
    <3> QED BY <2>2, <2>3, <2>4, <3>1 DEF TextKept
  <2> QED BY <2>4, <2>5 DEF SocketKept
<1> QED BY <1>3, <1>4, <1>5, <1>6 DEF Says

\* socket.acceptWebSocket in the listener of the upgrade.
LEMMA AcceptKept ==
  ASSUME TypeOK, NEW c \in Conns, SocketKept(c), InboxShrinks(c), UpgradeComes(c),
         ~UpgradeComes(c)', ws'[c] = "connecting",
         Send(c, "websocket") \/ UNCHANGED commands,
         UNCHANGED <<cmds, frame, out, pc, hasty>>
  PROVE  SocketKept(c)'
<1>0. /\ Asking(c)' <=> Asking(c)
      /\ Opening(c)' <=> Opening(c)
      /\ OpenComes(c)' => OpenComes(c)
      /\ SocketKept(c) => Once(Inbox(c), Of("upgrade"))' /\ Once(Inbox(c), Of("open"))'
  BY DEF Asking, Opening, OpenComes, InboxShrinks, SocketKept, OpensOnce, Of
<1>1. /\ OpensOnce(c) /\ (~hasty[c] => TextKept(c)) /\ (TextKept(c) => TextPlaces(c))
      /\ TextKept(c) => ~CloseAt(c)
  BY DEF SocketKept, TextKept, Ahead
<1>2. ~Beyond(c) /\ ~Asking(c)
  BY <1>1 DEF OpensOnce
<1>3. /\ Held(c)' <=> Held(c)
      /\ Written(c)' <=> Written(c)
      /\ CloseAt(c)' <=> CloseAt(c)
      /\ TextPlaces(c) => TextPlaces(c)'
      /\ Once(commands[c], {"websocket"}) /\ ~Commanded(c) => Once(commands[c], {"websocket"})'
      /\ Once(cmds[c], {"websocket"}) => Once(cmds[c], {"websocket"})'
  <2>1. CASE Send(c, "websocket")
    <3>1. "websocket" \in CommandKinds
      BY DEF CommandKinds
    <3> QED BY <2>1, <3>1, SendPipe
  <2>2. CASE UNCHANGED commands
    <3>1. Pipe(c)' = Pipe(c)
      BY <2>2 DEF Pipe
    <3> QED BY <3>1, SamePipe
  <2> QED BY <2>1, <2>2
<1>4. OpensOnce(c)'
  BY <1>0, <1>1, <1>2, <1>3 DEF OpensOnce, Ahead, Beyond
<1>5. ~hasty'[c] => TextKept(c)'
  BY <1>1, <1>3 DEF TextKept
<1> QED BY <1>4, <1>5 DEF SocketKept

\* readyState becomes 1.
LEMMA OpenKept ==
  ASSUME TypeOK, NEW c \in Conns, SocketKept(c), InboxShrinks(c), OpenComes(c),
         ~OpenComes(c)', UNCHANGED <<commands, cmds, frame, out, pc, hasty>>
  PROVE  SocketKept(c)'
<1>1. /\ OpensOnce(c) /\ (~hasty[c] => TextKept(c)) /\ (TextKept(c) => TextPlaces(c))
      /\ TextKept(c) => ~CloseAt(c)
  BY DEF SocketKept, TextKept, Ahead, Beyond
<1>2. Pipe(c)' = Pipe(c)
  BY DEF Pipe
<1>3. /\ Commanded(c)' <=> Commanded(c)
      /\ Held(c)' <=> Held(c)
      /\ Written(c)' <=> Written(c)
      /\ TextPlaces(c)' <=> TextPlaces(c)
      /\ CloseAt(c)' <=> CloseAt(c)
      /\ Once(commands[c], {"websocket"}) => Once(commands[c], {"websocket"})'
      /\ Once(cmds[c], {"websocket"}) => Once(cmds[c], {"websocket"})'
  BY <1>2, SamePipe
<1>4. /\ Asking(c)' <=> Asking(c)
      /\ Opening(c)' <=> Opening(c)
      /\ UpgradeComes(c)' => UpgradeComes(c)
      /\ Once(Inbox(c), Of("upgrade"))' /\ Once(Inbox(c), Of("open"))'
  BY <1>1 DEF Asking, Opening, UpgradeComes, InboxShrinks, OpensOnce, Of
<1>5. ~Asking(c) /\ ~UpgradeComes(c) /\ ~Commanded(c) /\ ~Held(c) /\ ~Written(c) /\ ~Opening(c)
  BY <1>1 DEF OpensOnce, Beyond
<1>6. ~Ahead(c)'
  BY <1>3, <1>4, <1>5 DEF Ahead, Beyond
<1>7. OpensOnce(c)'
  BY <1>1, <1>3, <1>4, <1>5, <1>6 DEF OpensOnce, Beyond
<1>8. ~hasty'[c] => TextKept(c)'
  BY <1>1, <1>3 DEF TextKept
<1> QED BY <1>7, <1>8 DEF SocketKept

LEMMA SaysAlone ==
  ASSUME TypeOK, NEW c \in Conns, Says(c), UNCHANGED <<cmds, frame, out>>
  PROVE  \A d \in Conns \ {c} : Pipe(d)' = Pipe(d) /\ ws'[d] = ws[d] /\ hasty'[d] = hasty[d]
<1>0. ws \in [Conns -> {"none", "connecting", "open", "closing", "closed"}]
      /\ hasty \in [Conns -> BOOLEAN]
  BY TypedParts DEF JsTyped
<1>1. \A d \in Conns \ {c} : ws'[d] = ws[d] /\ hasty'[d] = hasty[d]
  BY <1>0 DEF Says, WsClose
<1>2. UNCHANGED commands \/ \E kind \in CommandKinds : Send(c, kind)
  BY DEF Says, WsSend, WsClose, CommandKinds
<1>3. CASE UNCHANGED commands
  BY <1>1, <1>3 DEF Pipe
<1>4. CASE \E kind \in CommandKinds : Send(c, kind)
  BY <1>1, <1>4, SendPipe
<1> QED BY <1>2, <1>3, <1>4

LEMMA TakenOnce ==
  ASSUME TypeOK, NEW c \in Conns, NEW kind, Delivering(c, kind), Returns(c) \/ Escapes(c)
  PROVE  /\ InboxShrinks(c)
         /\ Meets(Inbox(c), Of(kind))
         /\ Once(Inbox(c), Of(kind)) => ~Meets(Inbox(c)', Of(kind))
<1>1. /\ Inbox(c) \in Seq(Events) /\ Inbox(c) # <<>> /\ c \in Workers
      /\ Head(Inbox(c)) \in Events /\ Head(Inbox(c)).kind = kind
      /\ RestOf(Inbox(c)', Inbox(c)) /\ Inbox(c)' \in Seq(Events)
  BY InboxTyped, DeliveryInbox, WorkerFacts
<1>2. Inbox(c)[1] = Head(Inbox(c)) /\ 1 \in 1 .. Len(Inbox(c))
  BY <1>1, TailParts
<1>3. Inbox(c)[1] \in Of(kind)
  BY <1>1, <1>2 DEF Of
<1>4. Meets(Inbox(c), Of(kind))
  BY <1>2, <1>3 DEF Meets
<1>5. Once(Inbox(c), Of(kind)) => ~Meets(Inbox(c)', Of(kind))
  BY <1>1, <1>3, MeetsRest
<1> QED BY <1>1, <1>4, <1>5, RestShrinks

LEMMA DeliverySockets ==
  ASSUME TypeOK, FreshKept, ListenerKept, SocketsKept, NEW w \in Workers, Deliver(w)
  PROVE  SocketsKept'
<1>0. /\ ws \in [Conns -> {"none", "connecting", "open", "closing", "closed"}]
      /\ hasty \in [Conns -> BOOLEAN] /\ pc \in [Workers -> WorkerSteps]
      /\ pending \subseteq Conns /\ Conns \subseteq Workers /\ Listener \notin Conns
      /\ UNCHANGED <<cmds, frame, out>>
      /\ \A v \in Workers \ {w} : Inbox(v)' = Inbox(v)
      /\ Returns(w) \/ Escapes(w)
  BY TypedParts, WorkerFacts, DeliveryLeaves, DeliveryInbox
     DEF JsTyped, StepTyped, ListenerTyped, Elsewhere, connVars
<1>1. \A c \in Conns \ {w} : InboxShrinks(c)
  BY <1>0, RestShrinks
<1>2. CASE w = Listener
  <2>1. UNCHANGED <<ws, hasty, commands>>
        /\ (UNCHANGED pc \/ \E c \in pending : pc' = [pc EXCEPT ![c] = "reading"])
    BY <1>2, DeliverCases, WorkerFacts
       DEF DeliverAccept, DeliverListenerClose, DeliverRequest, DeliverUpgrade, DeliverOpen,
           DeliverMessage, DeliverOther, DeliverClose
  <2>2. ASSUME NEW c \in Conns
        PROVE  SocketKept(c)'
    <3>1. pc'[c] = pc[c] \/ (pc[c] = "none" /\ pc'[c] = "reading")
      BY <1>0, <2>1 DEF FreshKept
    <3>2. (Asking(c)' => Asking(c)) /\ (Opening(c)' => Opening(c))
      BY <3>1 DEF Asking, Opening
    <3>3. Pipe(c)' = Pipe(c) /\ hasty'[c] = hasty[c] /\ ws'[c] = ws[c] /\ InboxShrinks(c)
      <4>1. c \in Conns \ {w}
        BY <1>0, <1>2
      <4>2. InboxShrinks(c)
        BY <1>1, <4>1
      <4>3. Pipe(c)' = Pipe(c) /\ hasty'[c] = hasty[c] /\ ws'[c] = ws[c]
        BY <1>0, <2>1 DEF Pipe
      <4> QED BY <4>2, <4>3
    <3>4. SocketKept(c)
      BY DEF SocketsKept
    <3> QED BY <3>2, <3>3, <3>4, SocketSame
  <2> QED BY <2>2 DEF SocketsKept
<1>3. CASE w \in Conns
  <2>1. ASSUME NEW c \in Conns \ {w}, Pipe(c)' = Pipe(c), ws'[c] = ws[c], hasty'[c] = hasty[c],
               UNCHANGED pc
        PROVE  SocketKept(c)'
    <3>1. SocketKept(c)
      BY DEF SocketsKept
    <3>2. (Asking(c)' => Asking(c)) /\ (Opening(c)' => Opening(c))
      BY <2>1 DEF Asking, Opening
    <3> QED BY <1>1, <2>1, <3>1, <3>2, SocketSame
  <2>2. SocketKept(w) /\ OpensOnce(w)
    BY <1>3 DEF SocketsKept, SocketKept
  <2>3. InboxShrinks(w)
    BY <1>0, <1>3, DeliveryLeaves, TakenOnce
  <2>4. CASE Says(w) /\ UNCHANGED pc
    <3>1. SocketKept(w)'
      BY <1>0, <1>3, <2>2, <2>3, <2>4, SaysKept
    <3>2. \A c \in Conns \ {w} : Pipe(c)' = Pipe(c) /\ ws'[c] = ws[c] /\ hasty'[c] = hasty[c]
      BY <1>0, <1>3, <2>4, SaysAlone
    <3> QED BY <2>1, <2>4, <3>1, <3>2 DEF SocketsKept
  <2>5. CASE DeliverRequest(w)
    <3>1. UNCHANGED <<ws, hasty, pc>> /\ (Send(w, "end") \/ UNCHANGED commands)
      BY <2>5 DEF DeliverRequest
    <3>2. Says(w)
      BY <1>0, <3>1 DEF Says
    <3> QED BY <2>4, <3>1, <3>2
  <2>6. CASE DeliverOther(w)
    <3>1. UNCHANGED <<ws, hasty, pc, commands>>
      BY <2>6 DEF DeliverOther
    <3>2. Says(w)
      BY <1>0, <3>1 DEF Says
    <3> QED BY <2>4, <3>1, <3>2
  <2>7. CASE DeliverClose(w)
    <3>1. UNCHANGED <<hasty, pc, commands>>
          /\ ws' = [ws EXCEPT ![w] = IF @ = "none" THEN @ ELSE "closed"]
      BY <2>7 DEF DeliverClose
    <3>2. Says(w)
      BY <1>0, <1>3, <3>1 DEF Says
    <3> QED BY <2>4, <3>1, <3>2
  <2>8. CASE DeliverMessage(w)
    <3>1. UNCHANGED pc
          /\ \/ WsSend(w) /\ UNCHANGED <<ws, hasty, destroyed, cancelRequested>>
             \/ WsClose(w)
             \/ UNCHANGED <<commands, wake, ws, hasty, destroyed, cancelRequested>>
      BY <2>8 DEF DeliverMessage
    <3>2. Says(w)
      BY <1>0, <3>1 DEF Says
    <3> QED BY <2>4, <3>1, <3>2
  <2>9. CASE DeliverUpgrade(w)
    <3>1. Delivering(w, "upgrade") /\ UNCHANGED <<hasty, pc>>
      BY <2>9 DEF DeliverUpgrade
    <3>2. CASE UNCHANGED <<ws, commands>>
      <4>1. Says(w)
        BY <1>0, <3>1, <3>2 DEF Says
      <4> QED BY <2>4, <3>1, <4>1
    <3>3. CASE AcceptWebSocket(w)
      <4>1. ws' = [ws EXCEPT ![w] = "connecting"]
            /\ (Send(w, "websocket") \/ UNCHANGED commands)
        BY <3>3 DEF AcceptWebSocket
      <4>2. UpgradeComes(w) /\ ~UpgradeComes(w)'
        <5>1. /\ Meets(Inbox(w), Of("upgrade"))
              /\ Once(Inbox(w), Of("upgrade")) => ~Meets(Inbox(w)', Of("upgrade"))
          BY <1>0, <1>3, <3>1, TakenOnce
        <5> QED BY <2>2, <5>1 DEF UpgradeComes, OpensOnce, Of
      <4>3. ws'[w] = "connecting"
        BY <1>0, <1>3, <4>1
      <4>4. SocketKept(w)'
        BY <1>0, <1>3, <2>2, <2>3, <3>1, <4>1, <4>2, <4>3, AcceptKept
      <4>5. \A c \in Conns \ {w} : Pipe(c)' = Pipe(c)
        <5>1. CASE Send(w, "websocket")
          BY <1>0, <1>3, <5>1, SendPipe DEF CommandKinds
        <5>2. CASE UNCHANGED commands
          BY <1>0, <5>2 DEF Pipe
        <5> QED BY <4>1, <5>1, <5>2
      <4>6. \A c \in Conns \ {w} : ws'[c] = ws[c] /\ hasty'[c] = hasty[c]
        BY <1>0, <3>1, <4>1
      <4> QED BY <2>1, <3>1, <4>4, <4>5, <4>6 DEF SocketsKept
    <3> QED BY <2>9, <3>2, <3>3 DEF DeliverUpgrade
  <2>10. CASE DeliverOpen(w)
    <3>1. Delivering(w, "open") /\ UNCHANGED <<hasty, pc, commands>>
          /\ ws' = [ws EXCEPT ![w] = "open"]
      BY <2>10 DEF DeliverOpen
    <3>2. OpenComes(w) /\ ~OpenComes(w)'
      <4>1. /\ Meets(Inbox(w), Of("open"))
            /\ Once(Inbox(w), Of("open")) => ~Meets(Inbox(w)', Of("open"))
        BY <1>0, <1>3, <3>1, TakenOnce
      <4> QED BY <2>2, <4>1 DEF OpenComes, OpensOnce, Of
    <3>3. SocketKept(w)'
      BY <1>0, <1>3, <2>2, <2>3, <3>1, <3>2, OpenKept
    <3>4. \A c \in Conns \ {w} : Pipe(c)' = Pipe(c) /\ ws'[c] = ws[c] /\ hasty'[c] = hasty[c]
      BY <1>0, <3>1 DEF Pipe
    <3> QED BY <2>1, <3>1, <3>3, <3>4 DEF SocketsKept
  <2> QED BY <1>0, <1>3, <2>5, <2>6, <2>7, <2>8, <2>9, <2>10, DeliverCases
<1> QED BY <1>2, <1>3 DEF Workers

LEMMA CallsSockets ==
  ASSUME TypeOK, SocketsKept, Calls
  PROVE  SocketsKept'
<1>0. /\ sockets \subseteq Conns
      /\ UNCHANGED <<cmds, frame, out, pc, events, target, batch>>
  BY TypedParts, CallsLeave DEF JsTyped, Workings, connVars, ownerVars
<1>1. \A c \in Conns : InboxShrinks(c)
  <2>1. \A c \in Conns : Inbox(c)' = Inbox(c)
    BY <1>0 DEF Inbox
  <2> QED BY <2>1, RestShrinks
<1>2. ASSUME NEW c \in Conns, Pipe(c)' = Pipe(c), ws'[c] = ws[c], hasty'[c] = hasty[c]
      PROVE  SocketKept(c)'
  <2>1. SocketKept(c)
    BY DEF SocketsKept
  <2>2. (Asking(c)' => Asking(c)) /\ (Opening(c)' => Opening(c))
    BY <1>0 DEF Asking, Opening
  <2> QED BY <1>1, <1>2, <2>1, <2>2, SocketSame
<1>3. ASSUME NEW c \in Conns, Says(c)
      PROVE  SocketsKept'
  <2>1. SocketKept(c)'
    BY <1>0, <1>1, <1>3, SaysKept DEF SocketsKept
  <2>2. \A d \in Conns \ {c} : Pipe(d)' = Pipe(d) /\ ws'[d] = ws[d] /\ hasty'[d] = hasty[d]
    BY <1>0, <1>3, SaysAlone
  <2> QED BY <1>2, <2>1, <2>2 DEF SocketsKept
<1>4. CASE UNCHANGED <<ws, hasty, commands>>
  BY <1>0, <1>2, <1>4 DEF SocketsKept, Pipe
<1>5. CASE \E cs \in {{}, sockets} : Close(cs)
  BY <1>4, <1>5 DEF Close
<1>6. CASE \E c \in sockets : Destroy(c)
  BY <1>4, <1>6 DEF Destroy
<1>7. CASE \E c \in sockets : Respond(c)
  <2> PICK c \in sockets : Respond(c)
    BY <1>7
  <2>1. Send(c, "end") /\ UNCHANGED <<ws, hasty>>
    BY DEF Respond
  <2> QED BY <1>0, <1>3, <2>1 DEF Says
<1>8. CASE \E c \in sockets : \E kind \in {"write", "end"} : SocketSend(c, kind)
  <2> PICK c \in sockets, kind \in {"write", "end"} : SocketSend(c, kind)
    BY <1>8
  <2>1. Send(c, kind) /\ UNCHANGED <<ws, hasty>>
    BY DEF SocketSend, jsVars
  <2> QED BY <1>0, <1>3, <2>1 DEF Says
<1>9. CASE \E c \in sockets : WebSocketCall(c)
  <2> PICK c \in sockets : WebSocketCall(c)
    BY <1>9
  <2>1. (WsSend(c) /\ UNCHANGED <<ws, hasty>>) \/ WsClose(c)
    BY DEF WebSocketCall
  <2> QED BY <1>0, <1>3, <2>1 DEF Says
<1> QED BY <1>5, <1>6, <1>7, <1>8, <1>9 DEF Calls

\* A released connection starts from nothing.
LEMMA ReleaseSockets ==
  ASSUME TypeOK, OwnerKept, ThreadKept, SocketsKept, ReleaseEnds
  PROVE  SocketsKept'
<1>0. /\ ws \in [Conns -> {"none", "connecting", "open", "closing", "closed"}]
      /\ hasty \in [Conns -> BOOLEAN] /\ target \in Workers /\ Nobody \notin Workers
      /\ Conns \subseteq Workers /\ events \in [Workers -> Seq(Events)]
  BY TypedParts, WorkerFacts DEF JsTyped, ReleaseEnds, OwnerKept, OwnerTyped
<1>1. /\ UNCHANGED <<cmds, frame, out, pc>> /\ pc[target] = "done" /\ target' = Nobody
      /\ events' = [events EXCEPT ![target] = <<>>]
      /\ commands' = [c \in Conns |-> IF c = target THEN <<>> ELSE commands[c]]
  BY DEF ReleaseEnds, connVars
<1>2. ASSUME NEW c \in Conns \ {target}
      PROVE  SocketKept(c)'
  <2>1. Inbox(c)' = Inbox(c)
    BY <1>0, <1>1 DEF Inbox
  <2>2. InboxShrinks(c)
    BY <2>1, RestShrinks
  <2>3. Pipe(c)' = Pipe(c)
    BY <1>1 DEF Pipe
  <2>4. ws'[c] = ws[c] /\ hasty'[c] = hasty[c]
    BY <1>0 DEF ReleaseEnds
  <2>5. (Asking(c)' => Asking(c)) /\ (Opening(c)' => Opening(c))
    BY <1>1 DEF Asking, Opening
  <2> QED BY <2>2, <2>3, <2>4, <2>5, SocketSame DEF SocketsKept
<1>3. ASSUME NEW c \in Conns, c = target
      PROVE  SocketKept(c)'
  <2>1. /\ out'[c] = <<>> /\ cmds'[c] = <<>> /\ frame'[c] = "none" /\ pc'[c] = "done"
        /\ commands'[c] = <<>> /\ Inbox(c)' = <<>>
    BY <1>0, <1>1, <1>3 DEF ThreadKept, Inbox
  <2>2. ~Asking(c)' /\ ~Opening(c)' /\ ~Written(c)'
    BY <2>1 DEF Asking, Opening, Written
  <2>3. ~Commanded(c)' /\ ~Held(c)' /\ ~UpgradeComes(c)' /\ ~OpenComes(c)'
    BY <2>1, MeetsEmpty DEF Commanded, Held, UpgradeComes, OpenComes
  <2>4. OnceEach(c)'
    BY <2>1, MeetsEmpty DEF OnceEach
  <2>5. OpensOnce(c)'
    BY <2>2, <2>3, <2>4 DEF OpensOnce, OnceEach, Ahead, Beyond
  <2>6. TextPlaces(c)' /\ ~CloseAt(c)'
    BY <2>1, MeetsEmpty, TextFirstEmpty DEF TextPlaces, CloseAt
  <2> QED BY <2>5, <2>6 DEF SocketKept, TextKept
<1> QED BY <1>2, <1>3 DEF SocketsKept

-----------------------------------------------------------------------------
(* A websocket on its way through the connection's thread. *)

LEMMA ReportMeets ==
  ASSUME TypeOK, NEW c \in Conns, NEW event \in Events, NEW next, NEW refusedNext,
         Emit(c, event, next, refusedNext), UNCHANGED <<batch, target>>,
         NEW kind \in {"upgrade", "open"}
  PROVE  /\ Meets(Inbox(c)', Of(kind)) => Meets(Inbox(c), Of(kind)) \/ event.kind = kind
         /\ Once(Inbox(c), Of(kind)) /\ ~(Meets(Inbox(c), Of(kind)) /\ event.kind = kind)
              => Once(Inbox(c)', Of(kind))
<1>1. /\ Inbox(c) \in Seq(Events) /\ c \in Workers
      /\ Event("error") \in Events /\ Event("close") \in Events
      /\ Event("error").kind = "error" /\ Event("close").kind = "close"
  BY InboxTyped, EventTypes, WorkerFacts DEF Kinds
<1>2. /\ event \in Of(kind) <=> event.kind = kind
      /\ Event("error") \notin Of(kind) /\ Event("close") \notin Of(kind)
  BY <1>1 DEF Of
<1>3. \/ Inbox(c)' = Inbox(c) \/ Inbox(c)' = Inbox(c) \o <<event>>
      \/ Inbox(c)' = Inbox(c) \o <<Event("error"), Event("close")>>
  BY <1>1, ReportInbox
<1>4. CASE Inbox(c)' = Inbox(c)
  BY <1>4
<1>5. CASE Inbox(c)' = Inbox(c) \o <<event>>
  BY <1>1, <1>2, <1>5, MeetsOne
<1>6. CASE Inbox(c)' = Inbox(c) \o <<Event("error"), Event("close")>>
  BY <1>1, <1>2, <1>6, MeetsTwo
<1> QED BY <1>3, <1>4, <1>5, <1>6

LEMMA TakenPlaces ==
  ASSUME CommandTyped, NEW c \in Conns, NEW s \in Seq(CommandKinds), Takes(c, s)
  PROVE  /\ Held(c)' \/ Written(c)' => Meets(s, {"websocket"})
         /\ Once(s, {"websocket"}) =>
              ~(Held(c)' /\ Written(c)') /\ Once(cmds[c], {"websocket"})'
         /\ frame'[c] = "text" \/ Meets(cmds'[c], {"text"}) => Meets(s, {"text"})
         /\ frame'[c] = "close" \/ Meets(cmds'[c], {"close"}) => Meets(s, {"close"})
         /\ TextFirst(s) =>
              TextFirst(cmds'[c]) /\ (frame'[c] = "close" => ~Meets(cmds'[c], {"text"}))
<1>1. CASE s = <<>> /\ cmds'[c] = <<>> /\ frame'[c] = "none"
  BY <1>1, MeetsEmpty, TextFirstEmpty DEF Held, Written
<1>2. CASE s # <<>> /\ cmds'[c] = Tail(s) /\ frame'[c] = Head(s)
  <2>1. \A K : /\ Meets(Tail(s), K) \/ Head(s) \in K => Meets(s, K)
               /\ Once(s, K) => Once(Tail(s), K)
               /\ Once(s, K) /\ Head(s) \in K => ~Meets(Tail(s), K)
    BY <1>2, MeetsTail
  <2>2. TextFirst(s) => TextFirst(Tail(s)) /\ (Head(s) = "close" => ~Meets(Tail(s), {"text"}))
    BY <1>2, TextFirstTail
  <2>3. /\ Held(c)' <=> Meets(Tail(s), {"websocket"})
        /\ Written(c)' <=> Head(s) = "websocket"
    BY <1>2 DEF Held, Written
  <2>4. /\ Held(c)' \/ Written(c)' => Meets(s, {"websocket"})
        /\ Once(s, {"websocket"}) =>
             ~(Held(c)' /\ Written(c)') /\ Once(cmds[c], {"websocket"})'
    BY <1>2, <2>1, <2>3
  <2>5. /\ Head(s) = "text" \/ Meets(Tail(s), {"text"}) => Meets(s, {"text"})
        /\ Head(s) = "close" \/ Meets(Tail(s), {"close"}) => Meets(s, {"close"})
    BY <2>1
  <2> QED BY <1>2, <2>2, <2>4, <2>5
<1> QED BY <1>1, <1>2, TakesOne

LEMMA TakeCommandsKept ==
  ASSUME TypeOK, NEW c \in Conns, SocketKept(c), TakeCommands(c), InboxShrinks(c),
         UNCHANGED <<ws, hasty>>
  PROVE  SocketKept(c)'
<1>0. /\ commands \in [Conns -> Seq(CommandKinds)] /\ commands[c] \in Seq(CommandKinds)
      /\ CommandTyped /\ pc \in [Workers -> WorkerSteps] /\ c \in Workers
  BY TypedParts, WorkerFacts DEF CommandTyped, StepTyped
<1>1. /\ OpensOnce(c) /\ (~hasty[c] => TextKept(c)) /\ (TextKept(c) => TextPlaces(c))
      /\ OnceEach(c)
  BY DEF SocketKept, TextKept, OpensOnce, OnceEach
<1>2. /\ commands'[c] = <<>> /\ UNCHANGED out /\ pc[c] = "loop"
  BY <1>0 DEF TakeCommands
<1>3. pc'[c] \in {"leaving", "waiting", "incoming", "failing", "writing"}
  BY <1>0, PlacesTyped DEF TakeCommands, Goes
<1>4. ~Commanded(c)' /\ Once(commands[c], {"websocket"})' /\ TextFirst(commands'[c])
      /\ ~Meets(commands'[c], {"text"}) /\ ~Meets(commands'[c], {"close"})
  BY <1>2, MeetsEmpty, TextFirstEmpty DEF Commanded
<1>5. /\ ~Asking(c)' /\ ~Opening(c)'
      /\ UpgradeComes(c)' => UpgradeComes(c)
      /\ OpenComes(c)' => OpenComes(c)
      /\ Once(Inbox(c), Of("upgrade"))' /\ Once(Inbox(c), Of("open"))'
  BY <1>1, <1>3 DEF Asking, Opening, OpenComes, UpgradeComes, InboxShrinks, OnceEach, Of
<1>6. CASE UNCHANGED <<cmds, frame>>
  <2>1. FewerPlaces(c)
    BY <1>4, <1>5, <1>6 DEF FewerPlaces, Held, Written
  <2>2. OnceEach(c)'
    BY <1>1, <1>4, <1>5, <1>6 DEF OnceEach
  <2>3. TextPlaces(c) => TextPlaces(c)'
    BY <1>2, <1>4, <1>6 DEF TextPlaces
  <2>4. CloseAt(c)' => CloseAt(c)
    BY <1>2, <1>4, <1>6 DEF CloseAt
  <2> QED BY <1>1, <2>1, <2>2, <2>3, <2>4, SocketStays
<1>7. CASE Takes(c, commands[c])
  <2>1. /\ Held(c)' \/ Written(c)' => Commanded(c)
        /\ ~(Held(c)' /\ Written(c)') /\ Once(cmds[c], {"websocket"})'
    BY <1>0, <1>1, <1>7, TakenPlaces DEF Commanded, OnceEach
  <2>2. OpensOnce(c)' /\ (Ahead(c)' => Ahead(c))
    <3>1. OpensOnce(c)'
      BY <1>1, <1>4, <1>5, <2>1 DEF OpensOnce, Ahead, Beyond
    <3>2. Ahead(c)' => Ahead(c)
      BY <1>4, <1>5, <2>1 DEF Ahead, Beyond
    <3> QED BY <3>1, <3>2
  <2>3. ASSUME TextKept(c)
        PROVE  TextKept(c)'
    <3>1. /\ frame'[c] = "text" \/ Meets(cmds'[c], {"text"}) => Meets(commands[c], {"text"})
          /\ frame'[c] = "close" \/ Meets(cmds'[c], {"close"}) => Meets(commands[c], {"close"})
          /\ TextFirst(cmds'[c]) /\ (frame'[c] = "close" => ~Meets(cmds'[c], {"text"}))
      BY <1>0, <1>7, <2>3, TakenPlaces DEF TextKept, TextPlaces
    <3>2. TextPlaces(c)'
      BY <1>2, <1>4, <2>3, <3>1 DEF TextKept, TextPlaces
    <3>3. CloseAt(c)' => CloseAt(c)
      BY <1>2, <1>4, <3>1 DEF CloseAt
    <3> QED BY <2>2, <2>3, <3>2, <3>3 DEF TextKept
  <2> QED BY <1>1, <2>2, <2>3 DEF SocketKept
<1> QED BY <1>6, <1>7 DEF TakeCommands

\* What is written, and what comes next into its place.
LEMMA WrittenText ==
  ASSUME TypeOK, NEW c \in Conns, TextPlaces(c), UNCHANGED commands,
         \/ out'[c] = out[c]
         \/ out'[c] = Append(out[c], frame[c]) /\ frame[c] \in Frames,
         \/ Takes(c, cmds[c])
         \/ frame'[c] \notin {"text", "close"} /\ UNCHANGED cmds
  PROVE  TextPlaces(c)' /\ (CloseAt(c)' => CloseAt(c))
<1>0. /\ CommandTyped /\ cmds[c] \in Seq(CommandKinds) /\ out[c] \in Seq(Frames)
  BY TypedParts DEF CommandTyped
<1>1. /\ TextFirst(out'[c])
      /\ Meets(out'[c], {"close"}) => Meets(out[c], {"close"}) \/ frame[c] = "close"
  <2>1. CASE out'[c] = out[c]
    BY <2>1 DEF TextPlaces
  <2>2. CASE out'[c] = Append(out[c], frame[c]) /\ frame[c] \in Frames
    <3>1. frame[c] = "text" => ~Meets(out[c], {"close"})
      BY DEF TextPlaces
    <3>2. TextFirst(out'[c])
      BY <1>0, <2>2, <3>1, TextFirstAppend DEF TextPlaces
    <3>3. Meets(out'[c], {"close"}) <=> Meets(out[c], {"close"}) \/ frame[c] \in {"close"}
      BY <1>0, <2>2, MeetsAppend
    <3> QED BY <3>2, <3>3
  <2> QED BY <2>1, <2>2
<1>2. CASE Takes(c, cmds[c])
  <2>1. /\ frame'[c] = "text" \/ Meets(cmds'[c], {"text"}) => Meets(cmds[c], {"text"})
        /\ frame'[c] = "close" \/ Meets(cmds'[c], {"close"}) => Meets(cmds[c], {"close"})
        /\ TextFirst(cmds'[c]) /\ (frame'[c] = "close" => ~Meets(cmds'[c], {"text"}))
    BY <1>0, <1>2, TakenPlaces DEF TextPlaces
  <2> QED BY <1>1, <2>1 DEF TextPlaces, CloseAt
<1>3. CASE frame'[c] \notin {"text", "close"} /\ UNCHANGED cmds
  BY <1>1, <1>3 DEF TextPlaces, CloseAt
<1> QED BY <1>2, <1>3

LEMMA WriteDoneKept ==
  ASSUME TypeOK, NEW c \in Conns, SocketKept(c), Settled(c), WriteDone(c), InboxShrinks(c),
         UNCHANGED <<ws, hasty>>
  PROVE  SocketKept(c)'
<1>0. /\ cmds \in [Conns -> Seq(CommandKinds)] /\ cmds[c] \in Seq(CommandKinds)
      /\ out \in [Conns -> Seq(Frames)] /\ frame \in [Conns -> Frames \cup {"none"}]
      /\ CommandTyped /\ pc \in [Workers -> WorkerSteps] /\ c \in Workers
  BY TypedParts, WorkerFacts DEF CommandTyped, StepTyped
<1>1. /\ OpensOnce(c) /\ (~hasty[c] => TextKept(c)) /\ (TextKept(c) => TextPlaces(c))
      /\ OnceEach(c)
  BY DEF SocketKept, TextKept, OpensOnce, OnceEach
<1>2. /\ out'[c] = Append(out[c], frame[c]) /\ UNCHANGED commands /\ pc[c] = "writing"
      /\ pc'[c] = AfterWrite(c, mode'[c]) /\ frame[c] \in Frames
  BY <1>0 DEF WriteDone, Goes, Settled
<1>3. \/ frame[c] \in {"write", "text", "close"} /\ Takes(c, cmds[c])
      \/ /\ frame[c] \notin {"write", "text", "close"}
         /\ frame'[c] = "none" /\ UNCHANGED cmds
  BY <1>0 DEF WriteDone
<1>4. /\ pc'[c] \notin {"none", "reading"}
      /\ pc'[c] = "opening" => frame[c] = "websocket"
  BY <1>2, PlacesTyped DEF AfterWrite
<1>5. /\ ~Asking(c)' /\ (Opening(c)' => Written(c))
      /\ UpgradeComes(c)' => UpgradeComes(c)
      /\ OpenComes(c)' => OpenComes(c)
      /\ Once(Inbox(c), Of("upgrade"))' /\ Once(Inbox(c), Of("open"))'
      /\ Commanded(c)' <=> Commanded(c)
      /\ Once(commands[c], {"websocket"})'
  BY <1>1, <1>2, <1>4 DEF Asking, Opening, Written, OpenComes, UpgradeComes, InboxShrinks,
     OnceEach, Commanded, Of
<1>6. OpensOnce(c)' /\ (Ahead(c)' => Ahead(c))
  <2>1. CASE frame[c] \in {"write", "text", "close"} /\ Takes(c, cmds[c])
    <3>1. /\ Held(c)' \/ Written(c)' => Held(c)
          /\ ~(Held(c)' /\ Written(c)') /\ Once(cmds[c], {"websocket"})'
      BY <1>0, <1>1, <2>1, TakenPlaces DEF Held, OnceEach
    <3>2. ~Written(c)
      BY <2>1 DEF Written
    <3>3. OpensOnce(c)'
      BY <1>1, <1>5, <3>1, <3>2 DEF OpensOnce, Ahead, Beyond
    <3>4. Ahead(c)' => Ahead(c)
      BY <1>5, <3>1, <3>2 DEF Ahead, Beyond
    <3> QED BY <3>3, <3>4
  <2>2. CASE frame'[c] = "none" /\ UNCHANGED cmds
    <3>1. /\ ~Written(c)' /\ (Held(c)' <=> Held(c)) /\ Once(cmds[c], {"websocket"})'
      BY <1>1, <2>2 DEF Held, Written, OnceEach
    <3>2. OpensOnce(c)'
      BY <1>1, <1>5, <3>1 DEF OpensOnce, Ahead, Beyond
    <3>3. Ahead(c)' => Ahead(c)
      BY <1>5, <3>1 DEF Ahead, Beyond
    <3> QED BY <3>2, <3>3
  <2> QED BY <1>3, <2>1, <2>2
<1>7. ASSUME TextKept(c)
      PROVE  TextKept(c)'
  <2>1. TextPlaces(c)' /\ (CloseAt(c)' => CloseAt(c))
    <3>1. Takes(c, cmds[c]) \/ (frame'[c] \notin {"text", "close"} /\ UNCHANGED cmds)
      BY <1>3
    <3> QED BY <1>1, <1>2, <1>7, <3>1, WrittenText
  <2> QED BY <1>6, <1>7, <2>1 DEF TextKept
<1> QED BY <1>1, <1>6, <1>7 DEF SocketKept

LEMMA OpenedKept ==
  ASSUME TypeOK, NEW c \in Conns, SocketKept(c), Opened(c), UNCHANGED <<ws, hasty, batch, target>>
  PROVE  SocketKept(c)'
<1>0. /\ cmds[c] \in Seq(CommandKinds) /\ CommandTyped /\ c \in Workers
      /\ Event("open") \in Events /\ Event("open").kind = "open"
  BY TypedParts, WorkerFacts, EventTypes DEF CommandTyped, Kinds
<1>1. /\ OpensOnce(c) /\ (~hasty[c] => TextKept(c)) /\ (TextKept(c) => TextPlaces(c))
      /\ OnceEach(c)
  BY DEF SocketKept, TextKept, OpensOnce, OnceEach
<1>2. /\ pc[c] = "opening" /\ UNCHANGED <<commands, out>> /\ Takes(c, cmds[c])
      /\ Emit(c, Event("open"), NextPlace(c, cmds[c], mode[c]), "leaving")
  BY DEF Opened
<1>3. pc'[c] \in {"leaving", "waiting", "incoming", "failing", "writing"}
  <2>1. pc'[c] = NextPlace(c, cmds[c], mode[c]) \/ pc'[c] = "leaving"
    BY <1>0, <1>2, EmitGoesOn
  <2> QED BY <2>1, PlacesTyped
<1>4. Opening(c) /\ ~OpenComes(c) /\ ~Written(c) /\ ~Held(c) /\ ~Commanded(c)
  BY <1>1, <1>2 DEF Opening, OpensOnce
<1>5. /\ UpgradeComes(c)' => UpgradeComes(c)
      /\ Once(Inbox(c), Of("upgrade"))' /\ Once(Inbox(c), Of("open"))'
  <2>1. UNCHANGED <<batch, target>> /\ Event("open").kind # "upgrade"
    BY <1>0
  <2>2. /\ Meets(Inbox(c)', Of("upgrade")) => Meets(Inbox(c), Of("upgrade"))
        /\ Once(Inbox(c), Of("upgrade")) => Once(Inbox(c)', Of("upgrade"))
    BY <1>0, <1>2, <2>1, ReportMeets
  <2>3. /\ Once(Inbox(c), Of("open")) /\ ~Meets(Inbox(c), Of("open"))
             => Once(Inbox(c)', Of("open"))
    BY <1>0, <1>2, <2>1, ReportMeets
  <2> QED BY <1>1, <1>4, <2>2, <2>3 DEF UpgradeComes, OpenComes, OnceEach, Of
<1>6. /\ ~Asking(c)' /\ ~Opening(c)' /\ ~Commanded(c)' /\ Once(commands[c], {"websocket"})'
      /\ ~Held(c)' /\ ~Written(c)' /\ Once(cmds[c], {"websocket"})'
  <2>1. ~Asking(c)' /\ ~Opening(c)' /\ ~Commanded(c)' /\ Once(commands[c], {"websocket"})'
    BY <1>1, <1>2, <1>3, <1>4 DEF Asking, Opening, Commanded, OnceEach
  <2>2. /\ Held(c)' \/ Written(c)' => Held(c)
        /\ Once(cmds[c], {"websocket"})'
    BY <1>0, <1>1, <1>2, TakenPlaces DEF Held, OnceEach
  <2> QED BY <1>4, <2>1, <2>2
<1>7. Ahead(c)
  BY <1>4 DEF Ahead, Beyond
<1>8. OpensOnce(c)'
  <2>1. ws'[c] # "open"
    BY <1>1, <1>7 DEF OpensOnce
  <2>2. UpgradeComes(c)' => ~OpenComes(c)'
    <3>1. ~UpgradeComes(c)
      BY <1>1, <1>4 DEF OpensOnce, Beyond
    <3> QED BY <1>5, <3>1
  <2> QED BY <1>5, <1>6, <2>1, <2>2 DEF OpensOnce, Beyond
<1>9. ASSUME TextKept(c)
      PROVE  TextKept(c)'
  <2>1. TextPlaces(c)' /\ (CloseAt(c)' => CloseAt(c))
    BY <1>1, <1>2, <1>9, WrittenText
  <2>2. ~CloseAt(c)
    BY <1>7, <1>9 DEF TextKept
  <2> QED BY <2>1, <2>2 DEF TextKept
<1> QED BY <1>1, <1>8, <1>9 DEF SocketKept

\* The request is reported, and perhaps that it asks for an upgrade.
LEMMA ReadRequestKept ==
  ASSUME TypeOK, NEW c \in Conns, SocketKept(c), NEW kind \in {"request", "upgrade"},
         ReadRequest(c, kind), UNCHANGED <<ws, hasty, batch, target>>
  PROVE  SocketKept(c)'
<1>0. /\ c \in Workers /\ Event(kind) \in Events /\ Event(kind).kind = kind
  BY WorkerFacts, EventTypes DEF Kinds
<1>1. /\ OpensOnce(c) /\ (~hasty[c] => TextKept(c)) /\ OnceEach(c)
  BY DEF SocketKept, OpensOnce, OnceEach
<1>2. /\ pc[c] = "reading" /\ Emit(c, Event(kind), "loop", "leaving")
      /\ UNCHANGED <<commands, cmds, frame, out>>
  BY DEF ReadRequest
<1>3. Pipe(c)' = Pipe(c)
  BY <1>2 DEF Pipe
<1>4. /\ Commanded(c)' <=> Commanded(c)
      /\ Held(c)' <=> Held(c)
      /\ Written(c)' <=> Written(c)
      /\ TextPlaces(c)' <=> TextPlaces(c)
      /\ CloseAt(c)' <=> CloseAt(c)
      /\ Once(commands[c], {"websocket"}) => Once(commands[c], {"websocket"})'
      /\ Once(cmds[c], {"websocket"}) => Once(cmds[c], {"websocket"})'
  BY <1>3, SamePipe
<1>5. pc'[c] \in {"loop", "leaving"}
  BY <1>0, <1>2, EmitGoesOn
<1>6. Asking(c) /\ ~UpgradeComes(c) /\ ~Beyond(c) /\ Ahead(c)
  BY <1>1, <1>2 DEF Asking, OpensOnce, Ahead
<1>7. ~Asking(c)' /\ ~Opening(c)'
  BY <1>5 DEF Asking, Opening
<1>8. /\ OpenComes(c)' => OpenComes(c)
      /\ Once(Inbox(c), Of("upgrade"))' /\ Once(Inbox(c), Of("open"))'
  <2>1. UNCHANGED <<batch, target>>
    OBVIOUS
  <2>2. /\ Meets(Inbox(c)', Of("open")) => Meets(Inbox(c), Of("open"))
        /\ Once(Inbox(c), Of("open")) => Once(Inbox(c)', Of("open"))
    BY <1>0, <1>2, <2>1, ReportMeets
  <2>3. /\ Once(Inbox(c), Of("upgrade")) /\ ~Meets(Inbox(c), Of("upgrade"))
             => Once(Inbox(c)', Of("upgrade"))
    BY <1>0, <1>2, <2>1, ReportMeets
  <2> QED BY <1>1, <1>6, <2>2, <2>3 DEF UpgradeComes, OpenComes, OnceEach, Of
<1>9. ~Beyond(c)' /\ ws'[c] # "open"
  BY <1>1, <1>4, <1>6, <1>7, <1>8 DEF Beyond, OpensOnce
<1>10. OpensOnce(c)'
  BY <1>1, <1>4, <1>7, <1>8, <1>9 DEF OpensOnce, OnceEach, Beyond
<1>11. TextKept(c) => TextKept(c)'
  BY <1>4, <1>6 DEF TextKept
<1> QED BY <1>1, <1>10, <1>11 DEF SocketKept

LEMMA ReportShrinks ==
  ASSUME TypeOK, NEW c \in Conns, NEW event \in Events, NEW next, NEW refusedNext,
         Emit(c, event, next, refusedNext), UNCHANGED <<batch, target>>,
         event.kind \notin {"upgrade", "open"}
  PROVE  InboxShrinks(c)
BY ReportMeets DEF InboxShrinks

LEMMA LeavesKept ==
  ASSUME TypeOK, NEW c \in Conns, SocketKept(c), ConnectionLeaves(c), InboxShrinks(c),
         UNCHANGED <<ws, hasty>>
  PROVE  SocketKept(c)'
<1>0. /\ cmds \in [Conns -> Seq(CommandKinds)] /\ out \in [Conns -> Seq(Frames)]
      /\ frame \in [Conns -> Frames \cup {"none"}] /\ c \in Workers
  BY TypedParts, WorkerFacts DEF CommandTyped
<1>1. /\ OpensOnce(c) /\ (~hasty[c] => TextKept(c)) /\ (TextKept(c) => TextPlaces(c))
      /\ OnceEach(c)
  BY DEF SocketKept, TextKept, OpensOnce, OnceEach
<1>2. /\ cmds'[c] = <<>> /\ out'[c] = <<>> /\ frame'[c] = "none" /\ UNCHANGED commands
      /\ Emit(c, Event("close"), "done", "done")
  BY <1>0 DEF ConnectionLeaves
<1>3. pc'[c] = "done"
  BY <1>0, <1>2, EmitGoesOn
<1>4. ~Asking(c)' /\ ~Opening(c)' /\ ~Held(c)' /\ ~Written(c)' /\ (Commanded(c)' <=> Commanded(c))
  BY <1>2, <1>3, MeetsEmpty DEF Asking, Opening, Held, Written, Commanded
<1>5. FewerPlaces(c)
  BY <1>4 DEF FewerPlaces, InboxShrinks, UpgradeComes, OpenComes, Of
<1>6. OnceEach(c)'
  BY <1>1, <1>2, MeetsEmpty DEF OnceEach, InboxShrinks, Of
<1>7. TextPlaces(c) => TextPlaces(c)'
  BY <1>2, MeetsEmpty, TextFirstEmpty DEF TextPlaces
<1>8. CloseAt(c)' => CloseAt(c)
  BY <1>2, MeetsEmpty DEF CloseAt
<1> QED BY <1>1, <1>5, <1>6, <1>7, <1>8, SocketStays

LEMMA ConnectionSocket ==
  ASSUME TypeOK, NEW c \in Conns, ConnectionStep(c), SocketKept(c), Settled(c)
  PROVE  SocketKept(c)'
<1>0. /\ UNCHANGED <<ws, hasty, batch, target>> /\ pc \in [Workers -> WorkerSteps]
      /\ c \in Workers /\ frame \in [Conns -> Frames \cup {"none"}]
  BY TypedParts, ThreadsLeave, WorkerFacts
     DEF OwnerSide, jsVars, ownerVars, StepTyped, CommandTyped
<1>1. ASSUME UNCHANGED events
      PROVE  InboxShrinks(c)
  <2>1. Inbox(c)' = Inbox(c)
    BY <1>0, <1>1 DEF Inbox
  <2> QED BY <2>1, RestShrinks
<1>2. ASSUME UNCHANGED <<commands, cmds, frame, out>>, InboxShrinks(c),
             pc'[c] = pc[c] \/ pc'[c] \notin {"none", "reading", "opening"}
      PROVE  SocketKept(c)'
  <2>1. Pipe(c)' = Pipe(c)
    BY <1>2 DEF Pipe
  <2>2. (Asking(c)' => Asking(c)) /\ (Opening(c)' => Opening(c))
    BY <1>2 DEF Asking, Opening
  <2>3. ws'[c] = ws[c] /\ hasty'[c] = hasty[c]
    BY <1>0
  <2> QED BY <1>2, <2>1, <2>2, <2>3, SocketSame
<1>3. CASE \/ IoWoken(c) \/ ReadFails(c) \/ WriteFails(c)
           \/ WaitWoken(c) \/ WaitReads(c) \/ WaitEnds(c)
  <2>1. UNCHANGED <<commands, cmds, frame, out>> /\ UNCHANGED events
    BY <1>3 DEF IoWoken, ReadFails, WriteFails, WaitWoken, WaitReads, WaitEnds, connVars
  <2>2. pc'[c] \in {pc[c], "failing", "leaving", "loop"}
    BY <1>0, <1>3 DEF IoWoken, ReadFails, WriteFails, WaitWoken, WaitReads, WaitEnds, Goes
  <2> QED BY <1>1, <1>2, <2>1, <2>2
<1>4. CASE IncomingMessage(c)
  <2>1. UNCHANGED <<commands, cmds, frame, out>>
    BY <1>4 DEF IncomingMessage
  <2>2. \/ pc'[c] = "waiting" /\ UNCHANGED events
        \/ \E kind \in {"data", "text"} : Emit(c, Event(kind), "waiting", "leaving")
    BY <1>0, <1>4 DEF IncomingMessage, Goes
  <2>3. CASE pc'[c] = "waiting" /\ UNCHANGED events
    BY <1>1, <1>2, <2>1, <2>3
  <2>4. CASE \E kind \in {"data", "text"} : Emit(c, Event(kind), "waiting", "leaving")
    <3> PICK kind \in {"data", "text"} : Emit(c, Event(kind), "waiting", "leaving")
      BY <2>4
    <3>1. Event(kind) \in Events /\ Event(kind).kind = kind
      BY EventTypes DEF Kinds
    <3>2. pc'[c] = "waiting" \/ pc'[c] = "leaving"
      BY <1>0, EmitGoesOn
    <3>3. InboxShrinks(c)
      <4>1. UNCHANGED <<batch, target>>
        BY <1>0
      <4> QED BY <3>1, <4>1, ReportShrinks
    <3> QED BY <1>2, <2>1, <3>2, <3>3
  <2> QED BY <2>2, <2>3, <2>4
<1>5. CASE Clean(c) \/ Fails(c)
  <2>1. UNCHANGED <<commands, cmds, frame, out>>
        /\ \E kind \in {"close", "error"} : Emit(c, Event(kind), "leaving", "leaving")
    BY <1>5 DEF Clean, Fails, connVars
  <2> PICK kind \in {"close", "error"} : Emit(c, Event(kind), "leaving", "leaving")
    BY <2>1
  <2>2. Event(kind) \in Events /\ Event(kind).kind = kind
    BY EventTypes DEF Kinds
  <2>3. pc'[c] = "leaving"
    BY <1>0, EmitGoesOn
  <2>4. InboxShrinks(c)
    <3>1. UNCHANGED <<batch, target>>
      BY <1>0
    <3> QED BY <2>2, <3>1, ReportShrinks
  <2> QED BY <1>2, <2>1, <2>3, <2>4
<1>6. CASE ConnectionLeaves(c)
  <2>1. Emit(c, Event("close"), "done", "done")
    BY <1>6 DEF ConnectionLeaves
  <2>2. InboxShrinks(c)
    <3>1. UNCHANGED <<batch, target>>
      BY <1>0
    <3>2. Event("close") \in Events /\ Event("close").kind = "close"
      BY EventTypes DEF Kinds
    <3> QED BY <2>1, <3>1, <3>2, ReportShrinks
  <2> QED BY <1>0, <1>6, <2>2, LeavesKept
<1>7. CASE \E kind \in {"request", "upgrade"} : ReadRequest(c, kind)
  BY <1>0, <1>7, ReadRequestKept
<1>8. CASE TakeCommands(c)
  <2>1. UNCHANGED events
    BY <1>8 DEF TakeCommands
  <2> QED BY <1>0, <1>1, <1>8, <2>1, TakeCommandsKept
<1>9. CASE WriteDone(c)
  <2>1. UNCHANGED events
    BY <1>9 DEF WriteDone
  <2> QED BY <1>0, <1>1, <1>9, <2>1, WriteDoneKept
<1>10. CASE Opened(c)
  BY <1>0, <1>10, OpenedKept
<1>11. CASE IncomingControl(c)
  <2>1. /\ UNCHANGED <<commands, cmds, out, events>> /\ pc'[c] \in {"clean", "writing"}
        /\ frame'[c] \in {"failClose", "closeReply"}
    BY <1>0, <1>11 DEF IncomingControl, Goes
  <2>2. InboxShrinks(c)
    BY <1>1, <2>1
  <2>3. ~Asking(c)' /\ ~Opening(c)' /\ ~Written(c)' /\ (Held(c)' <=> Held(c))
        /\ (Commanded(c)' <=> Commanded(c))
    BY <2>1 DEF Asking, Opening, Held, Written, Commanded
  <2>4. FewerPlaces(c)
    BY <2>2, <2>3 DEF FewerPlaces, InboxShrinks, UpgradeComes, OpenComes, Of
  <2>5. OnceEach(c)'
    BY <2>1, <2>2 DEF OnceEach, InboxShrinks, Of, SocketKept, OpensOnce
  <2>6. TextPlaces(c) => TextPlaces(c)' /\ (CloseAt(c)' => CloseAt(c))
    BY <2>1, WrittenText
  <2>7. TextKept(c) => TextPlaces(c)
    BY DEF TextKept
  <2> QED BY <1>0, <2>4, <2>5, <2>6, <2>7, SocketStays
<1> QED BY <1>3, <1>4, <1>5, <1>6, <1>7, <1>8, <1>9, <1>10, <1>11 DEF ConnectionStep

LEMMA SocketsKeptStep ==
  ASSUME TypeOK, OwnerKept, FreshKept, ListenerKept, ThreadKept, SocketsKept, [Next]_vars
  PROVE  SocketsKept'
<1>0. /\ Conns \subseteq Workers /\ Listener \in Workers /\ Listener \notin Conns
      /\ pc \in [Workers -> WorkerSteps]
  BY TypedParts, WorkerFacts DEF StepTyped
<1>1. ASSUME NEW c \in Conns, Pipe(c)' = Pipe(c), ws'[c] = ws[c], hasty'[c] = hasty[c],
             Inbox(c)' = Inbox(c), pc'[c] = pc[c]
      PROVE  SocketKept(c)'
  <2>1. SocketKept(c) /\ InboxShrinks(c)
    BY <1>1, RestShrinks DEF SocketsKept
  <2>2. (Asking(c)' => Asking(c)) /\ (Opening(c)' => Opening(c))
    BY <1>1 DEF Asking, Opening
  <2> QED BY <1>1, <2>1, <2>2, SocketSame
<1>2. CASE /\ UNCHANGED <<commands, cmds, frame, out, ws, hasty>>
           /\ \A c \in Conns : Inbox(c)' = Inbox(c) /\ pc'[c] = pc[c]
  BY <1>1, <1>2 DEF SocketsKept, Pipe
<1>3. CASE \E w \in Workers : Deliver(w)
  BY <1>3, DeliverySockets
<1>4. CASE Calls
  BY <1>4, CallsSockets
<1>5. CASE ReleaseEnds
  BY <1>5, ReleaseSockets
<1>6. CASE \E c \in Conns : ConnectionStep(c)
  <2> PICK c \in Conns : ConnectionStep(c)
    BY <1>6
  <2>1. /\ \A d \in Conns \ {c} : Inbox(d)' = Inbox(d) /\ pc'[d] = pc[d] /\ Pipe(d)' = Pipe(d)
        /\ UNCHANGED <<ws, hasty>>
    <3>1. \A d \in Workers \ {c} : Inbox(d)' = Inbox(d) /\ pc'[d] = pc[d]
      BY <1>0, OneThread DEF ThreadStep
    <3>2. UNCHANGED <<ws, hasty>>
      BY ThreadsLeave DEF OwnerSide, jsVars
    <3> QED BY <1>0, <3>1, <3>2, OnePipe
  <2>2. \A d \in Conns \ {c} : SocketKept(d)'
    BY <1>1, <2>1
  <2>3. SocketKept(c) /\ Settled(c)
    BY DEF SocketsKept, ThreadKept, Settled, Replies
  <2>4. SocketKept(c)'
    BY <2>3, ConnectionSocket
  <2> QED BY <2>2, <2>4 DEF SocketsKept
<1>7. CASE ListenerStep
  <2>1. UNCHANGED <<commands, cmds, frame, out, ws, hasty>>
    BY <1>7, ThreadsLeave DEF OwnerSide, jsVars, connVars
  <2>2. \A c \in Conns : Inbox(c)' = Inbox(c) /\ pc'[c] = pc[c]
    BY <1>0, <1>7, OneThread DEF ThreadStep
  <2> QED BY <1>2, <2>1, <2>2
<1>8. CASE Listen
  <2>1. UNCHANGED <<commands, cmds, frame, out, ws, hasty, events, batch, target>>
        /\ pc' = [pc EXCEPT ![Listener] = "waiting"]
    BY <1>8 DEF Listen, connVars
  <2>2. \A c \in Conns : Inbox(c)' = Inbox(c) /\ pc'[c] = pc[c]
    BY <1>0, <2>1 DEF Inbox
  <2> QED BY <1>2, <2>1, <2>2
<1>9. CASE ReleaseStops \/ (\E c \in Conns : Peer(c)) \/ UNCHANGED vars
  <2>1. UNCHANGED <<commands, cmds, frame, out, ws, hasty, events, batch, target, pc>>
    BY <1>9, ThreadsLeave
       DEF ReleaseStops, OwnerSide, jsVars, ownerVars, connVars, vars
  <2>2. \A c \in Conns : Inbox(c)' = Inbox(c)
    BY <2>1 DEF Inbox
  <2> QED BY <1>2, <2>1, <2>2
<1> QED BY <1>3, <1>4, <1>5, <1>6, <1>7, <1>8, <1>9, StepCases

-----------------------------------------------------------------------------
(* The theorems. *)

LEMMA ServerInit == Init => ServerInv
<1> SUFFICES ASSUME Init PROVE ServerInv
  OBVIOUS
<1>1. TypeOK
  <2>1. JsTyped /\ ListenerTyped
    <3>1. calls \in 0 .. MaxCalls /\ sockets \subseteq Conns
      BY HttpServerAssumption DEF Init
    <3>2. /\ handle \in BOOLEAN /\ closing \in BOOLEAN /\ awaiting \in BOOLEAN
          /\ destroyed \in [Conns -> BOOLEAN] /\ hasty \in [Conns -> BOOLEAN]
      BY DEF Init
    <3>3. /\ res \in [Conns -> {"none", "open", "ended"}]
          /\ ws \in [Conns -> {"none", "connecting", "open", "closing", "closed"}]
      BY DEF Init
    <3> QED BY <3>1, <3>2, <3>3 DEF Init, JsTyped, ListenerTyped
  <2>2. FlagTyped /\ StepTyped
    BY DEF Init, FlagTyped, StepTyped, WorkerSteps
  <2>3. OwnerTyped
    <3>1. <<>> \in Seq(Events)
      OBVIOUS
    <3> QED BY <3>1 DEF Init, OwnerTyped
  <2>4. CommandTyped
    <3>1. <<>> \in Seq(CommandKinds) /\ <<>> \in Seq(Frames)
      OBVIOUS
    <3> QED BY <3>1 DEF Init, CommandTyped
  <2>5. PeerTyped
    BY HttpServerAssumption DEF Init, PeerTyped
  <2> QED BY <2>1, <2>2, <2>3, <2>4, <2>5, TypedParts
<1>2. \A w \in Workers : Inbox(w) = <<>>
  BY WorkerFacts DEF Init, Inbox
<1>3. OwnerKept /\ OwedKept /\ HeldHasRecord
  BY WorkerFacts DEF Init, OwnerKept, OwedKept, HeldHasRecord
<1>4. FreshKept
  BY <1>2, WorkerFacts DEF Init, FreshKept
<1>5. ListenerKept /\ PendingExact
  BY <1>2, WorkerFacts, MeetsEmpty DEF Init, ListenerKept, PendingExact, Active
<1>6. ConnectionsBounded
  <2>1. {c \in sockets : ~destroyed[c]} = {}
    BY DEF Init
  <2> QED BY <2>1, FS_EmptySet, HttpServerAssumption DEF ConnectionsBounded
<1>7. ThreadKept
  BY MeetsEmpty, WorkerFacts DEF Init, ThreadKept
<1>8. SocketsKept
  <2> SUFFICES ASSUME NEW c \in Conns PROVE SocketKept(c)
    BY DEF SocketsKept
  <2>1. /\ out[c] = <<>> /\ cmds[c] = <<>> /\ frame[c] = "none" /\ commands[c] = <<>>
        /\ Inbox(c) = <<>> /\ ws[c] = "none" /\ pc[c] = "none"
    BY <1>2, WorkerFacts DEF Init
  <2>2. /\ ~UpgradeComes(c) /\ ~Commanded(c) /\ ~Held(c) /\ ~Written(c) /\ ~Opening(c)
        /\ ~OpenComes(c) /\ OnceEach(c)
    BY <2>1, MeetsEmpty DEF UpgradeComes, Commanded, Held, Written, Opening, OpenComes, OnceEach
  <2>3. OpensOnce(c)
    BY <2>1, <2>2 DEF OpensOnce, OnceEach, Beyond
  <2>4. TextPlaces(c) /\ ~CloseAt(c)
    BY <2>1, MeetsEmpty, TextFirstEmpty DEF TextPlaces, CloseAt
  <2> QED BY <2>3, <2>4 DEF SocketKept, TextKept
<1> QED BY <1>1, <1>3, <1>4, <1>5, <1>6, <1>7, <1>8 DEF ServerInv

LEMMA ServerStep == ServerInv /\ [Next]_vars => ServerInv'
<1> SUFFICES ASSUME ServerInv, [Next]_vars PROVE ServerInv'
  OBVIOUS
<1>1. /\ TypeOK /\ OwnerKept /\ FreshKept /\ OwedKept /\ HeldHasRecord /\ ListenerKept
      /\ PendingExact /\ ConnectionsBounded /\ ThreadKept /\ SocketsKept
  BY DEF ServerInv
<1>2. TypeOK' /\ OwnerKept' /\ FreshKept'
  BY <1>1, TypesStep, OwnerKeptStep, FreshKeptStep
<1>3. OwedKept' /\ HeldHasRecord' /\ ListenerKept' /\ PendingExact'
  BY <1>1, OwedKeptStep, HeldHasRecordStep, ListenerKeptStep, PendingExactStep
<1>4. ConnectionsBounded' /\ ThreadKept' /\ SocketsKept'
  BY <1>1, ConnectionsBoundedStep, ThreadKeptStep, SocketsKeptStep
<1> QED BY <1>2, <1>3, <1>4 DEF ServerInv

\* In every state of an execution.
LEMMA ServerInvariant == Spec => []ServerInv
<1>1. Init => ServerInv
  BY ServerInit
<1>2. ServerInv /\ [Next]_vars => ServerInv'
  BY ServerStep
<1> QED BY <1>1, <1>2, PTL DEF Spec

\* The server, its records and its threads hold what their types say.
THEOREM TypeCorrect == Spec => []TypeOK
<1>1. ServerInv => TypeOK
  BY DEF ServerInv
<1> QED BY <1>1, ServerInvariant, PTL

\* Contains(s, x) for a queue that may be a part of an inbox.
LEMMA QueuedInbox ==
  ASSUME TypeOK, NEW w \in Workers, NEW event
  PROVE  Meets(Inbox(w), {event}) <=> Queued(w, event)
<1>1. events[w] \in Seq(Events) /\ batch \in Seq(Events)
  BY InboxTyped
<1>2. CASE target = w
  <2>1. Meets(batch \o events[w], {event}) <=> Meets(batch, {event}) \/ Meets(events[w], {event})
    BY <1>1, MeetsConcat
  <2> QED BY <1>2, <2>1, ContainsMeets DEF Queued, Inbox
<1>3. CASE target # w
  BY <1>3, ContainsMeets DEF Queued, Inbox
<1> QED BY <1>2, <1>3

\* No accepted connection is forgotten, the listener's queue never overflows, and
\* JavaScript keeps to server.maxConnections (http_listener_run, Server._accept).
THEOREM LimitsKept == Spec => []LimitsHold
<1>1. ServerInv => LimitsHold
  <2> SUFFICES ASSUME ServerInv PROVE LimitsHold
    OBVIOUS
  <2>1. TypeOK /\ ListenerKept /\ PendingExact /\ ConnectionsBounded /\ Listener \in Workers
    BY WorkerFacts DEF ServerInv
  <2>2. ASSUME NEW c \in pending
        PROVE  accepting = c \/ Queued(Listener, Accept(c))
    <3>1. pc[Listener] \in Active
      BY <2>1 DEF ListenerKept
    <3>2. c = accepting \/ Meets(Inbox(Listener), {Accept(c)})
      BY <2>1, <3>1 DEF PendingExact
    <3> QED BY <2>1, <3>2, QueuedInbox
  <2>3. terminal[Listener] => pc[Listener] = "done"
    BY <2>1 DEF ListenerKept
  <2> QED BY <2>1, <2>2, <2>3 DEF LimitsHold, PendingHasAccept
<1> QED BY <1>1, ServerInvariant, PTL

\* A record outlives its thread only until the end of the thread is handed over,
\* and without a failing callback JavaScript keeps nothing that has no record.
THEOREM EndAnnounced == Spec => []EndIsAnnounced
<1>1. ServerInv => EndIsAnnounced
  <2> SUFFICES ASSUME ServerInv PROVE EndIsAnnounced
    OBVIOUS
  <2>1. TypeOK /\ OwedKept /\ HeldHasRecord
    BY DEF ServerInv
  <2>2. ASSUME NEW w \in Workers, record[w] /\ pc[w] = "done"
        PROVE  Queued(w, Event("close")) \/ (target = w /\ joining)
    <3>1. Meets(Inbox(w), {Event("close")}) \/ (joining /\ target = w)
      BY <2>1, <2>2 DEF OwedKept, EndOwed
    <3> QED BY <2>1, <3>1, QueuedInbox
  <2> QED BY <2>1, <2>2 DEF EndIsAnnounced, HeldHasRecord
<1> QED BY <1>1, ServerInvariant, PTL

\* Behind a Close frame no message is written to the peer, if close() is called on
\* a websocket that is open: the thread answers or begins the handshake last, and
\* ServerWebSocket.send refuses once close() was called.
THEOREM NoTextAfterClose == Spec => []NoDataAfterClose
<1>1. ServerInv => NoDataAfterClose
  <2> SUFFICES ASSUME ServerInv, NEW c \in Conns, ~hasty[c],
                      NEW i \in DOMAIN out[c], NEW j \in DOMAIN out[c],
                      out[c][i] \in {"close", "closeReply", "failClose"}, out[c][j] = "text"
               PROVE  j < i
    BY DEF NoDataAfterClose
  <2>1. /\ TypeOK /\ TextFirst(out[c])
    BY DEF ServerInv, SocketsKept, SocketKept, TextKept, TextPlaces
  <2>2. out[c] \in Seq(Frames) /\ DOMAIN out[c] = 1 .. Len(out[c])
    BY <2>1, TypedParts DEF CommandTyped
  <2>3. CASE out[c][i] = "close"
    BY <2>1, <2>2, <2>3 DEF TextFirst
  <2>4. CASE out[c][i] \in Replies
    <3>1. i = Len(out[c]) /\ j # i
      BY <2>2, <2>4 DEF ServerInv, ThreadKept, Replies
    <3> QED BY <2>2, <3>1
  <2> QED BY <2>3, <2>4 DEF Replies
<1> QED BY <1>1, ServerInvariant, PTL

=============================================================================
