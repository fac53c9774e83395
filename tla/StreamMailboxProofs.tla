------------------------- MODULE StreamMailboxProofs -------------------------
(* Proofs about StreamMailbox for every set of producers and every capacity. *)
EXTENDS StreamMailbox, SequenceTheorems, TLAPS

\* EffectiveCapacity is a usable bound whatever integer the host configured.
LEMMA EffectiveCapacityPositive == EffectiveCapacity \in Nat /\ EffectiveCapacity >= 1
BY MailboxAssumption DEF EffectiveCapacity

\* Splitting a sequence at any point loses nothing: the fact behind drain().
LEMMA SplitRejoins ==
  ASSUME NEW a \in Seq(Frame), NEW s \in Seq(Frame), NEW n \in 0 .. Len(s)
  PROVE  /\ SubSeq(s, 1, n) \in Seq(Frame)
         /\ SubSeq(s, n + 1, Len(s)) \in Seq(Frame)
         /\ Len(SubSeq(s, n + 1, Len(s))) <= Len(s)
         /\ a \o SubSeq(s, 1, n) \in Seq(Frame)
         /\ (a \o SubSeq(s, 1, n)) \o SubSeq(s, n + 1, Len(s)) = a \o s
<1> DEFINE head == SubSeq(s, 1, n)
           rest == SubSeq(s, n + 1, Len(s))
<1>0. Len(s) \in Nat /\ \A i \in 1 .. Len(s) : s[i] \in Frame
  BY LenProperties, ElementOfSeq
<1>1. head \in Seq(Frame)
  BY <1>0, SubSeqProperties
<1>2. rest \in Seq(Frame) /\ Len(rest) <= Len(s)
  BY <1>0, SubSeqProperties
<1>3. head \o rest = SubSeq(s, 1, Len(s))
  <2>1. 1 \in 1 .. Len(s) + 1 /\ n \in 1 - 1 .. Len(s) /\ Len(s) \in n .. Len(s)
    BY <1>0
  <2> QED BY <2>1, ConcatAdjacentSubSeq
<1>4. head \o rest = s
  BY <1>3, SubSeqFull
<1>5. a \o head \in Seq(Frame)
  BY <1>1, ConcatProperties
<1>6. (a \o head) \o rest = a \o (head \o rest)
  <2> HIDE DEF head, rest
  <2> QED BY <1>1, <1>2, ConcatAssociative
<1> QED BY <1>1, <1>2, <1>4, <1>5, <1>6

\* Appending to the right part of a concatenation appends to the whole.
LEMMA AppendRight ==
  ASSUME NEW a \in Seq(Frame), NEW b \in Seq(Frame), NEW e, e \in Frame
  PROVE  Append(a \o b, e) = a \o Append(b, e)
OBVIOUS

\* A drain takes at least nothing and at most everything.
LEMMA DrainCountInRange ==
  ASSUME TypeOK, NEW maxFrames \in Int
  PROVE  DrainCount(maxFrames) \in 0 .. Len(frames)
<1>1. Len(frames) \in Nat
  BY DEF TypeOK
<1> QED BY <1>1 DEF DrainCount

\* The state is well formed in every reachable state.
THEOREM TypeCorrect == Spec => []TypeOK
<1>1. Init => TypeOK
  <2>1. <<>> \in Seq(Frame)
    BY EmptySeq
  <2>2. 0 \in 0 .. FrameCount
    BY MailboxAssumption
  <2> QED BY <2>1, <2>2 DEF Init, TypeOK
<1>2. TypeOK /\ [Next]_vars => TypeOK'
  <2> SUFFICES ASSUME TypeOK, [Next]_vars PROVE TypeOK'
    OBVIOUS
  <2>1. ASSUME NEW p \in Producers, TryPush(p) PROVE TypeOK'
    <3> DEFINE frame == <<p, sent[p] + 1>>
    <3>1. sent[p] + 1 \in 0 .. FrameCount
      BY <2>1, MailboxAssumption DEF TypeOK, TryPush
    <3>2. frame \in Frame
      BY <3>1 DEF Frame
    <3>3. Append(frames, frame) \in Seq(Frame) /\ Append(accepted, frame) \in Seq(Frame)
      BY <3>2, AppendProperties DEF TypeOK
    <3>4. sent' \in [Producers -> 0 .. FrameCount]
      BY <2>1, <3>1 DEF TypeOK, TryPush
    <3> QED BY <2>1, <3>3, <3>4 DEF TypeOK, TryPush, Frame
  <2>2. ASSUME NEW maxFrames \in -1 .. EffectiveCapacity, Drain(maxFrames) PROVE TypeOK'
    <3> DEFINE count == DrainCount(maxFrames)
    <3>1. count \in 0 .. Len(frames)
      BY EffectiveCapacityPositive, DrainCountInRange
    <3>2. /\ SubSeq(frames, count + 1, Len(frames)) \in Seq(Frame)
          /\ drained \o SubSeq(frames, 1, count) \in Seq(Frame)
      BY <3>1, SplitRejoins DEF TypeOK
    <3> QED BY <2>2, <3>2 DEF TypeOK, Drain
  <2>3. CASE Close
    BY <2>3, EmptySeq DEF TypeOK, Close
  <2>4. CASE UNCHANGED vars
    BY <2>4 DEF TypeOK, vars
  <2> QED BY <2>1, <2>2, <2>3, <2>4 DEF Next
<1> QED BY <1>1, <1>2, PTL DEF Spec

\* The mailbox never grows past its capacity, however pushes, drains and the
\* close interleave (RUNTIME_CONTRACT.md, the mailbox paragraph).
THEOREM CapacityRespected == Spec => []Bounded
<1>1. Init => Bounded
  BY EffectiveCapacityPositive, EmptySeq DEF Init, Bounded
<1>2. TypeOK /\ Bounded /\ [Next]_vars => Bounded'
  <2> SUFFICES ASSUME TypeOK, Bounded, [Next]_vars PROVE Bounded'
    OBVIOUS
  <2>0. Len(frames) \in Nat /\ EffectiveCapacity \in Nat
    BY EffectiveCapacityPositive, LenProperties DEF TypeOK
  <2>1. ASSUME NEW p \in Producers, TryPush(p) PROVE Bounded'
    <3>1. Len(frames') = Len(frames) + 1
      BY <2>1 DEF TypeOK, TryPush
    <3> QED BY <2>0, <2>1, <3>1 DEF TryPush, HasRoom, Bounded
  <2>2. ASSUME NEW maxFrames \in -1 .. EffectiveCapacity, Drain(maxFrames) PROVE Bounded'
    <3> DEFINE count == DrainCount(maxFrames)
    <3>1. count \in 0 .. Len(frames)
      BY EffectiveCapacityPositive, DrainCountInRange
    <3>2. Len(frames') <= Len(frames) /\ Len(frames') \in Nat
      BY <2>2, <3>1, SplitRejoins, LenProperties DEF Drain, TypeOK
    <3> QED BY <2>0, <3>2 DEF Bounded
  <2>3. CASE Close
    BY <2>0, <2>3, EffectiveCapacityPositive, EmptySeq DEF Close, Bounded
  <2>4. CASE UNCHANGED vars
    BY <2>4 DEF Bounded, vars
  <2> QED BY <2>1, <2>2, <2>3, <2>4 DEF Next
<1> QED BY <1>1, <1>2, TypeCorrect, PTL DEF Spec

\* Every accepted frame is drained exactly once and in order as long as the
\* mailbox is open, and nothing appears in a closed one.
THEOREM FramesNeverDropped == Spec => []NothingDropped
<1>1. Init => NothingDropped
  BY ConcatEmptySeq, EmptySeq DEF Init, NothingDropped
<1>2. TypeOK /\ NothingDropped /\ [Next]_vars => NothingDropped'
  <2> SUFFICES ASSUME TypeOK, NothingDropped, [Next]_vars PROVE NothingDropped'
    OBVIOUS
  <2> USE DEF NothingDropped
  <2>0. frames \in Seq(Frame) /\ drained \in Seq(Frame) /\ closed \in BOOLEAN
    BY DEF TypeOK
  <2>1. ASSUME NEW p \in Producers, TryPush(p) PROVE NothingDropped'
    <3> DEFINE frame == <<p, sent[p] + 1>>
    <3>1. frame \in Frame
      BY <2>1, MailboxAssumption DEF TypeOK, TryPush, Frame
    <3>2. Append(drained \o frames, frame) = drained \o Append(frames, frame)
      <4> HIDE DEF frame
      <4> QED BY <2>0, <3>1, AppendRight
    <3> QED BY <2>1, <3>2 DEF TryPush, HasRoom
  <2>2. ASSUME NEW maxFrames \in -1 .. EffectiveCapacity, Drain(maxFrames) PROVE NothingDropped'
    <3> DEFINE count == DrainCount(maxFrames)
               head == SubSeq(frames, 1, count)
               rest == SubSeq(frames, count + 1, Len(frames))
    <3>1. count \in 0 .. Len(frames)
      BY EffectiveCapacityPositive, DrainCountInRange
    <3>3. (drained \o head) \o rest = drained \o frames
      <4> HIDE DEF count
      <4> QED BY <2>0, <3>1, SplitRejoins
    <3>4. closed => count = 0
      BY <3>1, EmptySeq
    <3>5. /\ drained' = drained \o head /\ frames' = rest
          /\ closed' = closed /\ accepted' = accepted /\ count > 0
      BY <2>2 DEF Drain
    <3>6. ~closed
      BY <3>4, <3>5
    <3>7. drained' \o frames' = drained \o frames
      <4> HIDE DEF head, rest
      <4> QED BY <3>3, <3>5
    <3> QED BY <3>5, <3>6, <3>7
  <2>3. CASE Close
    BY <2>3 DEF Close
  <2>4. CASE UNCHANGED vars
    BY <2>4 DEF vars
  <2> QED BY <2>1, <2>2, <2>3, <2>4 DEF Next
<1> QED BY <1>1, <1>2, TypeCorrect, PTL DEF Spec

\* Both together, as the run checks them on a small instance.
THEOREM Soundness == Spec => []MailboxSound
BY CapacityRespected, FramesNeverDropped, PTL DEF MailboxSound
=============================================================================
