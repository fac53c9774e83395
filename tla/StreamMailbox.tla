---------------------------- MODULE StreamMailbox ----------------------------
(***************************************************************************)
(* RuntimeHostStreamMailbox (src/runtime_host_stream.v): the bounded       *)
(* host-to-runtime stream.  Producer threads call try_push(), the owning   *)
(* lane calls drain(), and either side may close().  Each call runs under  *)
(* the mailbox's mutex from its first line to its last, so each is one     *)
(* action.  A frame is the pair of its producer and its number: what the   *)
(* bytes are does not matter, which frame they are does.                   *)
(***************************************************************************)
EXTENDS Integers, Sequences

CONSTANTS
  Producers,    \* the threads that push
  Capacity,     \* the capacity the constructor was given, any integer
  FrameCount    \* bound: how many frames each producer has to send

ASSUME MailboxAssumption ==
  /\ Capacity \in Int
  /\ FrameCount \in Nat

VARIABLES
  frames,       \* state.frames
  closed,       \* state.closed
  sent,         \* how many frames of each producer were accepted
  accepted,     \* history: every frame a try_push returned true for
  drained       \* history: every frame a drain returned, in order

vars == <<frames, closed, sent, accepted, drained>>

\* new_runtime_host_stream_mailbox: a capacity below one becomes one.
EffectiveCapacity == IF Capacity < 1 THEN 1 ELSE Capacity

\* RuntimeHostStreamFrame: producer and number stand for the bytes.
Frame == Producers \X Nat

Init ==
  /\ frames = <<>>
  /\ closed = FALSE
  /\ sent = [p \in Producers |-> 0]
  /\ accepted = <<>>
  /\ drained = <<>>

\* Mutant of HasRoom: an off-by-one in the capacity test.
HasRoomOffByOne == ~closed /\ Len(frames) <= EffectiveCapacity

HasRoom == ~closed /\ Len(frames) < EffectiveCapacity

\* try_push that returns true.  A producer sends its frames in order and
\* retries the same frame after a false, as the contract asks of it; a
\* try_push that returns false changes nothing and is a stuttering step.
TryPush(p) ==
  /\ sent[p] < FrameCount
  /\ HasRoom
  /\ LET frame == <<p, sent[p] + 1>>
     IN  /\ frames' = Append(frames, frame)
         /\ accepted' = Append(accepted, frame)
  /\ sent' = [sent EXCEPT ![p] = @ + 1]
  /\ UNCHANGED <<closed, drained>>

\* Mutant of DrainCount: the last waiting frame is left behind.
DrainCountKeepsOne(maxFrames) ==
  IF maxFrames <= 0 \/ maxFrames >= Len(frames) THEN Len(frames) - 1 ELSE maxFrames

\* drain(maxFrames): the oldest maxFrames frames, or all of them when the
\* limit is not positive or exceeds what is there.
DrainCount(maxFrames) ==
  IF maxFrames <= 0 \/ maxFrames > Len(frames) THEN Len(frames) ELSE maxFrames

\* Mutant of Drain: the newest frames are deleted, not the ones returned.
DrainDeletesNewest(maxFrames) ==
  LET count == DrainCount(maxFrames)
  IN  /\ count > 0
      /\ drained' = drained \o SubSeq(frames, 1, count)
      /\ frames' = SubSeq(frames, 1, Len(frames) - count)
      /\ UNCHANGED <<closed, sent, accepted>>

Drain(maxFrames) ==
  LET count == DrainCount(maxFrames)
  IN  /\ count > 0
      /\ drained' = drained \o SubSeq(frames, 1, count)
      /\ frames' = SubSeq(frames, count + 1, Len(frames))
      /\ UNCHANGED <<closed, sent, accepted>>

\* close(): frames that were accepted and not drained yet are discarded.
Close ==
  /\ closed' = TRUE
  /\ frames' = <<>>
  /\ UNCHANGED <<sent, accepted, drained>>

Next ==
  \/ \E p \in Producers : TryPush(p)
  \/ \E maxFrames \in -1 .. EffectiveCapacity : Drain(maxFrames)
  \/ Close

\* The owner keeps draining and every producer keeps retrying; nobody is
\* obliged to close.
Fairness ==
  /\ WF_vars(\E maxFrames \in -1 .. EffectiveCapacity : Drain(maxFrames))
  /\ \A p \in Producers : WF_vars(TryPush(p))

Spec == Init /\ [][Next]_vars /\ Fairness

-----------------------------------------------------------------------------
TypeOK ==
  /\ frames \in Seq(Frame)
  /\ closed \in BOOLEAN
  /\ sent \in [Producers -> 0 .. FrameCount]
  /\ accepted \in Seq(Frame)
  /\ drained \in Seq(Frame)

\* The mailbox never holds more than its configured capacity, and a capacity
\* of zero or less still lets one frame through (runtime_host_stream.v:28,40).
Bounded == Len(frames) <= EffectiveCapacity

\* A frame that try_push accepted is never dropped, duplicated or overtaken
\* while the mailbox is open: what was drained, followed by what is waiting,
\* is exactly what was accepted (runtime_host_stream.v:43-60).  Once closed the
\* mailbox stays empty: no try_push slips a frame in behind the close for a
\* later drain to return (runtime_host_stream.v:40,73-78).
NothingDropped ==
  IF closed THEN frames = <<>> ELSE accepted = drained \o frames

\* Producers, drains and a close from another thread may interleave as they like.
MailboxSound == Bounded /\ NothingDropped

\* Backpressure ends: with a draining owner every frame of every producer is
\* delivered in the end, unless the mailbox is closed under it.
EveryFrameDelivered ==
  \A p \in Producers, n \in 1 .. FrameCount :
    <>(closed \/ \E i \in DOMAIN drained : drained[i] = <<p, n>>)
=============================================================================
