------------------------- MODULE SeekPipelineProofs -------------------------
(***************************************************************************)
(* Proofs about SeekPipeline, for every number of seeks, length of the     *)
(* file, depth of the codec and limit of the queues.                       *)
(***************************************************************************)
EXTENDS SeekPipeline, FiniteSetTheorems, SequenceTheorems, TLAPS

-----------------------------------------------------------------------------
(* The seeks under way: a seek that the control thread has yet to begin     *)
(* raises the serial by one, and comes after those before it.               *)

InHand == {"handle", "signal", "flushPackets", "flushFrames", "acknowledge"}

BatchInv ==
  /\ control \in InHand => batch # <<>>
  /\ control \in InHand \ {"handle"} => batch[1].type = "Seek"

\* The events in the batch that are still to be handled.
Unhandled == {i \in DOMAIN batch : i > 1 \/ control = "handle"}

GenerationInv ==
  /\ \A i \in DOMAIN events : events[i].type = "Seek" =>
       serial <= events[i].generation /\ events[i].generation <= latest
  /\ \A i \in DOMAIN batch : batch[i].type = "Seek" =>
       /\ batch[i].generation <= latest
       /\ i \in Unhandled => serial <= batch[i].generation
  /\ \A i, j \in DOMAIN events :
       i < j /\ events[i].type = "Seek" /\ events[j].type = "Seek" =>
         events[i].generation < events[j].generation
  /\ \A i, j \in DOMAIN batch :
       i < j /\ batch[i].type = "Seek" /\ batch[j].type = "Seek" =>
         batch[i].generation < batch[j].generation
  /\ \A i \in DOMAIN batch, j \in DOMAIN events :
       batch[i].type = "Seek" /\ events[j].type = "Seek" =>
         batch[i].generation < events[j].generation
  /\ serial <= latest + 1

-----------------------------------------------------------------------------
(* Who stands where.                                                       *)

\* The demuxer's serial is its seek's, but between claiming and seeking.
DemuxInv ==
  /\ claimed <= serial
  /\ seekPending <=> claimed # serial
  /\ IF demux \in {"uncancel", "seek"} THEN demuxSerial < claimed
                                       ELSE demuxSerial = claimed

\* The result of a seek comes when the demuxer stands where it goes.
Settled == demuxSerial = serial /\ demux \notin {"uncancel", "seek"}

Results(queue) == {i \in DOMAIN queue : queue[i].type = "Applied"}

AppliedInv ==
  /\ inFlight = 0 => Settled
  /\ \A i \in Results(events) :
       events[i].serial <= serial /\ (events[i].serial = serial => Settled)
  /\ \A i \in Results(batch) :
       batch[i].serial <= serial /\ (batch[i].serial = serial => Settled)

HandsInv ==
  /\ decode = "packet" => pending # Nothing
  /\ decode = "emit" <=> slot # 0
  /\ decode \in {"receive", "adopt", "acquire", "emit"} => decoderSerial # 0
  /\ present \in {"dropped", "taken"} => taken \in FramesIn(Slots)
  /\ present \in {"note", "complete"} => taken \in FramesIn({0})

-----------------------------------------------------------------------------
(* The pool.                                                               *)

Popped == present \in {"dropped", "taken"}

SlotsInUse ==
  Range(free) \cup {frames[i].slot : i \in DOMAIN frames}
    \cup (IF slot = 0 THEN {} ELSE {slot})
    \cup (IF Popped THEN {taken.slot} ELSE {})

NumberInUse ==
  Len(free) + Len(frames) + (IF slot = 0 THEN 0 ELSE 1)
    + (IF Popped THEN 1 ELSE 0)

PoolInv ==
  /\ NumberInUse <= FrameLimit + 1
  /\ ~framesAborted => NumberInUse = FrameLimit + 1 /\ SlotsInUse = Slots

-----------------------------------------------------------------------------
(* What was read for a serial.                                             *)

\* The content src is where the newest seek up to s went that found its place,
\* and no seek to come changes that.
Of(src, s) ==
  /\ src \in found
  /\ src <= s
  /\ s <= demuxSerial
  /\ \A t \in found : t <= s => t <= src

FoundInv ==
  /\ \A t \in found : t <= demuxSerial
  /\ Of(source, demuxSerial)

PacketsInv ==
  /\ \A i \in DOMAIN packets :
       packets[i].kind = "Data" => Of(packets[i].source, packets[i].serial)
  /\ pending # Nothing /\ pending.kind = "Data" =>
       Of(pending.source, pending.serial)

CodecInv ==
  /\ \A i \in DOMAIN codec : Of(codec[i], decoderSerial)
  /\ decode \in {"acquire", "emit"} => Of(decoded, decoderSerial)

FramesInv ==
  /\ \A i \in DOMAIN frames : Of(frames[i].source, frames[i].serial)
  /\ taken # Nothing => Of(taken.source, taken.serial)

ContentInv == FoundInv /\ PacketsInv /\ CodecInv /\ FramesInv

IInv ==
  /\ TypeOK
  /\ BatchInv /\ GenerationInv
  /\ DemuxInv /\ AppliedInv
  /\ HandsInv /\ PoolInv /\ ContentInv

-----------------------------------------------------------------------------
(* Sequences and numbers                                                   *)

\* The larger of two numbers.
LEMMA MaxOfTwo == ASSUME NEW a \in Int, NEW b \in Int
                  PROVE  Max({a, b}) \in {a, b} /\ Max({a, b}) >= a
                                               /\ Max({a, b}) >= b
<1> DEFINE IsMax(x) == x \in {a, b} /\ \A y \in {a, b} : x >= y
<1>1. \E x : IsMax(x)
  <2>1. CASE a >= b
    BY <2>1
  <2>2. CASE ~(a >= b)
    <3>1. IsMax(b)
      BY <2>2
    <3> QED
      BY <3>1
  <2> QED
    BY <2>1, <2>2
<1>2. Max({a, b}) = CHOOSE x : IsMax(x)
  BY DEF Max
<1>3. IsMax(Max({a, b}))
  BY <1>1, <1>2
<1> QED
  BY <1>3

\* What a queue has after an element was taken from its front.
LEMMA TailHas ==
  ASSUME NEW S, NEW s \in Seq(S), s # <<>>
  PROVE  /\ Head(s) = s[1] /\ 1 \in DOMAIN s
         /\ Tail(s) \in Seq(S) /\ Len(Tail(s)) = Len(s) - 1
         /\ \A i \in DOMAIN Tail(s) : i + 1 \in DOMAIN s /\ Tail(s)[i] = s[i + 1]
  OBVIOUS

\* What a queue has after an element was added at its end.
LEMMA AppendHas ==
  ASSUME NEW S, NEW s \in Seq(S), NEW e \in S
  PROVE  /\ Append(s, e) \in Seq(S) /\ Len(Append(s, e)) = Len(s) + 1
         /\ \A i \in DOMAIN Append(s, e) :
              \/ i \in DOMAIN s /\ Append(s, e)[i] = s[i]
              \/ i = Len(s) + 1 /\ Append(s, e)[i] = e
  OBVIOUS

LEMMA RangeOfTail ==
  ASSUME NEW S, NEW s \in Seq(S), s # <<>>
  PROVE  Range(s) = Range(Tail(s)) \cup {Head(s)}
<1>1. Range(s) \subseteq Range(Tail(s)) \cup {Head(s)}
  <2> SUFFICES ASSUME NEW i \in DOMAIN s, i # 1
               PROVE  s[i] \in Range(Tail(s))
    BY TailHas DEF Range
  <2>1. i - 1 \in DOMAIN Tail(s) /\ Tail(s)[i - 1] = s[i]
    BY TailHas
  <2> QED
    BY <2>1 DEF Range
<1>2. Range(Tail(s)) \cup {Head(s)} \subseteq Range(s)
  BY TailHas DEF Range
<1> QED
  BY <1>1, <1>2

LEMMA RangeOfAppend ==
  ASSUME NEW S, NEW s \in Seq(S), NEW e \in S
  PROVE  Range(Append(s, e)) = Range(s) \cup {e}
<1>1. Range(s) \cup {e} \subseteq Range(Append(s, e))
  <2>1. \A i \in DOMAIN s : i \in DOMAIN Append(s, e) /\ Append(s, e)[i] = s[i]
    OBVIOUS
  <2>2. Len(s) + 1 \in DOMAIN Append(s, e) /\ Append(s, e)[Len(s) + 1] = e
    OBVIOUS
  <2> QED
    BY <2>1, <2>2 DEF Range
<1>2. Range(Append(s, e)) \subseteq Range(s) \cup {e}
  BY AppendHas DEF Range
<1> QED
  BY <1>1, <1>2

\* The slots of a queue's frames, and a flush that puts them behind the free.
LEMMA SlotsOfFrames ==
  ASSUME NEW queue \in Seq(FramesIn(Slots))
  PROVE  /\ SlotsOf(queue) \in Seq(Slots)
         /\ Len(SlotsOf(queue)) = Len(queue)
         /\ Range(SlotsOf(queue)) = {queue[i].slot : i \in DOMAIN queue}
<1>1. \A i \in 1..Len(queue) : queue[i].slot \in Slots
  <2> SUFFICES ASSUME NEW i \in 1..Len(queue)
               PROVE  queue[i].slot \in Slots
    OBVIOUS
  <2>1. queue[i] \in FramesIn(Slots)
    OBVIOUS
  <2> QED
    BY <2>1 DEF FramesIn
<1>2. SlotsOf(queue) = [i \in 1..Len(queue) |-> queue[i].slot]
  BY DEF SlotsOf
<1> QED
  BY <1>1, <1>2 DEF Range

\* A flush gives every queued frame back to the pool.
LEMMA FlushKeepsSlots ==
  ASSUME NEW s, FlushFrames(s), frames \in Seq(FramesIn(Slots)),
         free \in Seq(Slots)
  PROVE  /\ frames' = <<>> /\ frameSerial' = s
         /\ free' \in Seq(Slots) /\ Len(free') = Len(free) + Len(frames)
         /\ Range(free') = Range(free) \cup {frames[i].slot : i \in DOMAIN frames}
<1>1. /\ SlotsOf(frames) \in Seq(Slots) /\ Len(SlotsOf(frames)) = Len(frames)
      /\ Range(SlotsOf(frames)) = {frames[i].slot : i \in DOMAIN frames}
  BY SlotsOfFrames
<1>2. /\ free \o SlotsOf(frames) \in Seq(Slots)
      /\ Len(free \o SlotsOf(frames)) = Len(free) + Len(SlotsOf(frames))
  BY <1>1, ConcatProperties
<1>3. Range(free \o SlotsOf(frames)) = Range(free) \cup Range(SlotsOf(frames))
  BY <1>1, RangeConcatenation
<1> QED
  BY <1>1, <1>2, <1>3 DEF FlushFrames

-----------------------------------------------------------------------------
(* The pool                                                                *)

\* Who touches the pool, and what every other step leaves alone.
LEMMA PoolMoves ==
  ASSUME [Next]_vars
  PROVE  \/ UNCHANGED <<frameQueue, slot, taken, present>>
         \/ ControlFlushesFrames \/ Join \/ AbortFrames \/ DemuxFlushesFrames
         \/ TakeFlush \/ FlushAdopted \/ AcquireFrame \/ DropDecoded \/ PushFrame
         \/ PresentNext
  BY DEF Next, vars, ControlNext, DemuxNext, DecodeNext,
         RequestSeek, RequestClose, TakeEvents, BeginTransition, Signal,
         ControlFlushesPackets, Acknowledge, ApplySeekResult, StopSignals,
         AbortPackets, Claim, Uncancel, SeekFile, DemuxFlushesPackets,
         PostApplied, CheckPending, ClearCommand, Read, PushPacket, PushEof,
         TakePacket, SendPacket, AdoptSerial, ReceiveFrame, Forget,
         frameQueue, output, decoder, demuxer, undemuxed, undecoded

LEMMA PoolStep ==
  ASSUME TypeOK, HandsInv, PoolInv, [Next]_vars
  PROVE  PoolInv'
<1> USE DEF TypeOK, QueueType
<1>0. /\ frames \in Seq(FramesIn(Slots)) /\ free \in Seq(Slots)
      /\ Len(frames) \in Nat /\ Len(free) \in Nat /\ FrameLimit \in Nat
      /\ 0 \notin Slots /\ framesAborted \in BOOLEAN
  BY ConstantsAssumption DEF ConstantsAssumption, Slots
<1>1. CASE UNCHANGED <<frameQueue, slot, taken, present>>
  BY <1>1 DEF PoolInv, NumberInUse, SlotsInUse, Popped, frameQueue
<1>2. ASSUME NEW s, FlushFrames(s), UNCHANGED <<slot, taken, present>>
      PROVE  PoolInv'
  <2>1. NumberInUse' = NumberInUse /\ SlotsInUse' = SlotsInUse
    BY <1>0, <1>2, FlushKeepsSlots DEF NumberInUse, SlotsInUse, Popped
  <2> QED
    BY <1>2, <2>1 DEF PoolInv, FlushFrames
<1>3. CASE ControlFlushesFrames
  BY <1>2, <1>3 DEF ControlFlushesFrames, decoder, output
<1>4. CASE Join
  BY <1>2, <1>4 DEF Join, decoder, output
<1>5. CASE DemuxFlushesFrames
  BY <1>2, <1>5 DEF DemuxFlushesFrames, undemuxed, decoder, output
<1>6. CASE TakeFlush
  BY <1>2, <1>6 DEF TakeFlush, Forget, undecoded, output
<1>7. CASE FlushAdopted
  BY <1>2, <1>7 DEF FlushAdopted, undecoded, output
<1>8. CASE AbortFrames
  BY <1>8 DEF AbortFrames, PoolInv, NumberInUse, Popped, decoder, output
<1>9. CASE AcquireFrame
  <2>1. CASE UNCHANGED <<slot, free>>
    BY <1>9, <2>1
       DEF AcquireFrame, PoolInv, NumberInUse, SlotsInUse, Popped, undecoded, output
  <2>2. CASE free # <<>> /\ slot' = Head(free) /\ free' = Tail(free)
    <3>1. slot = 0 /\ slot' \in Slots /\ UNCHANGED <<frames, framesAborted, taken, present>>
      BY <1>0, <1>9, <2>2 DEF AcquireFrame, HandsInv, undecoded, output
    <3>2. Len(free') = Len(free) - 1 /\ Range(free) = Range(free') \cup {slot'}
      BY <1>0, <2>2, RangeOfTail
    <3>3. NumberInUse' = NumberInUse
      BY <1>0, <3>1, <3>2 DEF NumberInUse, Popped
    <3>4. SlotsInUse' = SlotsInUse
      BY <1>0, <3>1, <3>2 DEF SlotsInUse, Popped
    <3> QED
      BY <3>1, <3>3, <3>4 DEF PoolInv
  <2> QED
    BY <1>9, <2>1, <2>2 DEF AcquireFrame, HasRoom
<1>10. ASSUME decode = "emit", free' = Append(free, slot), slot' = 0,
              UNCHANGED <<frames, framesAborted, taken, present>>
       PROVE  PoolInv'
  <2>1. slot # 0 /\ slot \in Slots
    BY <1>10 DEF HandsInv, DecoderType
  <2>2. Len(free') = Len(free) + 1 /\ Range(free') = Range(free) \cup {slot}
    BY <1>0, <1>10, <2>1, RangeOfAppend
  <2>3. NumberInUse' = NumberInUse
    BY <1>0, <1>10, <2>1, <2>2 DEF NumberInUse, Popped
  <2>4. SlotsInUse' = SlotsInUse
    BY <1>0, <1>10, <2>1, <2>2 DEF SlotsInUse, Popped
  <2> QED
    BY <1>10, <2>3, <2>4 DEF PoolInv
<1>11. CASE DropDecoded
  BY <1>10, <1>11 DEF DropDecoded, Release, undecoded, output
<1>12. CASE PushFrame
  <2> DEFINE new == [kind |-> "Frame", slot |-> slot, serial |-> decoderSerial,
                     source |-> decoded]
  <2>0. decode = "emit" /\ slot' = 0 /\ slot # 0 /\ slot \in Slots
        /\ UNCHANGED <<framesAborted, taken, present>>
    BY <1>12 DEF PushFrame, HandsInv, DecoderType, undecoded, output
  <2>1. CASE framesAborted /\ UNCHANGED <<frames, free>>
    BY <1>0, <2>0, <2>1 DEF PoolInv, NumberInUse, Popped
  <2>2. CASE free' = Append(free, slot) /\ UNCHANGED frames
    BY <1>10, <2>0, <2>2
  <2>3. CASE frames' = Append(frames, new) /\ UNCHANGED free
    <3>1. /\ Len(frames') = Len(frames) + 1
          /\ \A i \in DOMAIN frames : i \in DOMAIN frames' /\ frames'[i] = frames[i]
          /\ Len(frames) + 1 \in DOMAIN frames' /\ frames'[Len(frames) + 1] = new
          /\ \A i \in DOMAIN frames' : i \in DOMAIN frames \/ i = Len(frames) + 1
      BY <1>0, <2>3
    <3>2. {frames'[i].slot : i \in DOMAIN frames'}
            = {frames[i].slot : i \in DOMAIN frames} \cup {slot}
      <4>1. new.slot = slot
        OBVIOUS
      <4> QED
        BY <3>1, <4>1
    <3>3. NumberInUse' = NumberInUse
      BY <1>0, <2>0, <2>3, <3>1 DEF NumberInUse, Popped
    <3>4. SlotsInUse' = SlotsInUse
      BY <2>0, <2>3, <3>2 DEF SlotsInUse, Popped
    <3> QED
      BY <2>0, <3>3, <3>4 DEF PoolInv
  <2> QED
    BY <1>12, <2>1, <2>2, <2>3 DEF PushFrame
<1>13. CASE PresentNext
  <2>0. UNCHANGED <<slot, framesAborted>>
    BY <1>13 DEF PresentNext, ReadSerial, PeekFrame, PopFrame, ReleaseFrame,
                 NotePosition, CompletePresentation, unshown, decoder
  <2>1. CASE Popped' = Popped /\ ~Popped /\ UNCHANGED <<frames, free>>
    BY <2>0, <2>1 DEF PoolInv, NumberInUse, SlotsInUse
  <2>2. CASE PopFrame
    <3>1. CASE frames = <<>>
      BY <2>1, <2>2, <3>1 DEF PopFrame, Popped
    <3>2. CASE frames # <<>>
      <4>1. /\ ~Popped /\ Popped' /\ taken' = frames[1]
            /\ frames' = Tail(frames) /\ UNCHANGED free
        BY <1>0, <2>2, <3>2 DEF PopFrame, Popped
      <4>2. /\ 1 \in DOMAIN frames /\ Len(frames') = Len(frames) - 1
            /\ \A i \in DOMAIN frames' :
                 i + 1 \in DOMAIN frames /\ frames'[i] = frames[i + 1]
            /\ \A i \in DOMAIN frames : i # 1 => i - 1 \in DOMAIN frames'
                                                 /\ frames[i] = frames'[i - 1]
        BY <1>0, <3>2, <4>1
      <4>3. {frames[i].slot : i \in DOMAIN frames}
              = {frames'[i].slot : i \in DOMAIN frames'} \cup {taken'.slot}
        <5>1. ASSUME NEW i \in DOMAIN frames
              PROVE  frames[i].slot \in {frames'[j].slot : j \in DOMAIN frames'}
                                         \cup {taken'.slot}
          BY <4>1, <4>2
        <5>2. ASSUME NEW j \in DOMAIN frames'
              PROVE  frames'[j].slot \in {frames[i].slot : i \in DOMAIN frames}
          BY <4>2
        <5>3. taken'.slot \in {frames[i].slot : i \in DOMAIN frames}
          BY <4>1, <4>2
        <5> QED
          BY <5>1, <5>2, <5>3
      <4>4. NumberInUse' = NumberInUse
        <5>1. Len(frames') + 1 = Len(frames) /\ Len(frames') \in Int
          BY <1>0, <4>2
        <5>2. NumberInUse = Len(free) + Len(frames) + (IF slot = 0 THEN 0 ELSE 1)
          BY <1>0, <4>1 DEF NumberInUse
        <5>3. NumberInUse' = Len(free) + Len(frames') + (IF slot = 0 THEN 0 ELSE 1) + 1
          BY <2>0, <4>1 DEF NumberInUse
        <5> QED
          BY <1>0, <5>1, <5>2, <5>3
      <4>5. SlotsInUse' = SlotsInUse
        BY <2>0, <4>1, <4>3 DEF SlotsInUse
      <4> QED
        BY <2>0, <4>4, <4>5 DEF PoolInv
    <3> QED
      BY <3>1, <3>2
  <2>3. CASE ReleaseFrame
    <3>1. Popped /\ ~Popped' /\ free' = Append(free, taken.slot) /\ UNCHANGED frames
      BY <2>3 DEF ReleaseFrame, Popped
    <3>2. taken.slot \in Slots
      BY <3>1 DEF HandsInv, Popped, FramesIn
    <3>3. Len(free') = Len(free) + 1 /\ Range(free') = Range(free) \cup {taken.slot}
      BY <1>0, <3>1, <3>2, RangeOfAppend
    <3>4. NumberInUse' = NumberInUse
      BY <1>0, <2>0, <3>1, <3>3 DEF NumberInUse
    <3>5. SlotsInUse' = SlotsInUse
      BY <2>0, <3>1, <3>3 DEF SlotsInUse
    <3> QED
      BY <2>0, <3>4, <3>5 DEF PoolInv
  <2>4. CASE ReadSerial \/ PeekFrame \/ NotePosition \/ CompletePresentation
    BY <2>1, <2>4 DEF ReadSerial, PeekFrame, NotePosition, CompletePresentation,
                      Popped
  <2> QED
    BY <1>13, <2>2, <2>3, <2>4 DEF PresentNext
<1> QED
  BY <1>1, <1>3, <1>4, <1>5, <1>6, <1>7, <1>8, <1>9, <1>11, <1>12, <1>13, PoolMoves

-----------------------------------------------------------------------------
(* What the threads have in their hands                                    *)

\* A frame whose slot was given back keeps what it showed.
LEMMA EmptiedFrame ==
  ASSUME NEW f \in FramesIn(Slots)
  PROVE  /\ [f EXCEPT !.slot = 0] \in FramesIn({0})
         /\ [f EXCEPT !.slot = 0].source = f.source
         /\ [f EXCEPT !.slot = 0].serial = f.serial
BY DEF FramesIn

\* Nothing is neither a packet nor a frame.
LEMMA NothingIsElse ==
  Nothing \notin Packet /\ Nothing \notin FramesIn(Slots \cup {0})
BY DEF Nothing, Packet, FramesIn

LEMMA HandsMoves ==
  ASSUME [Next]_vars
  PROVE  UNCHANGED <<decoder, present, taken>> \/ DecodeNext \/ PresentNext
  BY DEF Next, vars, ControlNext, DemuxNext,
         RequestSeek, RequestClose, TakeEvents, BeginTransition, Signal,
         ControlFlushesPackets, ControlFlushesFrames, Acknowledge,
         ApplySeekResult, StopSignals, AbortPackets, AbortFrames, Join, Claim,
         Uncancel, SeekFile, DemuxFlushesPackets, DemuxFlushesFrames,
         PostApplied, CheckPending, ClearCommand, Read, PushPacket, PushEof,
         output, undemuxed

LEMMA HandsStep ==
  ASSUME TypeOK, HandsInv, [Next]_vars
  PROVE  HandsInv'
<1> USE DEF HandsInv
<1>0. /\ decode = "packet" => pending \in Packet
      /\ 0 \notin Slots /\ 0 \notin Serials /\ serial \in Serials
      /\ \A p \in Packet : p.serial \in Serials
  BY ConstantsAssumption
     DEF TypeOK, DecoderType, ControllerType, Slots, Serials, Packet,
         ConstantsAssumption
<1>1. CASE UNCHANGED <<decoder, present, taken>>
  BY <1>1 DEF decoder
<1>2. CASE DecodeNext
  <2>1. CASE TakePacket
    <3>1. packets # <<>> => Head(packets) # Nothing
      <4> SUFFICES ASSUME packets # <<>> PROVE Head(packets) \in Packet
        BY NothingIsElse
      <4>1. packets \in Seq(Packet)
        BY DEF TypeOK, QueueType
      <4> QED
        BY <4>1
    <3> QED
      BY <2>1, <3>1 DEF TakePacket, undecoded, output
  <2>2. CASE TakeFlush
    BY <2>2 DEF TakeFlush, Forget, undecoded, output
  <2>3. CASE SendPacket
    BY <1>0, <2>3 DEF SendPacket, undecoded, output
  <2>4. CASE AdoptSerial
    BY <1>0, <2>4 DEF AdoptSerial, Forget, undecoded, output
  <2>5. CASE FlushAdopted
    BY <2>5 DEF FlushAdopted, undecoded, output
  <2>6. CASE ReceiveFrame
    BY <2>6 DEF ReceiveFrame, undecoded, output
  <2>7. CASE AcquireFrame
    <3>1. free # <<>> => Head(free) \in Slots
      BY DEF TypeOK, QueueType
    <3> QED
      BY <1>0, <2>7, <3>1 DEF AcquireFrame, HasRoom, undecoded, output
  <2>8. CASE DropDecoded
    BY <2>8 DEF DropDecoded, undecoded, output
  <2>9. CASE PushFrame
    BY <2>9 DEF PushFrame, undecoded, output
  <2> QED
    BY <1>2, <2>1, <2>2, <2>3, <2>4, <2>5, <2>6, <2>7, <2>8, <2>9 DEF DecodeNext
<1>3. CASE PresentNext
  <2>0. UNCHANGED decoder
    BY <1>3 DEF PresentNext, ReadSerial, PeekFrame, PopFrame, ReleaseFrame,
                NotePosition, CompletePresentation, unshown
  <2>1. CASE PopFrame
    <3>1. frames # <<>> => Head(frames) \in FramesIn(Slots)
      BY DEF TypeOK, QueueType
    <3> QED
      BY <2>0, <2>1, <3>1 DEF PopFrame, decoder
  <2>2. CASE ReleaseFrame
    BY <2>0, <2>2, EmptiedFrame DEF ReleaseFrame, decoder
  <2>3. CASE ReadSerial \/ PeekFrame \/ NotePosition \/ CompletePresentation
    BY <2>0, <2>3
       DEF ReadSerial, PeekFrame, NotePosition, CompletePresentation, decoder
  <2> QED
    BY <1>3, <2>1, <2>2, <2>3 DEF PresentNext
<1> QED
  BY <1>1, <1>2, <1>3, HandsMoves

-----------------------------------------------------------------------------
(* Serials                                                                 *)

\* What an event carries.
LEMMA EventHas ==
  ASSUME NEW e \in Event
  PROVE  /\ e.type \in {"Seek", "Applied"}
         /\ e.type = "Seek" => e.generation \in 1..MaxSeeks
         /\ e.type = "Applied" => e.serial \in Serials /\ e.failed \in BOOLEAN
BY DEF Event

\* A new event comes last, where it may replace another.
LEMMA EnqueueHas ==
  ASSUME NEW e \in Event, events \in Seq(Event), Enqueue(e)
  PROVE  /\ events' \in Seq(Event)
         /\ \A i \in DOMAIN events' :
              \/ i \in DOMAIN events /\ events'[i] = events[i]
              \/ events'[i] = e /\ \A j \in DOMAIN events' : j <= i
<1>1. CASE events' = Append(events, e)
  <2>1. DOMAIN events' = 1..Len(events) + 1 /\ DOMAIN events = 1..Len(events)
    BY <1>1
  <2> QED
    BY <1>1, <2>1, AppendHas
<1>2. CASE Len(events) > 0 /\ events' = [events EXCEPT ![Len(events)] = e]
  <2>1. DOMAIN events' = 1..Len(events) /\ DOMAIN events = 1..Len(events)
    BY <1>2
  <2> QED
    BY <1>2, <2>1
<1> QED
  BY <1>1, <1>2 DEF Enqueue

LEMMA SerialMoves ==
  ASSUME [Next]_vars
  PROVE  \/ UNCHANGED <<serial, seekPending, inFlight, events, batch, control,
                        demux, demuxSerial, claimed, latest>>
         \/ RequestSeek \/ ControlNext \/ DemuxNext
  BY DEF Next, vars, DecodeNext, PresentNext, RequestClose, TakePacket, TakeFlush,
         SendPacket, AdoptSerial, FlushAdopted, ReceiveFrame, AcquireFrame,
         DropDecoded, PushFrame, ReadSerial, PeekFrame, PopFrame, ReleaseFrame,
         NotePosition, CompletePresentation, requests, controller, demuxer,
         undecoded, unshown

LEMMA DemuxStep ==
  ASSUME TypeOK, DemuxInv, [Next]_vars
  PROVE  DemuxInv'
<1> USE DEF DemuxInv
<1>0. {serial, claimed, demuxSerial} \subseteq Int
  BY ConstantsAssumption
     DEF TypeOK, ControllerType, DemuxerType, Serials, ConstantsAssumption
<1>1. CASE UNCHANGED <<serial, seekPending, inFlight, events, batch, control,
                       demux, demuxSerial, claimed, latest>>
  BY <1>1
<1>2. CASE RequestSeek
  BY <1>2 DEF RequestSeek, controller, demuxer
<1>3. CASE ControlNext
  <2>1. CASE BeginTransition
    BY <1>0, <2>1 DEF BeginTransition, controller, demuxer
  <2>2. CASE ~BeginTransition
    BY <1>3, <2>2
       DEF ControlNext, TakeEvents, Signal, ControlFlushesPackets,
           ControlFlushesFrames, Acknowledge, ApplySeekResult, StopSignals,
           AbortPackets, AbortFrames, Join, controller, demuxer
  <2> QED
    BY <2>1, <2>2
<1>4. CASE DemuxNext
  <2>1. CASE Claim
    BY <1>0, <2>1 DEF Claim
  <2>2. CASE SeekFile
    BY <1>0, <2>2 DEF SeekFile, controller
  <2>3. CASE ~Claim /\ ~SeekFile
    BY <1>4, <2>3
       DEF DemuxNext, Uncancel, DemuxFlushesPackets, DemuxFlushesFrames,
           PostApplied, CheckPending, ClearCommand, Read, PushPacket, PushEof,
           controller
  <2> QED
    BY <2>1, <2>2, <2>3
<1> QED
  BY <1>1, <1>2, <1>3, <1>4, SerialMoves

\* A result among the first of a batch or at the end of the events.
LEMMA AppliedStep ==
  ASSUME TypeOK, BatchInv, DemuxInv, AppliedInv, [Next]_vars
  PROVE  AppliedInv'
<1> USE DEF Results
<1>0. /\ {serial, claimed, demuxSerial, inFlight} \subseteq Int
      /\ serial >= 1 /\ serial + 1 # 0
      /\ events \in Seq(Event) /\ batch \in Seq(Event)
  BY ConstantsAssumption, SMTT(20)
     DEF TypeOK, RequestType, ControllerType, DemuxerType, Serials,
         ConstantsAssumption
<1>1. CASE UNCHANGED <<serial, seekPending, inFlight, events, batch, control,
                       demux, demuxSerial, claimed, latest>>
  BY <1>1 DEF AppliedInv, Settled
<1>2. CASE RequestSeek
  <2> DEFINE new == [type |-> "Seek", generation |-> latest + 1]
  <2>1. UNCHANGED <<serial, inFlight, batch, demux, demuxSerial>> /\ Enqueue(new)
    BY <1>2 DEF RequestSeek, controller, demuxer
  <2>2. new \in Event /\ new.type = "Seek"
    BY <1>2, ConstantsAssumption
       DEF RequestSeek, Event, TypeOK, RequestType, ConstantsAssumption
  <2>3. \A i \in DOMAIN events' : events'[i].type = "Applied" =>
          i \in DOMAIN events /\ events'[i] = events[i]
    BY <1>0, <2>1, <2>2, EnqueueHas
  <2> QED
    BY <2>1, <2>3 DEF AppliedInv, Settled
<1>3. CASE ControlNext
  <2>0. UNCHANGED <<demux, demuxSerial, claimed>>
    BY <1>3 DEF ControlNext, TakeEvents, BeginTransition, Signal,
           ControlFlushesPackets,
           ControlFlushesFrames, Acknowledge, ApplySeekResult, StopSignals,
           AbortPackets, AbortFrames, Join, demuxer
  <2>1. CASE TakeEvents
    BY <2>0, <2>1 DEF TakeEvents, AppliedInv, Settled, controller
  <2>2. CASE BeginTransition
    <3>1. CASE running
      <4>1. \A i \in Results(events) : events[i].serial \in Int
        BY <1>0, EventHas DEF Serials
      <4>2. \A i \in Results(batch) : batch[i].serial \in Int
        BY <1>0, EventHas DEF Serials
      <4>3. serial' = serial + 1 /\ inFlight' = serial + 1 /\ UNCHANGED <<events, batch>>
        BY <2>2, <3>1 DEF BeginTransition, requests
      <4> QED
        BY <1>0, <4>1, <4>2, <4>3 DEF AppliedInv
    <3>2. CASE ~running
      BY <2>0, <2>2, <3>2
         DEF BeginTransition, requests, controller, AppliedInv, Settled
    <3> QED
      BY <3>1, <3>2
  <2>3. CASE Acknowledge \/ ApplySeekResult
    <3>1. /\ batch # <<>> /\ batch' = Tail(batch)
          /\ UNCHANGED <<serial, events>>
      BY <2>3 DEF Acknowledge, ApplySeekResult, AfterEvent, BatchInv, InHand,
                  controller, requests
    <3>2. \A i \in DOMAIN batch' : i + 1 \in DOMAIN batch /\ batch'[i] = batch[i + 1]
      BY <1>0, <3>1, TailHas
    <3>3. inFlight' = inFlight \/ Settled
      <4>1. CASE Acknowledge
        BY <4>1 DEF Acknowledge, controller
      <4>2. CASE ApplySeekResult
        <5>1. CASE Head(batch).serial = serial
          <6>1. 1 \in DOMAIN batch /\ batch[1] = Head(batch)
            BY <1>0, <3>1
          <6>2. 1 \in Results(batch) /\ batch[1].serial = serial
            BY <4>2, <5>1, <6>1 DEF ApplySeekResult
          <6> QED
            BY <6>2 DEF AppliedInv
        <5>2. CASE Head(batch).serial # serial
          BY <4>2, <5>2 DEF ApplySeekResult
        <5> QED
          BY <5>1, <5>2
      <4> QED
        BY <2>3, <4>1, <4>2
    <3> QED
      BY <2>0, <3>1, <3>2, <3>3 DEF AppliedInv, Settled
  <2>4. CASE \/ Signal \/ ControlFlushesPackets \/ ControlFlushesFrames
             \/ StopSignals \/ AbortPackets \/ AbortFrames \/ Join
    BY <2>0, <2>4
       DEF Signal, ControlFlushesPackets, ControlFlushesFrames, StopSignals,
           AbortPackets, AbortFrames, Join, requests, controller, AppliedInv,
           Settled
  <2> QED
    BY <1>3, <2>1, <2>2, <2>3, <2>4 DEF ControlNext
<1>4. CASE DemuxNext
  <2>0. UNCHANGED <<serial, inFlight, batch>>
    BY <1>4 DEF DemuxNext, Claim, Uncancel, SeekFile, DemuxFlushesPackets,
           DemuxFlushesFrames, PostApplied, CheckPending, ClearCommand, Read,
           PushPacket, PushEof, undemuxed, controller
  <2>1. CASE PostApplied
    <3> DEFINE new == [type |-> "Applied", serial |-> claimed,
                       failed |-> claimed \notin found]
    <3>1. /\ Enqueue(new) /\ demux = "post" /\ demux' = "applied"
          /\ UNCHANGED demuxSerial
      BY <2>1 DEF PostApplied
    <3>2. new \in Event
      BY DEF Event, TypeOK, DemuxerType
    <3>3. new.serial = claimed /\ demuxSerial = claimed /\ claimed <= serial
      BY <3>1 DEF DemuxInv
    <3>4. Settled => Settled'
      BY <2>0, <3>1 DEF Settled
    <3>5. \A i \in DOMAIN events' :
            \/ i \in DOMAIN events /\ events'[i] = events[i]
            \/ events'[i] = new
      BY <1>0, <3>1, <3>2, EnqueueHas
    <3>6. claimed = serial => Settled'
      BY <2>0, <3>1, <3>3 DEF Settled
    <3> HIDE DEF new
    <3>7. \A i \in DOMAIN events' : events'[i].type = "Applied" =>
            events'[i].serial <= serial /\ (events'[i].serial = serial => Settled')
      BY <3>3, <3>4, <3>5, <3>6 DEF AppliedInv
    <3> QED
      BY <2>0, <3>4, <3>7 DEF AppliedInv
  <2>2. CASE ~PostApplied
    <3>1. UNCHANGED events
      BY <1>4, <2>2
         DEF DemuxNext, Claim, Uncancel, SeekFile, DemuxFlushesPackets,
             DemuxFlushesFrames, CheckPending, ClearCommand, Read, PushPacket,
             PushEof
    <3>2. Settled => Settled'
      <4>1. CASE Claim
        BY <1>0, <4>1 DEF Claim, DemuxInv, Settled
      <4>2. CASE ~Claim
        BY <1>4, <2>0, <2>2, <4>2
           DEF DemuxNext, Uncancel, SeekFile, DemuxFlushesPackets,
               DemuxFlushesFrames, CheckPending, ClearCommand, Read, PushPacket,
               PushEof, Settled
      <4> QED
        BY <4>1, <4>2
    <3> QED
      BY <2>0, <3>1, <3>2 DEF AppliedInv
  <2> QED
    BY <2>1, <2>2
<1> QED
  BY <1>1, <1>2, <1>3, <1>4, SerialMoves

-----------------------------------------------------------------------------
(* What is read, decoded and shown                                         *)

LEMMA ContentMoves ==
  ASSUME [Next]_vars
  PROVE  \/ UNCHANGED <<found, demuxSerial, source, packets, pending, codec,
                        decoderSerial, decode, decoded, frames, taken>>
         \/ ControlFlushesPackets \/ ControlFlushesFrames \/ Join
         \/ SeekFile \/ DemuxFlushesPackets \/ DemuxFlushesFrames
         \/ PushPacket \/ PushEof
         \/ DecodeNext \/ PopFrame \/ ReleaseFrame \/ CompletePresentation
  BY DEF Next, vars, ControlNext, DemuxNext, PresentNext, RequestSeek,
         RequestClose, TakeEvents, BeginTransition, Signal, Acknowledge,
         ApplySeekResult, StopSignals, AbortPackets, AbortFrames, Claim,
         Uncancel, PostApplied, CheckPending, ClearCommand, Read, ReadSerial,
         PeekFrame, NotePosition, packetQueue, frameQueue, demuxer, decoder,
         output, undemuxed, unshown

\* A seek that the file carries out is newer than all that was read before.
LEMMA ContentStays ==
  ASSUME TypeOK, DemuxInv, ContentInv,
         SeekFile \/ UNCHANGED <<found, demuxSerial>>
  PROVE  \A src, s \in Int : Of(src, s) => Of(src, s)'
<1>0. {claimed, demuxSerial} \subseteq Int /\ found \subseteq Int
  BY ConstantsAssumption DEF TypeOK, DemuxerType, Serials, ConstantsAssumption
<1>1. CASE UNCHANGED <<found, demuxSerial>>
  BY <1>1 DEF Of
<1>2. CASE SeekFile
  <2>1. /\ demuxSerial' = claimed /\ demuxSerial < claimed
        /\ found \subseteq found' /\ found' \subseteq found \cup {claimed}
    BY <1>2 DEF SeekFile, DemuxInv
  <2> QED
    BY <1>0, <2>1 DEF Of
<1> QED
  BY <1>1, <1>2

\* The types of what is read, queued, decoded and held.
LEMMA ContentTypes ==
  ASSUME TypeOK
  PROVE  /\ 0 \notin Serials /\ Serials \subseteq Int
         /\ found \subseteq Serials
         /\ {claimed, demuxSerial, source} \subseteq Serials
         /\ {decoderSerial, decoded} \subseteq Int
         /\ packets \in Seq(Packet) /\ frames \in Seq(FramesIn(Slots))
         /\ codec \in Seq(Serials)
         /\ \A i \in DOMAIN frames : frames[i] \in FramesIn(Slots \cup {0})
         /\ \A i \in DOMAIN codec : codec[i] \in Serials
         /\ pending # Nothing => pending \in Packet
         /\ taken # Nothing => taken \in FramesIn(Slots \cup {0})
         /\ \A p \in Packet : p.source \in Int /\ p.serial \in Serials
         /\ \A f \in FramesIn(Slots \cup {0}) : f.source \in Int /\ f.serial \in Int
<1>1. 0 \notin Serials /\ Serials \subseteq Int /\ Serials \cup {0} \subseteq Int
  BY ConstantsAssumption DEF Serials, ConstantsAssumption
<1>2. \A p \in Packet : p.source \in Int /\ p.serial \in Serials
  <2>1. \A p \in Packet : p.source \in Serials \cup {0} /\ p.serial \in Serials
    BY DEF Packet
  <2> QED
    BY <1>1, <2>1
<1>3. \A f \in FramesIn(Slots \cup {0}) : f.source \in Int /\ f.serial \in Int
  BY <1>1 DEF FramesIn
<1>4. {decoderSerial, decoded} \subseteq Int
  <2>1. {decoderSerial, decoded} \subseteq Serials \cup {0}
    BY DEF TypeOK, DecoderType
  <2> QED
    BY <1>1, <2>1
<1>5. \A i \in DOMAIN frames : frames[i] \in FramesIn(Slots \cup {0})
  <2>1. FramesIn(Slots) \subseteq FramesIn(Slots \cup {0})
    BY DEF FramesIn
  <2>2. frames \in Seq(FramesIn(Slots))
    BY DEF TypeOK, QueueType
  <2>3. \A i \in DOMAIN frames : frames[i] \in FramesIn(Slots)
    BY <2>2
  <2> QED
    BY <2>1, <2>3
<1>6. codec \in Seq(Serials)
  BY DEF TypeOK, DecoderType
<1>7. \A i \in DOMAIN codec : codec[i] \in Serials
  BY <1>6
<1> QED
  BY <1>1, <1>2, <1>3, <1>4, <1>5, <1>6, <1>7
     DEF TypeOK, QueueType, DemuxerType, DecoderType, OutputType

LEMMA ContentSought ==
  ASSUME TypeOK, DemuxInv, ContentInv, SeekFile
  PROVE  ContentInv'
<1>0. /\ demuxSerial' = claimed /\ demuxSerial < claimed
      /\ \/ source' = claimed /\ found' = found \cup {claimed}
         \/ UNCHANGED <<source, found>>
      /\ UNCHANGED <<packets, pending, codec, decoderSerial, decode, decoded,
                     frames, taken>>
  BY DEF SeekFile, DemuxInv, undemuxed, packetQueue, frameQueue, decoder, output
<1>1. \A src, s \in Int : Of(src, s) => Of(src, s)'
  BY ContentStays
<1>2. FoundInv'
  <2>1. /\ found \subseteq Int /\ {claimed, demuxSerial, source} \subseteq Int
    BY ContentTypes
  <2>2. source \in found /\ \A t \in found : t <= demuxSerial /\ t <= source
    BY <2>1 DEF ContentInv, FoundInv, Of
  <2>3. source <= claimed /\ \A t \in found : t <= claimed
    BY <1>0, <2>1, <2>2
  <2>4. CASE source' = claimed /\ found' = found \cup {claimed}
    BY <1>0, <2>1, <2>3, <2>4 DEF FoundInv, Of
  <2>5. CASE UNCHANGED <<source, found>>
    BY <1>0, <2>1, <2>2, <2>3, <2>5 DEF FoundInv, Of
  <2> QED
    BY <1>0, <2>4, <2>5
<1>3. PacketsInv'
  <2>1. ASSUME NEW i \in DOMAIN packets, packets[i].kind = "Data"
        PROVE  Of(packets[i].source, packets[i].serial)'
    <3>1. packets[i] \in Packet
      BY ContentTypes
    <3> QED
      BY <1>0, <1>1, <2>1, <3>1, ContentTypes DEF ContentInv, PacketsInv
  <2> QED
    BY <1>0, <1>1, <2>1, ContentTypes DEF ContentInv, PacketsInv
<1>4. CodecInv'
  BY <1>0, <1>1, ContentTypes DEF ContentInv, CodecInv
<1>5. FramesInv'
  BY <1>0, <1>1, ContentTypes DEF ContentInv, FramesInv
<1> QED
  BY <1>2, <1>3, <1>4, <1>5 DEF ContentInv

\* Flushes and pushes: what is queued is of the seek the demuxer stands at.
LEMMA ContentQueued ==
  ASSUME TypeOK, ContentInv,
         \/ ControlFlushesPackets \/ ControlFlushesFrames \/ Join
         \/ DemuxFlushesPackets \/ DemuxFlushesFrames \/ PushPacket \/ PushEof
  PROVE  ContentInv'
<1>0. UNCHANGED <<found, demuxSerial, source, pending, codec, decoderSerial,
                  decode, decoded, taken>>
  BY DEF ControlFlushesPackets, ControlFlushesFrames, Join, DemuxFlushesPackets,
         DemuxFlushesFrames, PushPacket, PushEof, demuxer, decoder, output,
         undemuxed
<1>1. \A src, s : Of(src, s)' = Of(src, s)
  BY <1>0 DEF Of
<1>2. FoundInv' /\ CodecInv'
  BY <1>0, <1>1 DEF ContentInv, FoundInv, CodecInv
<1>3. ASSUME frames' \in {frames, <<>>} PROVE FramesInv'
  BY <1>0, <1>1, <1>3 DEF ContentInv, FramesInv
<1>4. ASSUME NEW p \in Packet, p.kind = "Data" => Of(p.source, p.serial),
             packets' \in {<<>>, <<p>>, packets, Append(packets, p)}
      PROVE  PacketsInv'
  <2>1. \A i \in DOMAIN Append(packets, p) :
          \/ i \in DOMAIN packets /\ Append(packets, p)[i] = packets[i]
          \/ Append(packets, p)[i] = p
    BY ContentTypes, AppendHas
  <2> QED
    BY <1>0, <1>1, <1>4, <2>1 DEF ContentInv, PacketsInv
<1>5. CASE ControlFlushesPackets \/ DemuxFlushesPackets
  <2>1. PICK s \in Serials : packets' = <<FlushMark(s)>> /\ UNCHANGED frames
    BY <1>5, ContentTypes
       DEF ControlFlushesPackets, DemuxFlushesPackets, FlushPackets, frameQueue,
           undemuxed, TypeOK, ControllerType, DemuxerType
  <2>2. FlushMark(s) \in Packet /\ FlushMark(s).kind = "Flush"
    BY DEF FlushMark, Packet
  <2> QED
    BY <1>2, <1>3, <1>4, <2>1, <2>2 DEF ContentInv
<1>6. CASE ControlFlushesFrames \/ DemuxFlushesFrames
  <2>1. frames' = <<>> /\ UNCHANGED packets
    BY <1>6 DEF ControlFlushesFrames, DemuxFlushesFrames, FlushFrames,
                packetQueue, undemuxed
  <2>2. PacketsInv'
    BY <1>0, <1>1, <2>1 DEF ContentInv, PacketsInv
  <2> QED
    BY <1>2, <1>3, <2>1, <2>2 DEF ContentInv
<1>7. CASE Join
  <2>1. frames' = <<>> /\ packets' = <<>>
    BY <1>7 DEF Join, FlushFrames
  <2>2. PacketsInv'
    BY <1>0, <1>1, <2>1 DEF ContentInv, PacketsInv
  <2> QED
    BY <1>2, <1>3, <2>1, <2>2 DEF ContentInv
<1>8. CASE PushPacket
  <2> DEFINE new == [kind |-> "Data", serial |-> demuxSerial, source |-> source]
  <2>1. packets' \in {packets, Append(packets, new)} /\ UNCHANGED frames
    BY <1>8 DEF PushPacket, frameQueue
  <2>2. new \in Packet /\ new.source = source /\ new.serial = demuxSerial
    BY ContentTypes DEF Packet
  <2>3. Of(new.source, new.serial)
    BY <2>2 DEF ContentInv, FoundInv
  <2> HIDE DEF new
  <2> QED
    BY <1>2, <1>3, <1>4, <2>1, <2>2, <2>3 DEF ContentInv
<1>9. CASE PushEof
  <2> DEFINE new == [kind |-> "EndOfStream", serial |-> demuxSerial, source |-> 0]
  <2>1. packets' \in {packets, Append(packets, new)} /\ UNCHANGED frames
    BY <1>9 DEF PushEof, frameQueue
  <2>2. new \in Packet /\ new.kind # "Data"
    BY ContentTypes DEF Packet
  <2> HIDE DEF new
  <2> QED
    BY <1>2, <1>3, <1>4, <2>1, <2>2 DEF ContentInv
<1> QED
  BY <1>5, <1>6, <1>7, <1>8, <1>9

\* The codec holds packets of the decoder's serial alone.
LEMMA ContentDecoded ==
  ASSUME TypeOK, HandsInv, ContentInv, DecodeNext
  PROVE  ContentInv'
<1>0. UNCHANGED <<found, demuxSerial, source, taken>>
  BY DEF DecodeNext, TakePacket, TakeFlush, SendPacket, AdoptSerial,
         FlushAdopted, ReceiveFrame, AcquireFrame, DropDecoded, PushFrame,
         demuxer, output, undecoded
<1>1. \A src, s : Of(src, s)' = Of(src, s)
  BY <1>0 DEF Of
<1>2. FoundInv'
  BY <1>0, <1>1 DEF ContentInv, FoundInv
<1>3. ASSUME frames' \in {frames, <<>>} PROVE FramesInv'
  BY <1>0, <1>1, <1>3 DEF ContentInv, FramesInv
<1>4. ASSUME UNCHANGED packets, pending' \in {pending, Nothing} PROVE PacketsInv'
  BY <1>0, <1>1, <1>4 DEF ContentInv, PacketsInv
<1>5. ASSUME UNCHANGED decoderSerial, codec' \in {codec, <<>>},
             decode' \in {"acquire", "emit"} =>
               decode \in {"acquire", "emit"} /\ UNCHANGED decoded
      PROVE  CodecInv'
  BY <1>0, <1>1, <1>5 DEF ContentInv, CodecInv
<1>6. CASE TakePacket
  <2>1. UNCHANGED <<frames, decoderSerial, codec>> /\ decode' \in {"exited", "packet"}
    BY <1>6 DEF TakePacket, frameQueue
  <2>2. CASE UNCHANGED <<packets, pending>>
    BY <1>2, <1>3, <1>4, <1>5, <2>1, <2>2 DEF ContentInv
  <2>3. CASE packets # <<>> /\ pending' = Head(packets) /\ packets' = Tail(packets)
    <3>1. /\ 1 \in DOMAIN packets /\ pending' = packets[1]
          /\ \A i \in DOMAIN packets' :
               i + 1 \in DOMAIN packets /\ packets'[i] = packets[i + 1]
      BY <2>3, ContentTypes, TailHas
    <3>2. PacketsInv'
      BY <1>1, <3>1 DEF ContentInv, PacketsInv
    <3> QED
      BY <1>2, <1>3, <1>5, <2>1, <3>2 DEF ContentInv
  <2> QED
    BY <1>6, <2>2, <2>3 DEF TakePacket
<1>7. CASE TakeFlush \/ AdoptSerial
  <2>1. /\ codec' = <<>> /\ decode' \in {"take", "adopt"} /\ pending' = Nothing
        /\ frames' \in {frames, <<>>} /\ UNCHANGED packets
    BY <1>7 DEF TakeFlush, AdoptSerial, Forget, FlushFrames, frameQueue
  <2>2. CodecInv'
    BY <2>1 DEF CodecInv
  <2> QED
    BY <1>2, <1>3, <1>4, <2>1, <2>2 DEF ContentInv
<1>8. CASE SendPacket
  <2>0. /\ UNCHANGED <<packets, frames>> /\ pending' \in {pending, Nothing}
        /\ decode' \in {"take", "receive"}
    BY <1>8 DEF SendPacket, frameQueue
  <2>1. decoderSerial = 0 => codec = <<>>
    <3>1. \A i \in DOMAIN codec : codec[i] \in Serials /\ codec[i] > 0
      BY ContentTypes DEF Serials
    <3>2. decoderSerial = 0 => DOMAIN codec = {}
      BY <3>1, ContentTypes DEF ContentInv, CodecInv, Of
    <3> QED
      BY <3>2, ContentTypes
  <2>2. CodecInv'
    <3>1. CASE UNCHANGED codec
      BY <1>1, <1>8, <2>0, <2>1, <3>1 DEF SendPacket, ContentInv, CodecInv
    <3>2. CASE /\ pending.serial = decoderSerial' /\ pending.kind = "Data"
               /\ codec' = Append(codec, pending.source)
      <4>1. Of(pending.source, pending.serial)
        BY <1>8, <3>2 DEF SendPacket, HandsInv, ContentInv, PacketsInv
      <4>2. pending.source \in Serials
        BY <4>1, ContentTypes DEF Of
      <4>3. codec # <<>> => decoderSerial' = decoderSerial
        BY <1>8, <2>1 DEF SendPacket
      <4>4. \A i \in DOMAIN codec' :
              \/ i \in DOMAIN codec /\ codec'[i] = codec[i]
              \/ codec'[i] = pending.source
        BY <3>2, <4>2, ContentTypes, AppendHas
      <4>5. \A i \in DOMAIN codec : codec # <<>>
        BY ContentTypes
      <4> QED
        BY <1>1, <2>0, <3>2, <4>1, <4>3, <4>4, <4>5 DEF ContentInv, CodecInv
    <3> QED
      BY <1>8, <3>1, <3>2 DEF SendPacket
  <2> QED
    BY <1>2, <1>3, <1>4, <2>0, <2>2 DEF ContentInv
<1>9. CASE FlushAdopted \/ AcquireFrame \/ DropDecoded
  <2>1. /\ frames' \in {frames, <<>>} /\ UNCHANGED <<packets, pending, codec, decoderSerial>>
        /\ decode' \in {"acquire", "emit"} =>
             decode \in {"acquire", "emit"} /\ UNCHANGED decoded
    BY <1>9 DEF FlushAdopted, AcquireFrame, DropDecoded, Release, FlushFrames
  <2> QED
    BY <1>2, <1>3, <1>4, <1>5, <2>1 DEF ContentInv
<1>10. CASE ReceiveFrame
  <2>0. UNCHANGED <<packets, pending, frames, decoderSerial>>
    BY <1>10 DEF ReceiveFrame, frameQueue
  <2>1. CASE UNCHANGED codec /\ decode' = "take"
    BY <1>2, <1>3, <1>4, <1>5, <2>0, <2>1 DEF ContentInv
  <2>2. CASE codec # <<>> /\ decoded' = Head(codec) /\ codec' = Tail(codec)
    <3>1. /\ 1 \in DOMAIN codec /\ decoded' = codec[1]
          /\ \A i \in DOMAIN codec' : i + 1 \in DOMAIN codec /\ codec'[i] = codec[i + 1]
      BY <2>2, ContentTypes, TailHas
    <3>2. CodecInv'
      BY <1>1, <2>0, <3>1 DEF ContentInv, CodecInv
    <3> QED
      BY <1>2, <1>3, <1>4, <2>0, <3>2 DEF ContentInv
  <2> QED
    BY <1>10, <2>1, <2>2 DEF ReceiveFrame
<1>11. CASE PushFrame
  <2> DEFINE new == [kind |-> "Frame", slot |-> slot, serial |-> decoderSerial,
                     source |-> decoded]
  <2>1. /\ decode = "emit" /\ decode' = "receive"
        /\ UNCHANGED <<packets, pending, codec, decoderSerial>>
        /\ frames' \in {frames, Append(frames, new)}
    BY <1>11 DEF PushFrame
  <2>2. Of(new.source, new.serial)
    BY <2>1 DEF ContentInv, CodecInv
  <2>3. new \in FramesIn(Slots)
    <3>1. slot \in Slots /\ decoderSerial \in Serials
      BY <2>1 DEF HandsInv, TypeOK, DecoderType
    <3>2. decoded \in Serials
      BY <2>2, ContentTypes DEF Of
    <3> QED
      BY <3>1, <3>2 DEF FramesIn
  <2>4. FramesInv'
    <3>1. CASE UNCHANGED frames
      BY <1>3, <3>1
    <3>2. CASE frames' = Append(frames, new)
      <4> HIDE DEF new
      <4>1. \A i \in DOMAIN frames' :
              \/ i \in DOMAIN frames /\ frames'[i] = frames[i]
              \/ frames'[i] = new
        BY <2>3, <3>2, ContentTypes, AppendHas
      <4> QED
        BY <1>0, <1>1, <2>2, <4>1 DEF ContentInv, FramesInv
    <3> QED
      BY <2>1, <3>1, <3>2
  <2> QED
    BY <1>2, <1>4, <1>5, <2>1, <2>4 DEF ContentInv
<1> QED
  BY <1>6, <1>7, <1>8, <1>9, <1>10, <1>11 DEF DecodeNext

\* What is taken is one of the queued frames.
LEMMA ContentShown ==
  ASSUME TypeOK, HandsInv, ContentInv,
         PopFrame \/ ReleaseFrame \/ CompletePresentation
  PROVE  ContentInv'
<1>0. UNCHANGED <<found, demuxSerial, source, packets, pending, codec,
                  decoderSerial, decode, decoded>>
  BY DEF PopFrame, ReleaseFrame, CompletePresentation, demuxer, decoder,
         packetQueue, unshown
<1>1. \A src, s : Of(src, s)' = Of(src, s)
  BY <1>0 DEF Of
<1>2. FoundInv' /\ PacketsInv' /\ CodecInv'
  BY <1>0, <1>1 DEF ContentInv, FoundInv, PacketsInv, CodecInv
<1>3. CASE PopFrame
  <2>1. CASE UNCHANGED <<frames, taken>>
    BY <1>1, <1>2, <2>1 DEF ContentInv, FramesInv
  <2>2. CASE frames # <<>> /\ taken' = Head(frames) /\ frames' = Tail(frames)
    <3>1. /\ 1 \in DOMAIN frames /\ taken' = frames[1]
          /\ \A i \in DOMAIN frames' :
               i + 1 \in DOMAIN frames /\ frames'[i] = frames[i + 1]
      BY <2>2, ContentTypes, TailHas
    <3> QED
      BY <1>1, <1>2, <3>1 DEF ContentInv, FramesInv
  <2> QED
    BY <1>3, <2>1, <2>2 DEF PopFrame
<1>4. CASE ReleaseFrame
  <2>1. taken \in FramesIn(Slots) /\ UNCHANGED frames
    BY <1>4 DEF ReleaseFrame, HandsInv
  <2>2. taken # Nothing
    BY <1>4, <2>1, NothingIsElse DEF FramesIn
  <2>3. \/ taken' = Nothing
        \/ taken'.source = taken.source /\ taken'.serial = taken.serial
    BY <1>4, <2>1, EmptiedFrame DEF ReleaseFrame
  <2> QED
    BY <1>1, <1>2, <2>1, <2>2, <2>3 DEF ContentInv, FramesInv
<1>5. CASE CompletePresentation
  BY <1>1, <1>2, <1>5 DEF CompletePresentation, ContentInv, FramesInv
<1> QED
  BY <1>3, <1>4, <1>5

LEMMA ContentStep ==
  ASSUME TypeOK, DemuxInv, HandsInv, ContentInv, [Next]_vars
  PROVE  ContentInv'
<1>1. CASE UNCHANGED <<found, demuxSerial, source, packets, pending, codec,
                       decoderSerial, decode, decoded, frames, taken>>
  BY <1>1 DEF ContentInv, FoundInv, PacketsInv, CodecInv, FramesInv, Of
<1> QED
  BY <1>1, ContentSought, ContentQueued, ContentDecoded, ContentShown,
     ContentMoves

-----------------------------------------------------------------------------
(* Requests                                                                *)

LEMMA RequestMoves ==
  ASSUME [Next]_vars
  PROVE  \/ UNCHANGED <<running, requests, batch, control, serial>>
         \/ RequestSeek \/ RequestClose \/ ControlNext \/ PostApplied
  BY DEF Next, vars, DemuxNext, DecodeNext, PresentNext, Claim, Uncancel,
         SeekFile, DemuxFlushesPackets, DemuxFlushesFrames, CheckPending,
         ClearCommand, Read, PushPacket, PushEof, TakePacket, TakeFlush,
         SendPacket, AdoptSerial, FlushAdopted, ReceiveFrame, AcquireFrame,
         DropDecoded, PushFrame, ReadSerial, PeekFrame, PopFrame, ReleaseFrame,
         NotePosition, CompletePresentation, requests, controller, undemuxed,
         undecoded, unshown

\* The events and the batch as sequences of events, and the numbers in them.
LEMMA RequestTypes ==
  ASSUME TypeOK
  PROVE  /\ events \in Seq(Event) /\ batch \in Seq(Event)
         /\ {latest, handled, serial, MaxSeeks} \subseteq Int
         /\ \A i \in DOMAIN events : events[i].type = "Seek" =>
              events[i].generation \in 1..MaxSeeks
         /\ \A i \in DOMAIN batch : batch[i].type = "Seek" =>
              batch[i].generation \in 1..MaxSeeks
<1>1. events \in Seq(Event) /\ batch \in Seq(Event)
  BY DEF TypeOK, RequestType
<1>2. MaxSeeks \in Int /\ serial \in Int /\ latest \in Int /\ handled \in Int
  BY ConstantsAssumption
     DEF TypeOK, RequestType, ControllerType, Serials, ConstantsAssumption
<1>3. /\ \A i \in DOMAIN events : events[i] \in Event
      /\ \A i \in DOMAIN batch : batch[i] \in Event
  BY <1>1
<1> QED
  BY <1>1, <1>2, <1>3, EventHas

\* The events a seek joins, or a result that is posted.
LEMMA GenerationQueued ==
  ASSUME TypeOK, GenerationInv, NEW e \in Event, Enqueue(e),
         UNCHANGED <<batch, control, serial>>, latest' \in Int, latest <= latest',
         e.type = "Seek" => e.generation = latest' /\ latest' = latest + 1
  PROVE  GenerationInv'
<1>0. /\ \A i \in DOMAIN events' :
           \/ i \in DOMAIN events /\ events'[i] = events[i]
           \/ events'[i] = e /\ \A j \in DOMAIN events' : j <= i
      /\ DOMAIN events' \subseteq Int
  BY RequestTypes, EnqueueHas
<1>1. \A i \in DOMAIN events : events[i].type = "Seek" =>
        /\ events[i].generation \in Int
        /\ serial <= events[i].generation /\ events[i].generation <= latest
  BY RequestTypes DEF GenerationInv
<1>2. \A i \in DOMAIN batch : batch[i].type = "Seek" =>
        batch[i].generation \in Int /\ batch[i].generation <= latest
  BY RequestTypes DEF GenerationInv
<1>3. {latest, latest', serial} \subseteq Int /\ serial <= latest + 1
  BY RequestTypes DEF GenerationInv
<1>4. \A i \in DOMAIN events' : events'[i].type = "Seek" =>
        serial <= events'[i].generation /\ events'[i].generation <= latest'
  BY <1>0, <1>1, <1>3
<1>5. \A i \in DOMAIN batch : batch[i].type = "Seek" =>
        /\ batch[i].generation <= latest'
        /\ i \in Unhandled => serial <= batch[i].generation
  BY <1>2, <1>3 DEF GenerationInv
<1>6. \A i, j \in DOMAIN events' :
        i < j /\ events'[i].type = "Seek" /\ events'[j].type = "Seek" =>
          events'[i].generation < events'[j].generation
  <2> SUFFICES ASSUME NEW i \in DOMAIN events', NEW j \in DOMAIN events', i < j,
                      events'[i].type = "Seek", events'[j].type = "Seek"
               PROVE  events'[i].generation < events'[j].generation
    OBVIOUS
  <2>1. i \in DOMAIN events /\ events'[i] = events[i]
    BY <1>0
  <2>2. CASE j \in DOMAIN events /\ events'[j] = events[j]
    BY <2>1, <2>2 DEF GenerationInv
  <2>3. CASE events'[j] = e
    BY <1>1, <1>3, <2>1, <2>3
  <2> QED
    BY <1>0, <2>2, <2>3
<1>7. \A i \in DOMAIN batch, j \in DOMAIN events' :
        batch[i].type = "Seek" /\ events'[j].type = "Seek" =>
          batch[i].generation < events'[j].generation
  <2> SUFFICES ASSUME NEW i \in DOMAIN batch, NEW j \in DOMAIN events',
                      batch[i].type = "Seek", events'[j].type = "Seek"
               PROVE  batch[i].generation < events'[j].generation
    OBVIOUS
  <2>1. CASE j \in DOMAIN events /\ events'[j] = events[j]
    BY <2>1 DEF GenerationInv
  <2>2. CASE events'[j] = e
    BY <1>2, <1>3, <2>2
  <2> QED
    BY <1>0, <2>1, <2>2
<1>8. Unhandled' = Unhandled
  BY DEF Unhandled
<1> QED
  BY <1>3, <1>4, <1>5, <1>6, <1>7, <1>8 DEF GenerationInv

LEMMA RequestStep ==
  ASSUME TypeOK, BatchInv, GenerationInv, [Next]_vars
  PROVE  BatchInv' /\ GenerationInv'
<1>0. batch # <<>> => /\ 1 \in DOMAIN batch /\ Head(batch) = batch[1]
                      /\ Tail(batch) \in Seq(Event)
                      /\ \A i \in DOMAIN Tail(batch) :
                           /\ i + 1 \in DOMAIN batch /\ i + 1 > 1 /\ i \in Int
                           /\ Tail(batch)[i] = batch[i + 1]
  BY RequestTypes, TailHas
<1>1. CASE UNCHANGED <<running, requests, batch, control, serial>>
  BY <1>1 DEF requests, BatchInv, GenerationInv, Unhandled
<1>2. CASE RequestSeek
  <2> DEFINE new == [type |-> "Seek", generation |-> latest + 1]
  <2>1. new \in Event /\ new.type = "Seek" /\ new.generation = latest + 1
    BY <1>2, ConstantsAssumption
       DEF RequestSeek, Event, TypeOK, RequestType, ConstantsAssumption
  <2>2. UNCHANGED <<batch, control, serial>> /\ latest' = latest + 1 /\ Enqueue(new)
    BY <1>2 DEF RequestSeek, controller
  <2> HIDE DEF new
  <2>3. GenerationInv'
    BY <2>1, <2>2, RequestTypes, GenerationQueued
  <2> QED
    BY <2>2, <2>3 DEF BatchInv
<1>3. CASE RequestClose
  BY <1>3 DEF RequestClose, requests, controller, BatchInv, GenerationInv, Unhandled
<1>4. CASE PostApplied
  <2> DEFINE new == [type |-> "Applied", serial |-> claimed,
                     failed |-> claimed \notin found]
  <2>1. new \in Event /\ new.type = "Applied"
    BY DEF Event, TypeOK, DemuxerType
  <2>2. UNCHANGED <<batch, control, serial, latest>> /\ Enqueue(new)
    BY <1>4 DEF PostApplied, undemuxed, controller
  <2> HIDE DEF new
  <2>3. GenerationInv'
    BY <2>1, <2>2, RequestTypes, GenerationQueued
  <2> QED
    BY <2>2, <2>3 DEF BatchInv
<1>5. CASE ControlNext
  <2>1. CASE TakeEvents
    <3>1. CASE batch' = events /\ events' = <<>> /\ control' = "handle" /\ events # <<>>
      <4>1. UNCHANGED <<latest, serial>>
        BY <2>1 DEF TakeEvents, controller
      <4> QED
        BY <3>1, <4>1 DEF BatchInv, InHand, GenerationInv, Unhandled
    <3>2. CASE control' = "stop" /\ UNCHANGED <<batch, events>>
      BY <2>1, <3>2
         DEF TakeEvents, controller, BatchInv, InHand, GenerationInv, Unhandled
    <3> QED
      BY <2>1, <3>1, <3>2 DEF TakeEvents
  <2>2. CASE BeginTransition
    <3>0. batch # <<>> /\ control = "handle" /\ batch[1].type = "Seek"
          /\ UNCHANGED <<latest, events, batch>>
      BY <1>0, <2>2 DEF BeginTransition, requests, BatchInv, InHand
    <3>1. CASE running
      <4>1. serial' = serial + 1 /\ control' = "signal"
        BY <2>2, <3>1 DEF BeginTransition
      <4>2. /\ batch[1].generation \in Int /\ 1 \in DOMAIN batch
            /\ serial <= batch[1].generation /\ batch[1].generation <= latest
        BY <1>0, <3>0, RequestTypes DEF GenerationInv, Unhandled
      <4>3. \A i \in DOMAIN events : events[i].type = "Seek" =>
              serial' <= events[i].generation
        BY <3>0, <4>1, <4>2, RequestTypes DEF GenerationInv
      <4>4. \A i \in DOMAIN batch : batch[i].type = "Seek" /\ i > 1 =>
              serial' <= batch[i].generation
        BY <3>0, <4>1, <4>2, RequestTypes DEF GenerationInv
      <4>5. serial' <= latest + 1
        BY <4>1, <4>2, RequestTypes
      <4> QED
        BY <3>0, <4>1, <4>3, <4>4, <4>5 DEF BatchInv, InHand, GenerationInv, Unhandled
    <3>2. CASE ~running
      BY <2>2, <3>0, <3>2
         DEF BeginTransition, controller, BatchInv, InHand, GenerationInv, Unhandled
    <3> QED
      BY <3>1, <3>2
  <2>3. CASE Acknowledge \/ ApplySeekResult
    <3>1. /\ batch # <<>> /\ batch' = Tail(batch)
          /\ control' = IF Len(batch) = 1 THEN "wait" ELSE "handle"
          /\ UNCHANGED <<latest, events, serial>>
      BY <2>3 DEF Acknowledge, ApplySeekResult, AfterEvent, requests, controller,
                  BatchInv, InHand
    <3>2. BatchInv'
      <4>1. Len(batch) # 1 => Tail(batch) # <<>>
        <5>1. Len(batch) \in Nat /\ Len(batch) # 0
          BY <3>1, RequestTypes
        <5>2. Len(Tail(batch)) = Len(batch) - 1 /\ Len(<<>>) = 0
          BY <3>1, RequestTypes, TailHas
        <5> QED
          BY <5>1, <5>2
      <4> QED
        BY <3>1, <4>1 DEF BatchInv, InHand
    <3>3. \A i \in DOMAIN batch' :
            /\ i + 1 \in DOMAIN batch /\ i + 1 \in Unhandled /\ i \in Int
            /\ batch'[i] = batch[i + 1]
      BY <1>0, <3>1 DEF Unhandled
    <3>4. GenerationInv'
      BY <3>1, <3>3 DEF GenerationInv
    <3> QED
      BY <3>2, <3>4
  <2>4. CASE \/ Signal \/ ControlFlushesPackets \/ ControlFlushesFrames
             \/ StopSignals \/ AbortPackets \/ AbortFrames \/ Join
    <3>1. UNCHANGED <<latest, events, batch, serial>>
      BY <2>4 DEF Signal, ControlFlushesPackets, ControlFlushesFrames,
             StopSignals, AbortPackets, AbortFrames, Join, requests, controller
    <3>2. /\ control' # "handle"
          /\ control' \in InHand => control \in InHand \ {"handle"}
      BY <2>4 DEF Signal, ControlFlushesPackets, ControlFlushesFrames,
             StopSignals, AbortPackets, AbortFrames, Join, InHand
    <3> QED
      BY <3>1, <3>2 DEF BatchInv, InHand, GenerationInv, Unhandled
  <2> QED
    BY <1>5, <2>1, <2>2, <2>3, <2>4 DEF ControlNext
<1> QED
  BY <1>1, <1>2, <1>3, <1>4, <1>5, RequestMoves

-----------------------------------------------------------------------------
(* Types                                                                   *)

LEMMA RequestTypeStep ==
  ASSUME TypeOK, BatchInv, GenerationInv, [Next]_vars
  PROVE  RequestType'
<1> USE DEF RequestType
<1>0. /\ running \in BOOLEAN /\ {latest, handled} \subseteq 0..MaxSeeks
      /\ handled <= latest /\ events \in Seq(Event) /\ batch \in Seq(Event)
      /\ MaxSeeks \in Nat
      /\ batch # <<>> => Tail(batch) \in Seq(Event)
  BY ConstantsAssumption, TailHas DEF TypeOK, ConstantsAssumption
<1>1. CASE UNCHANGED <<running, requests, batch, control, serial>>
  BY <1>0, <1>1 DEF TypeOK, requests
<1>2. CASE RequestSeek
  <2> DEFINE new == [type |-> "Seek", generation |-> latest + 1]
  <2>1. new \in Event
    BY <1>0, <1>2 DEF RequestSeek, Event
  <2>2. /\ UNCHANGED <<running, handled, batch, control>> /\ latest < MaxSeeks
        /\ latest' = latest + 1 /\ Enqueue(new)
    BY <1>2 DEF RequestSeek
  <2>3. events' \in Seq(Event)
    BY <1>0, <2>1, <2>2, EnqueueHas
  <2> QED
    BY <1>0, <2>2, <2>3 DEF TypeOK
<1>3. CASE RequestClose
  BY <1>0, <1>3 DEF RequestClose, requests, TypeOK
<1>4. CASE PostApplied
  <2> DEFINE new == [type |-> "Applied", serial |-> claimed,
                     failed |-> claimed \notin found]
  <2>1. new \in Event
    BY DEF Event, TypeOK, DemuxerType
  <2>2. UNCHANGED <<running, latest, handled, batch, control>> /\ Enqueue(new)
    BY <1>4 DEF PostApplied, undemuxed
  <2>3. events' \in Seq(Event)
    BY <1>0, <2>1, <2>2, EnqueueHas
  <2> QED
    BY <1>0, <2>2, <2>3 DEF TypeOK
<1>5. CASE ControlNext
  <2>1. CASE Acknowledge
    <3>1. batch # <<>> /\ batch[1].type = "Seek" /\ 1 \in DOMAIN batch
      BY <1>0, <2>1 DEF Acknowledge, BatchInv, InHand
    <3>2. batch[1].generation \in 0..MaxSeeks /\ batch[1].generation <= latest
      BY <1>0, <3>1, RequestTypes DEF GenerationInv
    <3>3. Head(batch) = batch[1]
      BY <1>0, <3>1
    <3>4. Max({handled, batch[1].generation}) \in {handled, batch[1].generation}
      <4>1. handled \in Int /\ batch[1].generation \in Int
        BY <1>0, <3>2
      <4> QED
        BY <4>1, MaxOfTwo
    <3>5. handled' \in 0..MaxSeeks /\ handled' <= latest
      BY <1>0, <2>1, <3>2, <3>3, <3>4 DEF Acknowledge
    <3> QED
      BY <1>0, <2>1, <3>1, <3>5 DEF Acknowledge, AfterEvent
  <2>2. CASE ApplySeekResult
    BY <1>0, <2>2 DEF ApplySeekResult, AfterEvent, BatchInv, InHand, requests
  <2>3. CASE TakeEvents
    <3>1. <<>> \in Seq(Event)
      OBVIOUS
    <3> QED
      BY <1>0, <2>3, <3>1 DEF TakeEvents
  <2>4. CASE \/ BeginTransition \/ Signal \/ ControlFlushesPackets
             \/ ControlFlushesFrames \/ StopSignals \/ AbortPackets
             \/ AbortFrames \/ Join
    <3>1. UNCHANGED <<running, requests, batch>>
      BY <2>4 DEF BeginTransition, Signal, ControlFlushesPackets,
             ControlFlushesFrames, StopSignals, AbortPackets, AbortFrames, Join
    <3>2. control' \in {"signal", "acknowledge", "flushPackets", "flushFrames",
                        "abortPackets", "abortFrames", "join", "stopped"}
      BY <2>4 DEF BeginTransition, Signal, ControlFlushesPackets,
             ControlFlushesFrames, StopSignals, AbortPackets, AbortFrames, Join
    <3> QED
      BY <1>0, <3>1, <3>2 DEF requests
  <2> QED
    BY <1>5, <2>1, <2>2, <2>3, <2>4 DEF ControlNext
<1> QED
  BY <1>1, <1>2, <1>3, <1>4, <1>5, RequestMoves

LEMMA ControllerTypeStep ==
  ASSUME TypeOK, BatchInv, GenerationInv, HandsInv, [Next]_vars
  PROVE  ControllerType'
<1> USE DEF ControllerType
<1>0. /\ serial \in Serials /\ 1 \in Serials
      /\ {inFlight, awaiting, position, seen} \subseteq Serials \cup {0}
      /\ {seekPending, commandPending} \subseteq BOOLEAN
  BY ConstantsAssumption DEF TypeOK, OutputType, Serials, ConstantsAssumption
<1>1. CASE BeginTransition
  <2>1. ASSUME running
        PROVE  serial + 1 \in Serials
    <3>1. /\ batch # <<>> /\ batch[1].type = "Seek" /\ 1 \in DOMAIN batch
          /\ 1 \in Unhandled
      BY <1>1, RequestTypes DEF BeginTransition, BatchInv, InHand, Unhandled
    <3>2. serial <= batch[1].generation /\ batch[1].generation \in 1..MaxSeeks
      BY <3>1, RequestTypes DEF GenerationInv
    <3> QED
      BY <1>0, <3>2, ConstantsAssumption DEF Serials, ConstantsAssumption
  <2> QED
    BY <1>0, <1>1, <2>1 DEF BeginTransition, controller
<1>2. CASE ControlNext /\ ~BeginTransition
  <2>1. CASE ApplySeekResult
    <3>1. inFlight' \in {0, inFlight} /\ awaiting' \in {0, awaiting}
      BY <2>1 DEF ApplySeekResult
    <3> QED
      BY <1>0, <2>1, <3>1 DEF ApplySeekResult
  <2>2. CASE ~ApplySeekResult
    BY <1>0, <1>2, <2>2
       DEF ControlNext, TakeEvents, Signal, ControlFlushesPackets,
           ControlFlushesFrames, Acknowledge, StopSignals, AbortPackets,
           AbortFrames, Join, controller
  <2> QED
    BY <2>1, <2>2
<1>3. CASE RequestSeek \/ RequestClose
  BY <1>0, <1>3 DEF RequestSeek, RequestClose, controller
<1>4. CASE DemuxNext
  <2>1. UNCHANGED position
    BY <1>4 DEF DemuxNext, Claim, Uncancel, SeekFile, DemuxFlushesPackets,
         DemuxFlushesFrames, PostApplied, CheckPending, ClearCommand, Read,
         PushPacket, PushEof, undemuxed, output
  <2> QED
    BY <1>0, <1>4, <2>1
       DEF DemuxNext, Claim, Uncancel, SeekFile, DemuxFlushesPackets,
           DemuxFlushesFrames, PostApplied, CheckPending, ClearCommand, Read,
           PushPacket, PushEof, controller
<1>5. CASE DecodeNext
  BY <1>0, <1>5
     DEF DecodeNext, TakePacket, TakeFlush, SendPacket, AdoptSerial,
         FlushAdopted, ReceiveFrame, AcquireFrame, DropDecoded, PushFrame,
         undecoded, controller
<1>6. CASE PresentNext
  BY <1>0, <1>6
     DEF PresentNext, ReadSerial, PeekFrame, PopFrame, ReleaseFrame,
         NotePosition, CompletePresentation, unshown
<1>7. CASE UNCHANGED vars
  BY <1>0, <1>7 DEF vars, controller
<1> QED
  BY <1>1, <1>2, <1>3, <1>4, <1>5, <1>6, <1>7 DEF Next

LEMMA DemuxerTypeStep ==
  ASSUME TypeOK, [Next]_vars
  PROVE  DemuxerType'
<1> USE DEF DemuxerType
<1>0. /\ {demuxSerial, claimed, source, serial} \subseteq Serials
      /\ found \subseteq Serials /\ Length \in Nat
      /\ unread \in 0..Length /\ atEof \in BOOLEAN
  BY ConstantsAssumption DEF TypeOK, ControllerType, ConstantsAssumption
<1>1. CASE UNCHANGED demuxer
  BY <1>1 DEF TypeOK, demuxer
<1>2. CASE Claim
  BY <1>0, <1>2 DEF Claim
<1>3. CASE SeekFile
  <2>1. /\ demux' = "flushPackets" /\ atEof' = FALSE /\ unread' \in {unread, Length}
        /\ demuxSerial' = claimed /\ claimed' = claimed
        /\ source' \in {source, claimed} /\ found' \in {found, found \cup {claimed}}
    BY <1>3 DEF SeekFile
  <2>2. Length \in 0..Length /\ {source', claimed', demuxSerial'} \subseteq Serials
        /\ found' \subseteq Serials
    BY <1>0, <2>1
  <2> QED
    BY <1>0, <2>1, <2>2
<1>4. CASE Read
  BY <1>0, <1>4 DEF Read
<1>5. CASE PushPacket \/ PushEof \/ CheckPending \/ ClearCommand
  BY <1>0, <1>5 DEF PushPacket, PushEof, CheckPending, ClearCommand
<1>6. CASE Uncancel \/ DemuxFlushesPackets \/ DemuxFlushesFrames \/ PostApplied
  BY <1>0, <1>6 DEF Uncancel, DemuxFlushesPackets, DemuxFlushesFrames, PostApplied
<1>7. \/ UNCHANGED demuxer \/ DemuxNext
  BY DEF Next, vars, ControlNext, DecodeNext, PresentNext, RequestSeek,
         RequestClose, TakeEvents, BeginTransition, Signal, ControlFlushesPackets,
         ControlFlushesFrames, Acknowledge, ApplySeekResult, StopSignals,
         AbortPackets, AbortFrames, Join, TakePacket, TakeFlush, SendPacket,
         AdoptSerial, FlushAdopted, ReceiveFrame, AcquireFrame, DropDecoded,
         PushFrame, ReadSerial, PeekFrame, PopFrame, ReleaseFrame, NotePosition,
         CompletePresentation, undecoded, unshown
<1> QED
  BY <1>1, <1>2, <1>3, <1>4, <1>5, <1>6, <1>7 DEF DemuxNext

LEMMA DecoderTypeStep ==
  ASSUME TypeOK, HandsInv, ContentInv, [Next]_vars
  PROVE  DecoderType'
<1> USE DEF DecoderType
<1>0. /\ {decoderSerial, decoded} \subseteq Serials \cup {0} /\ serial \in Serials
      /\ pending \in Packet \cup {Nothing} /\ draining \in BOOLEAN
      /\ codec \in Seq(Serials) /\ Len(codec) \in Nat /\ Len(codec) <= CodecDepth
      /\ slot \in Slots \cup {0} /\ CodecDepth \in Nat
      /\ decode = "packet" => pending \in Packet
      /\ \A p \in Packet : p.serial \in Serials
      /\ <<>> \in Seq(Serials) /\ Len(<<>>) = 0
  BY ConstantsAssumption, ContentTypes, SMTT(20)
     DEF TypeOK, ControllerType, ConstantsAssumption, HandsInv
<1>1. CASE UNCHANGED <<decoder, present, taken>>
  BY <1>1 DEF TypeOK, decoder
<1>2. CASE PresentNext
  BY <1>0, <1>2
     DEF TypeOK, PresentNext, ReadSerial, PeekFrame, PopFrame, ReleaseFrame,
         NotePosition, CompletePresentation, unshown, decoder
<1>3. CASE TakePacket
  <2>1. packets # <<>> => Head(packets) \in Packet
    BY ContentTypes
  <2> QED
    BY <1>0, <1>3, <2>1 DEF TakePacket
<1>4. ASSUME NEW s \in Serials, Forget(s), decode' \in {"take", "adopt"}
      PROVE  DecoderType'
  <2>1. codec' = <<>> /\ pending' = Nothing /\ draining' = FALSE
        /\ decoderSerial' = s /\ slot' = slot /\ decoded' = decoded
    BY <1>4 DEF Forget
  <2>2. codec' \in Seq(Serials) /\ Len(codec') <= CodecDepth
    BY <1>0, <2>1
  <2> QED
    BY <1>0, <1>4, <2>1, <2>2
<1>5. CASE SendPacket
  <2>1. /\ decoderSerial' \in Serials \cup {0} /\ pending' \in {pending, Nothing}
        /\ decode' \in {"take", "receive"} /\ draining' \in BOOLEAN
        /\ UNCHANGED <<slot, decoded>>
    BY <1>0, <1>5 DEF SendPacket
  <2>2. codec' \in Seq(Serials) /\ Len(codec') <= CodecDepth
    <3>1. CASE UNCHANGED codec
      BY <1>0, <3>1
    <3>2. CASE /\ pending.kind = "Data" /\ Len(codec) < CodecDepth
               /\ codec' = Append(codec, pending.source)
      <4>1. Of(pending.source, pending.serial)
        BY <1>5, <3>2 DEF SendPacket, HandsInv, ContentInv, PacketsInv
      <4>2. pending.source \in Serials
        BY <4>1, ContentTypes DEF Of
      <4> QED
        BY <1>0, <3>2, <4>2, AppendHas
    <3> QED
      BY <1>5, <3>1, <3>2 DEF SendPacket
  <2> QED
    BY <1>0, <2>1, <2>2
<1>6. CASE AdoptSerial \/ TakeFlush
  BY <1>0, <1>4, <1>6 DEF AdoptSerial, TakeFlush
<1>7. CASE FlushAdopted
  BY <1>0, <1>7 DEF FlushAdopted
<1>8. CASE ReceiveFrame
  <2>1. codec # <<>> => /\ Head(codec) \in Serials /\ Tail(codec) \in Seq(Serials)
                        /\ Len(Tail(codec)) <= CodecDepth
    BY <1>0, TailHas
  <2> QED
    BY <1>0, <1>8, <2>1 DEF ReceiveFrame
<1>9. CASE AcquireFrame
  <2>1. free # <<>> => Head(free) \in Slots
    BY DEF TypeOK, QueueType
  <2> QED
    BY <1>0, <1>9, <2>1 DEF AcquireFrame, HasRoom
<1>10. CASE DropDecoded
  BY <1>0, <1>10 DEF DropDecoded
<1>11. CASE PushFrame
  BY <1>0, <1>11 DEF PushFrame
<1> QED
  BY <1>1, <1>2, <1>3, <1>5, <1>6, <1>7, <1>8, <1>9, <1>10, <1>11, HandsMoves
     DEF DecodeNext

LEMMA OutputTypeStep ==
  ASSUME TypeOK, HandsInv, [Next]_vars
  PROVE  OutputType'
<1> USE DEF OutputType
<1>0. /\ {outputSerial, seen} \subseteq Serials \cup {0} /\ serial \in Serials
      /\ taken \in FramesIn(Slots \cup {0}) \cup {Nothing}
  BY DEF TypeOK, ControllerType
<1>a. /\ FramesIn(Slots) \subseteq FramesIn(Slots \cup {0})
      /\ FramesIn({0}) \subseteq FramesIn(Slots \cup {0})
      /\ \A f \in FramesIn(Slots) : f.source \in Serials
  BY DEF FramesIn
<1>b. frames # <<>> => Head(frames) \in FramesIn(Slots)
  BY TailHas DEF TypeOK, QueueType
<1>1. CASE UNCHANGED output
  BY <1>1 DEF TypeOK, output
<1>2. CASE ReadSerial
  BY <1>0, <1>a, <1>b, <1>a, <1>b, <1>a, <1>b, <1>2 DEF ReadSerial
<1>3. CASE PeekFrame
  BY <1>0, <1>a, <1>b, <1>a, <1>b, <1>a, <1>b, <1>3 DEF PeekFrame
<1>4. CASE PopFrame
  BY <1>0, <1>a, <1>b, <1>a, <1>b, <1>a, <1>b, <1>4 DEF PopFrame
<1>5. CASE ReleaseFrame
  <2>1. taken \in FramesIn(Slots)
    BY <1>5 DEF ReleaseFrame, HandsInv
  <2>2. taken' \in FramesIn({0}) \cup {Nothing}
    BY <1>5, <2>1, EmptiedFrame DEF ReleaseFrame
  <2> QED
    BY <1>0, <1>a, <1>b, <1>a, <1>b, <1>a, <1>b, <1>5, <2>2 DEF ReleaseFrame
<1>6. CASE NotePosition
  BY <1>0, <1>a, <1>b, <1>a, <1>b, <1>a, <1>b, <1>6 DEF NotePosition
<1>7. CASE CompletePresentation
  BY <1>0, <1>a, <1>b, <1>a, <1>b, <1>a, <1>b, <1>7 DEF CompletePresentation
<1>8. UNCHANGED output \/ PresentNext
  BY DEF Next, vars, ControlNext, DemuxNext, DecodeNext, RequestSeek,
         RequestClose, TakeEvents, BeginTransition, Signal, ControlFlushesPackets,
         ControlFlushesFrames, Acknowledge, ApplySeekResult, StopSignals,
         AbortPackets, AbortFrames, Join, Claim, Uncancel, SeekFile,
         DemuxFlushesPackets, DemuxFlushesFrames, PostApplied, CheckPending,
         ClearCommand, Read, PushPacket, PushEof, TakePacket, TakeFlush,
         SendPacket, AdoptSerial, FlushAdopted, ReceiveFrame, AcquireFrame,
         DropDecoded, PushFrame, undemuxed, undecoded
<1> QED
  BY <1>1, <1>2, <1>3, <1>4, <1>5, <1>6, <1>7, <1>8 DEF PresentNext

-----------------------------------------------------------------------------
(* The queues                                                              *)

\* A queue's data packets are finitely many, and no more after one was taken.
LEMMA DataIsFinite ==
  ASSUME NEW queue \in Seq(Packet), NEW data,
         data = {i \in DOMAIN queue : queue[i].kind = "Data"}
  PROVE  IsFiniteSet(data) /\ Cardinality(data) \in Nat
<1>1. IsFiniteSet(1..Len(queue))
  BY FS_Interval
<1>2. data \in SUBSET (1..Len(queue))
  OBVIOUS
<1>3. IsFiniteSet(data)
  BY <1>1, <1>2, FS_Subset
<1> QED
  BY <1>3, FS_CardinalityType

LEMMA DataOfTail ==
  ASSUME NEW queue \in Seq(Packet), queue # <<>>, NEW data, NEW rest,
         data = {i \in DOMAIN queue : queue[i].kind = "Data"},
         rest = {i \in DOMAIN Tail(queue) : Tail(queue)[i].kind = "Data"}
  PROVE  Cardinality(rest) <= Cardinality(data)
<1> DEFINE shift == [i \in rest |-> i + 1]
<1>1. \A i \in rest : i \in Nat /\ i + 1 \in data
  <2>1. \A i \in DOMAIN Tail(queue) : i \in Nat /\ i + 1 \in DOMAIN queue
                                      /\ Tail(queue)[i] = queue[i + 1]
    BY TailHas
  <2> QED
    BY <2>1
<1>2. shift \in Injection(rest, data)
  BY <1>1 DEF Injection, IsInjective
<1>3. IsFiniteSet(data)
  BY DataIsFinite
<1> QED
  BY <1>2, <1>3, FS_Injection

LEMMA PacketMoves ==
  ASSUME [Next]_vars
  PROVE  \/ UNCHANGED packets
         \/ ControlFlushesPackets \/ Join \/ DemuxFlushesPackets
         \/ PushPacket \/ PushEof \/ TakePacket
  BY DEF Next, vars, ControlNext, DemuxNext, DecodeNext, PresentNext,
         RequestSeek, RequestClose, TakeEvents, BeginTransition, Signal,
         ControlFlushesFrames, Acknowledge, ApplySeekResult, StopSignals,
         AbortPackets, AbortFrames, Claim, Uncancel, SeekFile,
         DemuxFlushesFrames, PostApplied, CheckPending, ClearCommand, Read,
         TakeFlush, SendPacket, AdoptSerial, FlushAdopted, ReceiveFrame,
         AcquireFrame, DropDecoded, PushFrame, ReadSerial, PeekFrame, PopFrame,
         ReleaseFrame, NotePosition, CompletePresentation, packetQueue, unshown

\* No packet comes in while the queue is full, and only its end of the stream
\* and its flush marks pass by the bound.
LEMMA PacketTypeStep ==
  ASSUME TypeOK, [Next]_vars
  PROVE  packets' \in Seq(Packet) /\ Cardinality(DataPackets)' <= PacketLimit
<1>0. /\ packets \in Seq(Packet) /\ Cardinality(DataPackets) <= PacketLimit
      /\ PacketLimit \in Nat /\ PacketLimit > 0
      /\ {serial, demuxSerial, source} \subseteq Serials
  BY ConstantsAssumption
     DEF TypeOK, QueueType, ControllerType, DemuxerType, ConstantsAssumption
<1>1. CASE UNCHANGED packets
  BY <1>0, <1>1 DEF DataPackets
<1>2. ASSUME packets' \in Seq(Packet), DataPackets' = {}
      PROVE  packets' \in Seq(Packet) /\ Cardinality(DataPackets)' <= PacketLimit
  BY <1>0, <1>2, FS_EmptySet
<1>3. ASSUME NEW s \in Serials, FlushPackets(s)
      PROVE  packets' \in Seq(Packet) /\ Cardinality(DataPackets)' <= PacketLimit
  <2>1. FlushMark(s) \in Packet /\ FlushMark(s).kind = "Flush"
    BY DEF FlushMark, Packet
  <2>2. packets' = <<FlushMark(s)>>
    BY <1>3 DEF FlushPackets
  <2>3. packets' \in Seq(Packet) /\ \A i \in DOMAIN packets' : packets'[i] = FlushMark(s)
    BY <2>1, <2>2
  <2>4. DataPackets' = {}
    BY <2>1, <2>3 DEF DataPackets
  <2> QED
    BY <1>2, <2>3, <2>4
<1>4. CASE Join
  <2>1. packets' = <<>> /\ <<>> \in Seq(Packet) /\ DOMAIN packets' = {}
    BY <1>4 DEF Join
  <2> QED
    BY <1>2, <2>1 DEF DataPackets
<1>5. ASSUME NEW p \in Packet, packets' = Append(packets, p)
      PROVE  /\ packets' \in Seq(Packet)
             /\ DataPackets' = DataPackets \cup
                  (IF p.kind = "Data" THEN {Len(packets) + 1} ELSE {})
  <2>1. /\ packets' \in Seq(Packet) /\ DOMAIN packets' = DOMAIN packets \cup {Len(packets) + 1}
        /\ \A i \in DOMAIN packets : packets'[i] = packets[i]
        /\ packets'[Len(packets) + 1] = p /\ Len(packets) + 1 \notin DOMAIN packets
    BY <1>0, <1>5
  <2> QED
    BY <2>1 DEF DataPackets
<1>6. CASE PushPacket
  <2> DEFINE p == [kind |-> "Data", serial |-> demuxSerial, source |-> source]
  <2>1. CASE UNCHANGED packets
    BY <1>1, <2>1
  <2>2. CASE packets' = Append(packets, p) /\ ~Full
    <3>1. p \in Packet /\ p.kind = "Data"
      BY <1>0 DEF Packet
    <3>2. packets' \in Seq(Packet) /\ DataPackets' = DataPackets \cup {Len(packets) + 1}
      BY <1>5, <2>2, <3>1
    <3>3. IsFiniteSet(DataPackets) /\ Cardinality(DataPackets) \in Nat
      BY <1>0, DataIsFinite DEF DataPackets
    <3>4. Cardinality(DataPackets) < PacketLimit
      <4>1. CASE packets = <<>>
        <5>1. DataPackets = {}
          BY <4>1 DEF DataPackets
        <5> QED
          BY <1>0, <5>1, FS_EmptySet
      <4>2. CASE packets # <<>>
        BY <1>0, <2>2, <3>3, <4>2 DEF Full
      <4> QED
        BY <4>1, <4>2
    <3>5. Cardinality(DataPackets \cup {Len(packets) + 1}) <= Cardinality(DataPackets) + 1
      BY <3>3, FS_AddElement
    <3>6. Cardinality(DataPackets \cup {Len(packets) + 1}) \in Nat
      BY <3>3, FS_AddElement, FS_CardinalityType
    <3> QED
      BY <1>0, <3>2, <3>3, <3>4, <3>5, <3>6
  <2> QED
    BY <1>6, <2>1, <2>2 DEF PushPacket
<1>7. CASE PushEof
  <2> DEFINE p == [kind |-> "EndOfStream", serial |-> demuxSerial, source |-> 0]
  <2>1. CASE UNCHANGED packets
    BY <1>1, <2>1
  <2>2. CASE packets' = Append(packets, p)
    <3>1. p \in Packet /\ p.kind # "Data"
      BY <1>0 DEF Packet
    <3>2. packets' \in Seq(Packet) /\ DataPackets' = DataPackets
      BY <1>5, <2>2, <3>1
    <3> QED
      BY <1>0, <3>2
  <2> QED
    BY <1>7, <2>1, <2>2 DEF PushEof
<1>8. CASE TakePacket
  <2>1. CASE packets # <<>> /\ packets' = Tail(packets)
    <3>1. packets' \in Seq(Packet)
      BY <1>0, <2>1, TailHas
    <3>2. Cardinality(DataPackets') <= Cardinality(DataPackets)
      BY <1>0, <2>1, DataOfTail DEF DataPackets
    <3>3. Cardinality(DataPackets) \in Nat /\ Cardinality(DataPackets') \in Nat
      BY <1>0, <3>1, DataIsFinite DEF DataPackets
    <3> QED
      BY <1>0, <3>1, <3>2, <3>3
  <2> QED
    BY <1>1, <1>8, <2>1 DEF TakePacket
<1> QED
  BY <1>0, <1>1, <1>3, <1>4, <1>6, <1>7, <1>8, PacketMoves
     DEF ControlFlushesPackets, DemuxFlushesPackets

LEMMA QueueTypeStep ==
  ASSUME TypeOK, HandsInv, ContentInv, PoolInv', [Next]_vars
  PROVE  QueueType'
<1>0. /\ frames \in Seq(FramesIn(Slots)) /\ Len(frames) \in Nat
      /\ Len(frames) <= FrameLimit /\ FrameLimit \in Nat
      /\ free \in Seq(Slots) /\ frameSerial \in Serials
      /\ {packetsAborted, framesAborted} \subseteq BOOLEAN
      /\ {serial, demuxSerial} \subseteq Serials
      /\ {decoderSerial, decoded} \subseteq Serials \cup {0}
      /\ slot \in Slots \cup {0}
      /\ <<>> \in Seq(FramesIn(Slots)) /\ Len(<<>>) = 0
  BY ConstantsAssumption
     DEF TypeOK, QueueType, ControllerType, DemuxerType, DecoderType,
         ConstantsAssumption
<1>1. packets' \in Seq(Packet) /\ Cardinality(DataPackets)' <= PacketLimit
  BY PacketTypeStep
<1>2. {packetsAborted, framesAborted}' \subseteq BOOLEAN
  BY <1>0
     DEF Next, vars, ControlNext, DemuxNext, DecodeNext, PresentNext,
         RequestSeek, RequestClose, TakeEvents, BeginTransition, Signal,
         ControlFlushesPackets, ControlFlushesFrames, Acknowledge,
         ApplySeekResult, StopSignals, AbortPackets, AbortFrames, Join, Claim,
         Uncancel, SeekFile, DemuxFlushesPackets, DemuxFlushesFrames,
         PostApplied, CheckPending, ClearCommand, Read, PushPacket, PushEof,
         TakePacket, TakeFlush, SendPacket, AdoptSerial, FlushAdopted,
         ReceiveFrame, AcquireFrame, DropDecoded, PushFrame, ReadSerial,
         PeekFrame, PopFrame, ReleaseFrame, NotePosition, CompletePresentation,
         FlushPackets, FlushFrames, Release, packetQueue, frameQueue,
         undecoded, unshown
<1> DEFINE Frames == /\ frames \in Seq(FramesIn(Slots)) /\ Len(frames) <= FrameLimit
                     /\ free \in Seq(Slots) /\ frameSerial \in Serials
<1>3. Frames'
  <2>1. CASE UNCHANGED <<frameQueue, slot, taken, present>>
    BY <1>0, <2>1 DEF frameQueue
  <2>2. ASSUME NEW s \in Serials, FlushFrames(s)
        PROVE  Frames'
    <3>1. frames' = <<>> /\ frameSerial' = s /\ free' \in Seq(Slots)
      BY <1>0, <2>2, FlushKeepsSlots
    <3>2. frames' \in Seq(FramesIn(Slots)) /\ Len(frames') = 0
      BY <1>0, <3>1
    <3> QED
      BY <1>0, <3>1, <3>2
  <2>3. CASE ControlFlushesFrames \/ Join \/ DemuxFlushesFrames
    BY <1>0, <2>2, <2>3 DEF ControlFlushesFrames, Join, DemuxFlushesFrames
  <2>4. CASE TakeFlush
    <3>1. pending \in Packet
      BY <2>4 DEF TakeFlush, HandsInv, TypeOK, DecoderType
    <3>2. pending.serial \in Serials
      BY <3>1 DEF Packet
    <3> QED
      BY <2>2, <2>4, <3>2 DEF TakeFlush
  <2>5. CASE FlushAdopted
    <3>1. decoderSerial \in Serials
      BY <1>0, <2>5 DEF FlushAdopted, HandsInv
    <3> QED
      BY <2>2, <2>5, <3>1 DEF FlushAdopted
  <2>6. CASE AbortFrames
    BY <1>0, <2>6 DEF AbortFrames
  <2>7. CASE AcquireFrame
    <3>1. free' = free \/ (free # <<>> /\ free' = Tail(free))
      BY <2>7 DEF AcquireFrame, HasRoom
    <3>2. free' \in Seq(Slots)
      BY <1>0, <3>1, TailHas
    <3> QED
      BY <1>0, <2>7, <3>2 DEF AcquireFrame
  <2>8. slot \in Slots => Append(free, slot) \in Seq(Slots)
    BY <1>0, AppendHas
  <2>9. CASE DropDecoded
    BY <1>0, <2>8, <2>9 DEF DropDecoded, Release, HandsInv
  <2>10. CASE PushFrame
    <3> DEFINE new == [kind |-> "Frame", slot |-> slot,
                       serial |-> decoderSerial, source |-> decoded]
    <3>1. slot \in Slots /\ decoderSerial \in Serials
      BY <1>0, <2>10 DEF PushFrame, HandsInv
    <3>2. CASE UNCHANGED frames /\ free' \in {free, Append(free, slot)}
      BY <1>0, <2>8, <2>10, <3>1, <3>2 DEF PushFrame
    <3>3. CASE frames' = Append(frames, new) /\ Len(frames) < FrameLimit
               /\ UNCHANGED free
      <4>0. decoded \in Serials
        BY <2>10, ContentTypes DEF PushFrame, ContentInv, CodecInv, Of
      <4>1. new \in FramesIn(Slots)
        BY <3>1, <4>0 DEF FramesIn
      <4>2. frames' \in Seq(FramesIn(Slots)) /\ Len(frames') = Len(frames) + 1
        BY <1>0, <3>3, <4>1, AppendHas
      <4> QED
        BY <1>0, <2>10, <3>3, <4>2 DEF PushFrame
    <3> QED
      BY <1>0, <2>10, <3>2, <3>3 DEF PushFrame
  <2>11. CASE PopFrame
    <3>1. frames' = frames \/ (frames # <<>> /\ frames' = Tail(frames))
      BY <2>11 DEF PopFrame
    <3>2. frames' \in Seq(FramesIn(Slots)) /\ Len(frames') <= FrameLimit
      BY <1>0, <3>1, TailHas
    <3> QED
      BY <1>0, <2>11, <3>2 DEF PopFrame, unshown
  <2>12. CASE ReleaseFrame
    <3>1. taken.slot \in Slots
      BY <2>12 DEF ReleaseFrame, HandsInv, FramesIn
    <3>2. free' \in Seq(Slots)
      BY <1>0, <2>12, <3>1, AppendHas DEF ReleaseFrame
    <3> QED
      BY <1>0, <2>12, <3>2 DEF ReleaseFrame, unshown
  <2>13. CASE ReadSerial \/ PeekFrame \/ NotePosition \/ CompletePresentation
    BY <1>0, <2>13
       DEF ReadSerial, PeekFrame, NotePosition, CompletePresentation, unshown
  <2> QED
    BY <2>1, <2>3, <2>4, <2>5, <2>6, <2>7, <2>9, <2>10, <2>11, <2>12, <2>13,
       PoolMoves DEF PresentNext
<1>4. Len(free') <= FrameLimit + 1
  <2>1. Len(free') \in Nat /\ Len(frames') \in Nat
    BY <1>3
  <2> QED
    BY <1>0, <2>1 DEF PoolInv, NumberInUse
<1> QED
  BY <1>1, <1>2, <1>3, <1>4 DEF QueueType

-----------------------------------------------------------------------------
(* The invariant is inductive                                              *)

LEMMA IInvInit == Init => IInv
<1> SUFFICES ASSUME Init
             PROVE  IInv
  OBVIOUS
<1> USE DEF Init
<1>0. /\ 1 \in Serials /\ MaxSeeks \in Nat /\ Length \in Nat /\ CodecDepth \in Nat
      /\ PacketLimit \in Nat /\ FrameLimit \in Nat /\ 0 \notin Slots
  BY ConstantsAssumption DEF Serials, Slots, ConstantsAssumption
<1>1. <<>> \in Seq(Event) /\ <<>> \in Seq(Packet) /\ <<>> \in Seq(Serials)
      /\ <<>> \in Seq(FramesIn(Slots)) /\ Len(<<>>) = 0 /\ DOMAIN <<>> = {}
  OBVIOUS
<1>2. Pool \in Seq(Slots) /\ Len(Pool) = FrameLimit + 1 /\ Range(Pool) = Slots
  BY <1>0 DEF Pool, Slots, Range
<1>3. TypeOK
  <2>1. RequestType
    BY <1>0, <1>1 DEF RequestType
  <2>2. ControllerType
    BY <1>0 DEF ControllerType
  <2>3. QueueType
    <3>1. DataPackets = {}
      BY <1>1 DEF DataPackets
    <3>2. Cardinality(DataPackets) <= PacketLimit
      BY <1>0, <3>1, FS_EmptySet
    <3>3. packets \in Seq(Packet) /\ frames \in Seq(FramesIn(Slots))
          /\ Len(frames) <= FrameLimit /\ frameSerial \in Serials
      BY <1>0, <1>1
    <3>4. free \in Seq(Slots) /\ Len(free) <= FrameLimit + 1
      BY <1>0, <1>2
    <3> QED
      BY <3>2, <3>3, <3>4 DEF QueueType
  <2>4. DemuxerType
    <3>1. {demuxSerial, claimed, source} \subseteq Serials /\ found \subseteq Serials
      BY <1>0
    <3>2. unread \in 0..Length
      BY <1>0
    <3> QED
      BY <3>1, <3>2 DEF DemuxerType
  <2>5. DecoderType
    <3>1. codec \in Seq(Serials) /\ Len(codec) <= CodecDepth
      BY <1>0, <1>1
    <3> QED
      BY <3>1 DEF DecoderType
  <2>6. OutputType
    BY DEF OutputType
  <2> QED
    BY <2>1, <2>2, <2>3, <2>4, <2>5, <2>6 DEF TypeOK
<1>4. BatchInv /\ GenerationInv
  BY <1>1 DEF BatchInv, InHand, GenerationInv
<1>5. DemuxInv /\ AppliedInv /\ HandsInv
  BY <1>1 DEF DemuxInv, AppliedInv, Settled, Results, HandsInv
<1>6. PoolInv
  <2>1. NumberInUse = FrameLimit + 1
    BY <1>0, <1>1, <1>2 DEF NumberInUse, Popped
  <2>2. SlotsInUse = Slots
    BY <1>1, <1>2 DEF SlotsInUse, Popped
  <2> QED
    BY <1>0, <2>1, <2>2 DEF PoolInv
<1>7. ContentInv
  BY <1>0, <1>1
     DEF ContentInv, FoundInv, PacketsInv, CodecInv, FramesInv, Of
<1> QED
  BY <1>3, <1>4, <1>5, <1>6, <1>7 DEF IInv

(***************************************************************************)
(* What a seek moves through the player's threads keeps all of this, for   *)
(* every number of seeks and every bound.                                  *)
(***************************************************************************)
THEOREM Inductive == Spec => []IInv
<1>1. IInv /\ [Next]_vars => IInv'
  <2> SUFFICES ASSUME IInv, [Next]_vars
               PROVE  IInv'
    OBVIOUS
  <2>0. TypeOK /\ BatchInv /\ GenerationInv /\ DemuxInv /\ AppliedInv
        /\ HandsInv /\ PoolInv /\ ContentInv
    BY DEF IInv
  <2>1. BatchInv' /\ GenerationInv'
    BY <2>0, RequestStep
  <2>2. DemuxInv' /\ AppliedInv'
    BY <2>0, DemuxStep, AppliedStep
  <2>3. HandsInv' /\ PoolInv' /\ ContentInv'
    BY <2>0, HandsStep, PoolStep, ContentStep
  <2>4. RequestType' /\ ControllerType'
    BY <2>0, RequestTypeStep, ControllerTypeStep
  <2>5. QueueType'
    BY <2>0, <2>3, QueueTypeStep
  <2>6. DemuxerType' /\ DecoderType' /\ OutputType'
    BY <2>0, DemuxerTypeStep, DecoderTypeStep, OutputTypeStep
  <2>7. TypeOK'
    BY <2>4, <2>5, <2>6 DEF TypeOK
  <2> QED
    BY <2>1, <2>2, <2>3, <2>7 DEF IInv
<1> QED
  BY IInvInit, <1>1, PTL DEF Spec

(***************************************************************************)
(* Every variable keeps to its type, and both queues, the codec and the    *)
(* pool to their bounds (PacketQueue::pushPacket(), FrameQueue::push()).   *)
(***************************************************************************)
THEOREM TypeCorrect == Spec => []TypeOK
<1>1. IInv => TypeOK
  BY DEF IInv
<1> QED
  BY <1>1, Inductive, PTL

(***************************************************************************)
(* The controller counts a seek as applied (Controller::applySeekResult()) *)
(* only while the demuxer stands where that seek goes, and the demuxer     *)
(* misses no serial: one it does not read for is still to be claimed.      *)
(***************************************************************************)
THEOREM PositionedWhenApplied == Spec => []AppliedMeansPositioned
<1>1. IInv => AppliedMeansPositioned
  BY DEF IInv, AppliedMeansPositioned, DemuxInv, AppliedInv, Settled
<1> QED
  BY <1>1, Inductive, PTL

-----------------------------------------------------------------------------
(* The pool is whole                                                       *)

\* The slots in the decoder's and in the output's hands, and all there are.
HeldSlots == (IF slot = 0 THEN <<>> ELSE <<slot>>)
               \o (IF Popped THEN <<taken.slot>> ELSE <<>>)
AllSlots == free \o SlotsOf(frames) \o HeldSlots

LEMMA AllSlotsHave ==
  ASSUME IInv, ~framesAborted
  PROVE  /\ AllSlots \in Seq(Slots)
         /\ Range(AllSlots) = Slots
         /\ Len(AllSlots) = FrameLimit + 1
<1> DEFINE One == IF slot = 0 THEN <<>> ELSE <<slot>>
           Other == IF Popped THEN <<taken.slot>> ELSE <<>>
<1>0. /\ free \in Seq(Slots) /\ frames \in Seq(FramesIn(Slots))
      /\ slot \in Slots \cup {0} /\ 0 \notin Slots
  BY ConstantsAssumption
     DEF IInv, TypeOK, QueueType, DecoderType, Slots, ConstantsAssumption
<1>1. ASSUME NEW x \in Slots
      PROVE  <<x>> \in Seq(Slots) /\ Len(<<x>>) = 1 /\ Range(<<x>>) = {x}
  <2>1. <<x>> \in Seq(Slots) /\ Len(<<x>>) = 1 /\ <<x>>[1] = x
        /\ DOMAIN <<x>> = {1}
    OBVIOUS
  <2> QED
    BY <2>1 DEF Range
<1>2. <<>> \in Seq(Slots) /\ Len(<<>>) = 0 /\ Range(<<>>) = {}
  BY DEF Range
<1>3. /\ One \in Seq(Slots)
      /\ Len(One) = IF slot = 0 THEN 0 ELSE 1
      /\ Range(One) = IF slot = 0 THEN {} ELSE {slot}
  <2>1. CASE slot = 0
    BY <1>2, <2>1
  <2>2. CASE slot # 0
    BY <1>0, <1>1, <2>2
  <2> QED
    BY <2>1, <2>2
<1>4. /\ Other \in Seq(Slots)
      /\ Len(Other) = IF Popped THEN 1 ELSE 0
      /\ Range(Other) = IF Popped THEN {taken.slot} ELSE {}
  <2>1. CASE ~Popped
    BY <1>2, <2>1
  <2>2. CASE Popped
    <3>1. taken.slot \in Slots
      BY <2>2 DEF IInv, HandsInv, Popped, FramesIn
    <3> QED
      BY <1>1, <2>2, <3>1
  <2> QED
    BY <2>1, <2>2
<1>5. /\ SlotsOf(frames) \in Seq(Slots) /\ Len(SlotsOf(frames)) = Len(frames)
      /\ Range(SlotsOf(frames)) = {frames[i].slot : i \in DOMAIN frames}
  BY <1>0, SlotsOfFrames
<1> HIDE DEF One, Other
<1>6. /\ One \o Other \in Seq(Slots)
      /\ Len(One \o Other) = Len(One) + Len(Other)
      /\ Range(One \o Other) = Range(One) \cup Range(Other)
  <2>0. One \in Seq(Slots) /\ Other \in Seq(Slots)
    BY <1>3, <1>4
  <2>1. One \o Other \in Seq(Slots) /\ Len(One \o Other) = Len(One) + Len(Other)
    BY <2>0, ConcatProperties
  <2>2. Range(One \o Other) = Range(One) \cup Range(Other)
    BY <2>0, RangeConcatenation
  <2> QED
    BY <2>1, <2>2
<1>7. /\ free \o SlotsOf(frames) \in Seq(Slots)
      /\ Len(free \o SlotsOf(frames)) = Len(free) + Len(frames)
      /\ Range(free \o SlotsOf(frames)) = Range(free) \cup Range(SlotsOf(frames))
  BY <1>0, <1>5, ConcatProperties, RangeConcatenation
<1>8. HeldSlots = One \o Other
  BY DEF HeldSlots, One, Other
<1>9. /\ AllSlots \in Seq(Slots)
      /\ Len(AllSlots) = Len(free) + Len(frames) + Len(One) + Len(Other)
      /\ Range(AllSlots) = Range(free) \cup Range(SlotsOf(frames))
                             \cup Range(One) \cup Range(Other)
  <2>1. AllSlots = (free \o SlotsOf(frames)) \o (One \o Other)
    BY <1>8 DEF AllSlots
  <2> DEFINE queued == free \o SlotsOf(frames)
             held == One \o Other
  <2>a. /\ queued \in Seq(Slots) /\ held \in Seq(Slots)
        /\ AllSlots = queued \o held
    BY <1>6, <1>7, <2>1
  <2>b. /\ Len(queued) = Len(free) + Len(frames)
        /\ Len(held) = Len(One) + Len(Other)
        /\ Range(queued) = Range(free) \cup Range(SlotsOf(frames))
        /\ Range(held) = Range(One) \cup Range(Other)
    BY <1>6, <1>7
  <2> HIDE DEF queued, held
  <2>2. /\ Len(AllSlots) = (Len(free) + Len(frames)) + (Len(One) + Len(Other))
        /\ AllSlots \in Seq(Slots)
    <3>1. AllSlots \in Seq(Slots) /\ Len(AllSlots) = Len(queued) + Len(held)
      BY <2>a, ConcatProperties
    <3> QED
      BY <2>b, <3>1
  <2>3. Range(AllSlots) = (Range(free) \cup Range(SlotsOf(frames)))
                            \cup (Range(One) \cup Range(Other))
    BY <2>a, <2>b, RangeConcatenation
  <2>4. {Len(free), Len(frames), Len(One), Len(Other)} \subseteq Nat
    BY <1>0, <1>3, <1>4
  <2> QED
    BY <2>2, <2>3, <2>4
<1>10. NumberInUse = FrameLimit + 1 /\ SlotsInUse = Slots
  BY DEF IInv, PoolInv
<1>11. Len(AllSlots) = NumberInUse
  BY <1>3, <1>4, <1>9 DEF NumberInUse
<1>12. Range(AllSlots) = SlotsInUse
  BY <1>3, <1>4, <1>5, <1>9 DEF SlotsInUse
<1> QED
  BY <1>9, <1>10, <1>11, <1>12

(***************************************************************************)
(* Until the queue is aborted, every slot of the pool is free, queued, in  *)
(* the decoder's hand or in the output's, whatever flush came between      *)
(* acquireFrame(), push(), pop() and release().                            *)
(***************************************************************************)
THEOREM PoolIsWhole == Spec => []FramePoolIsWhole
<1>1. IInv => FramePoolIsWhole
  BY AllSlotsHave DEF FramePoolIsWhole, AllSlots, HeldSlots, Popped
<1> QED
  BY <1>1, Inductive, PTL

\* No slot stands twice among all there are.
NoSlotTwice ==
  ~framesAborted => \A i, j \in DOMAIN AllSlots :
                      AllSlots[i] = AllSlots[j] => i = j

(***************************************************************************)
(* So no slot is in two hands: the decoder never writes a frame that the   *)
(* output reads or that the queue holds.                                   *)
(***************************************************************************)
THEOREM NoSlotInTwoHands == Spec => []NoSlotTwice
<1>1. IInv => NoSlotTwice
  <2> SUFFICES ASSUME IInv, ~framesAborted
               PROVE  \A i, j \in DOMAIN AllSlots :
                        AllSlots[i] = AllSlots[j] => i = j
    BY DEF NoSlotTwice
  <2>1. /\ AllSlots \in Seq(Slots) /\ Range(AllSlots) = Slots
        /\ Len(AllSlots) = FrameLimit + 1
    BY AllSlotsHave
  <2>2. DOMAIN AllSlots = 1..(FrameLimit + 1) /\ AllSlots \in [1..(FrameLimit + 1) -> Slots]
    BY <2>1
  <2>3. IsFiniteSet(1..(FrameLimit + 1))
    BY FS_Interval, ConstantsAssumption DEF ConstantsAssumption
  <2>4. Slots = 1..(FrameLimit + 1)
    BY DEF Slots
  <2>5. AllSlots \in Surjection(1..(FrameLimit + 1), 1..(FrameLimit + 1))
    <3>1. \A t \in 1..(FrameLimit + 1) :
            \E i \in 1..(FrameLimit + 1) : AllSlots[i] = t
      BY <2>1, <2>2, <2>4 DEF Range
    <3> QED
      BY <2>2, <2>4, <3>1 DEF Surjection
  <2>6. AllSlots \in Injection(1..(FrameLimit + 1), 1..(FrameLimit + 1))
    BY <2>3, <2>5, FS_SurjSameCardinalityImpliesInj
  <2> QED
    BY <2>2, <2>6 DEF Injection, IsInjective
<1> QED
  BY <1>1, Inductive, PTL

-----------------------------------------------------------------------------
(* A frame is shown of its seek                                            *)

\* What is of a serial is of the newest seek up to it that found its place.
LEMMA OfIsPlaceOf ==
  ASSUME NEW src \in Int, NEW s \in Int, found \subseteq Int, Of(src, s)
  PROVE  src = PlaceOf(s)
<1> DEFINE S == {t \in found : t <= s}
           IsMax(x) == x \in S /\ \A y \in S : x >= y
<1>1. IsMax(src)
  BY DEF Of
<1>2. \A x : IsMax(x) => x = src
  BY <1>1
<1>3. Max(S) = CHOOSE x : IsMax(x)
  BY DEF Max
<1>4. Max(S) = src
  BY <1>1, <1>2, <1>3
<1> QED
  BY <1>4 DEF PlaceOf

(***************************************************************************)
(* Whatever packets, codec and frame queue still held when a seek began, a *)
(* frame presented under a serial (publishPresentedFrame()) was read where *)
(* the newest seek that succeeded by then went.                            *)
(***************************************************************************)
THEOREM ShownIsRight == Spec => []ShownIsOfItsSeek
<1>1. IInv => ShownIsOfItsSeek
  <2> SUFFICES ASSUME IInv, present = "note"
               PROVE  taken.source = PlaceOf(taken.serial)
    BY DEF ShownIsOfItsSeek
  <2>0. TypeOK /\ HandsInv /\ ContentInv
    BY DEF IInv
  <2>1. taken \in FramesIn({0})
    BY <2>0 DEF HandsInv
  <2>2. taken \in FramesIn(Slots \cup {0}) /\ taken # Nothing
    BY <2>1 DEF FramesIn, Nothing
  <2>3. Of(taken.source, taken.serial)
    BY <2>0, <2>2 DEF ContentInv, FramesInv
  <2>4. taken.source \in Int /\ taken.serial \in Int /\ found \subseteq Int
    BY <2>0, <2>2, ContentTypes
  <2> QED
    BY <2>3, <2>4, OfIsPlaceOf
<1> QED
  BY <1>1, Inductive, PTL
====
