-------------------------- MODULE QueuedAudioProofs --------------------------
(***************************************************************************)
(* Proofs about QueuedAudio, for every kind of source and every number of  *)
(* seeks, frames and places in the rings.                                  *)
(***************************************************************************)
EXTENDS QueuedAudio, TLAPS

Frames == [epoch : Int, pos : Int]

FileType ==
  /\ pendingSeek \in Int /\ resetTo \in Int
  /\ file.epoch \in Int /\ file.pos \in Int /\ file.at \in Int
  /\ file = [epoch |-> file.epoch, pos |-> file.pos, at |-> file.at]

RingType ==
  /\ decoded \in Seq(Frames)
  /\ processed.read \in Int /\ processed.written \in Int
  /\ processed.slots \in [0 .. Capacity - 1 -> Frames]
  /\ processed = [read |-> processed.read, written |-> processed.written,
                  slots |-> processed.slots]

ThreadType ==
  /\ owner.n \in Int /\ owner = [pc |-> owner.pc, n |-> owner.n]
  /\ dsp.chunk \in Frames /\ dsp.ret \in {"top", "choose", "wait"}
  /\ dsp = [pc |-> dsp.pc, waits |-> dsp.waits, commit |-> dsp.commit,
            ret |-> dsp.ret, chunk |-> dsp.chunk]
  /\ output.from \in Int /\ output = [pc |-> output.pc, from |-> output.from]

TypeInv == FileType /\ RingType /\ ThreadType

\* A frame has its type.
LEMMA FrameType == NoFrame \in Frames /\ \A e, p \in Int : Frame(e, p) \in Frames
  BY DEF NoFrame, Frame, Frames

(***************************************************************************)
(* The variables that the other proofs speak of keep their types.          *)
(***************************************************************************)
THEOREM TypeCorrect == Spec => []TypeInv
<1> USE QueuedAudioAssumption, FrameType DEF QueuedAudioAssumption, Woken
<1>1. Init => TypeInv
  BY DEF Init, TypeInv, FileType, RingType, ThreadType
<1>2. TypeInv /\ [Next]_vars => TypeInv'
  <2> SUFFICES ASSUME TypeInv, [Next]_vars PROVE TypeInv'
    OBVIOUS
  <2> USE DEF TypeInv, seekState, resets, data
  <2>1. CASE RequestSeek
    <3>1. FileType'
      BY <2>1 DEF RequestSeek, BeginSeek, ThreadType, FileType
    <3>2. RingType'
      BY <2>1 DEF RequestSeek, BeginSeek, RingType
    <3>3. ThreadType'
      BY <2>1 DEF RequestSeek, BeginSeek, ThreadType
    <3> QED
      BY <3>1, <3>2, <3>3
  <2>2. CASE Replay
    <3>1. FileType'
      BY <2>2 DEF Replay, BeginSeek, ThreadType, FileType
    <3>2. RingType'
      BY <2>2 DEF Replay, BeginSeek, RingType
    <3>3. ThreadType'
      BY <2>2 DEF Replay, BeginSeek, ThreadType
    <3> QED
      BY <3>1, <3>2, <3>3
  <2>3. CASE RequestStreamReset
    <3>1. FileType'
      BY <2>3 DEF RequestStreamReset, FileType
    <3>2. RingType'
      BY <2>3 DEF RequestStreamReset, RingType
    <3>3. ThreadType'
      BY <2>3 DEF RequestStreamReset, ThreadType
    <3> QED
      BY <3>1, <3>2, <3>3
  <2>4. CASE ContinueRequest
    <3>1. FileType'
      BY <2>4 DEF ContinueRequest, FileType
    <3>2. RingType'
      BY <2>4 DEF ContinueRequest, RingType
    <3>3. ThreadType'
      BY <2>4 DEF ContinueRequest, ThreadType
    <3> QED
      BY <3>1, <3>2, <3>3
  <2>5. CASE Pause
    <3>1. FileType'
      BY <2>5 DEF Pause, FileType
    <3>2. RingType'
      BY <2>5 DEF Pause, RingType
    <3>3. ThreadType'
      BY <2>5 DEF Pause, ThreadType
    <3> QED
      BY <3>1, <3>2, <3>3
  <2>6. CASE Resume
    <3>1. FileType'
      BY <2>6 DEF Resume, FileType
    <3>2. RingType'
      BY <2>6 DEF Resume, RingType
    <3>3. ThreadType'
      BY <2>6 DEF Resume, ThreadType
    <3> QED
      BY <3>1, <3>2, <3>3
  <2>7. CASE Output
    <3>1. CASE OutputPaused /\ UNCHANGED data
      <4>1. FileType'
        BY <2>7, <3>1 DEF Output, OutputPaused, FadeOut, FileType
      <4>2. RingType'
        BY <2>7, <3>1 DEF Output, OutputPaused, FadeOut, RingType
      <4>3. ThreadType'
        BY <2>7, <3>1 DEF Output, OutputPaused, FadeOut, ThreadType
      <4> QED
        BY <4>1, <4>2, <4>3
    <3>2. CASE OutputHeldOff /\ UNCHANGED data
      <4>1. FileType'
        BY <2>7, <3>2 DEF Output, OutputHeldOff, FileType
      <4>2. RingType'
        BY <2>7, <3>2 DEF Output, OutputHeldOff, RingType
      <4>3. ThreadType'
        BY <2>7, <3>2 DEF Output, OutputHeldOff, ThreadType
      <4> QED
        BY <4>1, <4>2, <4>3
    <3>3. CASE OutputBegins /\ UNCHANGED data
      <4>1. FileType'
        BY <2>7, <3>3 DEF Output, OutputBegins, FileType
      <4>2. RingType'
        BY <2>7, <3>3 DEF Output, OutputBegins, RingType
      <4>3. ThreadType'
        BY <2>7, <3>3 DEF Output, OutputBegins, RingType, ThreadType
      <4> QED
        BY <4>1, <4>2, <4>3
    <3>4. CASE OutputCopies
      <4>1. FileType'
        BY <2>7, <3>4 DEF Output, OutputCopies, FileType
      <4>2. RingType'
        BY <2>7, <3>4 DEF Output, OutputCopies, ThreadType, RingType
      <4>3. ThreadType'
        <5>1. output' = [pc |-> "signal", from |-> 0] /\ UNCHANGED <<owner, dsp>>
          BY <2>7, <3>4 DEF Output, OutputCopies, ThreadType
        <5> QED
          BY <5>1 DEF ThreadType
      <4> QED
        BY <4>1, <4>2, <4>3
    <3>5. CASE OutputSignals /\ UNCHANGED data
      <4>1. FileType'
        BY <2>7, <3>5 DEF Output, OutputSignals, FileType
      <4>2. RingType'
        BY <2>7, <3>5 DEF Output, OutputSignals, RingType
      <4>3. ThreadType'
        BY <2>7, <3>5 DEF Output, OutputSignals, ThreadType
      <4> QED
        BY <4>1, <4>2, <4>3
    <3>6. CASE OutputStarves /\ UNCHANGED data
      <4>1. FileType'
        BY <2>7, <3>6 DEF Output, OutputStarves, FileType
      <4>2. RingType'
        BY <2>7, <3>6 DEF Output, OutputStarves, RingType
      <4>3. ThreadType'
        BY <2>7, <3>6 DEF Output, OutputStarves, ThreadType
      <4> QED
        BY <4>1, <4>2, <4>3
    <3>7. CASE OutputEnds /\ UNCHANGED data
      <4>1. FileType'
        BY <2>7, <3>7 DEF Output, OutputEnds, FadeOut, FileType
      <4>2. RingType'
        BY <2>7, <3>7 DEF Output, OutputEnds, FadeOut, RingType
      <4>3. ThreadType'
        BY <2>7, <3>7 DEF Output, OutputEnds, FadeOut, ThreadType
      <4> QED
        BY <4>1, <4>2, <4>3
    <3> QED
      BY <2>7, <3>1, <3>2, <3>3, <3>4, <3>5, <3>6, <3>7 DEF Output
  <2>8. CASE Dsp
    <3>1. CASE DspTop
      <4>1. FileType'
        BY <2>8, <3>1 DEF Dsp, DspTop, DspGoes, FileType
      <4>2. RingType'
        BY <2>8, <3>1 DEF Dsp, DspTop, DspGoes, RingType
      <4>3. ThreadType'
        BY <2>8, <3>1 DEF Dsp, DspTop, DspGoes, ThreadType
      <4> QED
        BY <4>1, <4>2, <4>3
    <3>2. CASE DspTakesStreamReset
      <4>1. FileType'
        BY <2>8, <3>2 DEF Dsp, DspTakesStreamReset, DspGoes, FileType
      <4>2. RingType'
        BY <2>8, <3>2 DEF Dsp, DspTakesStreamReset, DspGoes, RingType
      <4>3. ThreadType'
        BY <2>8, <3>2 DEF Dsp, DspTakesStreamReset, DspGoes, ThreadType
      <4> QED
        BY <4>1, <4>2, <4>3
    <3>3. CASE DspEmptiesRings
      <4>1. FileType'
        BY <2>8, <3>3 DEF Dsp, DspEmptiesRings, Discarded, DspGoes, FileType
      <4>2. RingType'
        BY <2>8, <3>3 DEF Dsp, DspEmptiesRings, Discarded, DspGoes, RingType
      <4>3. ThreadType'
        BY <2>8, <3>3 DEF Dsp, DspEmptiesRings, Discarded, DspGoes, ThreadType
      <4> QED
        BY <4>1, <4>2, <4>3
    <3>4. CASE DspRestarts
      <4>1. FileType'
        BY <2>8, <3>4 DEF Dsp, DspRestarts, DspGoes, FileType
      <4>2. RingType'
        BY <2>8, <3>4 DEF Dsp, DspRestarts, DspGoes, RingType
      <4>3. ThreadType'
        BY <2>8, <3>4 DEF Dsp, DspRestarts, DspGoes, ThreadType
      <4> QED
        BY <4>1, <4>2, <4>3
    <3>5. CASE DspApplies
      <4>1. FileType'
        BY <2>8, <3>5 DEF Dsp, DspApplies, DspGoes, FileType
      <4>2. RingType'
        BY <2>8, <3>5 DEF Dsp, DspApplies, DspGoes, RingType
      <4>3. ThreadType'
        BY <2>8, <3>5 DEF Dsp, DspApplies, DspGoes, ThreadType
      <4> QED
        BY <4>1, <4>2, <4>3
    <3>6. CASE DspFinishes
      <4>1. FileType'
        BY <2>8, <3>6 DEF Dsp, DspFinishes, DspGoes, FileType
      <4>2. RingType'
        BY <2>8, <3>6 DEF Dsp, DspFinishes, DspGoes, RingType
      <4>3. ThreadType'
        BY <2>8, <3>6 DEF Dsp, DspFinishes, DspGoes, ThreadType
      <4> QED
        BY <4>1, <4>2, <4>3
    <3>7. CASE DspChooses
      <4>1. FileType'
        BY <2>8, <3>7 DEF Dsp, DspChooses, DspWaits, DspGoes, FileType
      <4>2. RingType'
        <5>1. decoded # <<>> => Tail(decoded) \in Seq(Frames)
          BY DEF RingType
        <5>2. UNCHANGED processed /\ (decoded' = decoded \/ (decoded # <<>> /\ decoded' = Tail(decoded)))
          BY <2>8, <3>7 DEF Dsp, DspChooses
        <5> QED
          BY <5>1, <5>2 DEF RingType
      <4>3. ThreadType'
        <5>1. decoded # <<>> => Head(decoded) \in Frames
          BY DEF RingType
        <5>2. UNCHANGED <<owner, output>>
          BY <2>8, <3>7 DEF Dsp, DspChooses
        <5>3. /\ dsp'.ret \in {dsp.ret, "wait"}
              /\ dsp'.chunk = dsp.chunk \/ (decoded # <<>> /\ dsp'.chunk = Head(decoded))
              /\ dsp' = [pc |-> dsp'.pc, waits |-> dsp'.waits, commit |-> dsp'.commit,
                         ret |-> dsp'.ret, chunk |-> dsp'.chunk]
          BY <3>7 DEF DspChooses, DspWaits, DspGoes, ThreadType
        <5> QED
          BY <5>1, <5>2, <5>3 DEF ThreadType
      <4> QED
        BY <4>1, <4>2, <4>3
    <3>8. CASE DspDropsChunk
      <4>1. FileType'
        BY <2>8, <3>8 DEF Dsp, DspDropsChunk, DspGoes, FileType
      <4>2. RingType'
        BY <2>8, <3>8 DEF Dsp, DspDropsChunk, DspGoes, RingType
      <4>3. ThreadType'
        <5>1. /\ dsp' = [pc |-> "top", waits |-> dsp.waits, commit |-> dsp.commit,
                       ret |-> dsp.ret, chunk |-> NoFrame]
              /\ UNCHANGED <<owner, output>>
          BY <2>8, <3>8 DEF Dsp, DspDropsChunk, ThreadType
        <5> QED
          BY <5>1 DEF ThreadType
      <4> QED
        BY <4>1, <4>2, <4>3
    <3>9. CASE DspKeepsChunk
      <4>1. FileType'
        BY <2>8, <3>9 DEF Dsp, DspKeepsChunk, DspGoes, FileType
      <4>2. RingType'
        BY <2>8, <3>9 DEF Dsp, DspKeepsChunk, DspGoes, RingType
      <4>3. ThreadType'
        BY <2>8, <3>9 DEF Dsp, DspKeepsChunk, DspGoes, ThreadType
      <4> QED
        BY <4>1, <4>2, <4>3
    <3>10. CASE DspPublishes
      <4>1. FileType'
        BY <2>8, <3>10 DEF Dsp, DspPublishes, Written, DspGoes, FileType
      <4>2. RingType'
        <5>1. decoded' = decoded /\ processed' = Written(processed, dsp.chunk)
          BY <2>8, <3>10 DEF Dsp, DspPublishes
        <5>2. /\ processed'.read = processed.read
              /\ processed'.written = processed.written + 1
              /\ processed'.slots = [processed.slots EXCEPT
                                       ![processed.written % Capacity] = dsp.chunk]
              /\ processed' = [read |-> processed'.read, written |-> processed'.written,
                               slots |-> processed'.slots]
          BY <5>1 DEF RingType, Written
        <5> QED
          BY <5>1, <5>2, SMTT(20) DEF RingType, ThreadType
      <4>3. ThreadType'
        <5>1. /\ dsp' = [pc |-> "finish", waits |-> dsp.waits, commit |-> dsp.commit,
                       ret |-> "top", chunk |-> NoFrame]
              /\ UNCHANGED <<owner, output>>
          BY <2>8, <3>10 DEF Dsp, DspPublishes, ThreadType
        <5> QED
          BY <5>1 DEF ThreadType
      <4> QED
        BY <4>1, <4>2, <4>3
    <3>11. CASE DspTestsOrSleeps
      <4>1. FileType'
        BY <2>8, <3>11 DEF Dsp, DspTestsOrSleeps, DspGoes, FileType
      <4>2. RingType'
        BY <2>8, <3>11 DEF Dsp, DspTestsOrSleeps, DspGoes, RingType
      <4>3. ThreadType'
        BY <2>8, <3>11 DEF Dsp, DspTestsOrSleeps, DspGoes, ThreadType
      <4> QED
        BY <4>1, <4>2, <4>3
    <3>12. CASE DspFindsEnd
      <4>1. FileType'
        BY <2>8, <3>12 DEF Dsp, DspFindsEnd, DspWaits, FileType
      <4>2. RingType'
        BY <2>8, <3>12 DEF Dsp, DspFindsEnd, DspWaits, RingType
      <4>3. ThreadType'
        <5>1. UNCHANGED <<owner, output>>
          BY <2>8, <3>12 DEF Dsp, DspFindsEnd
        <5>2. /\ dsp'.ret \in {dsp.ret, "wait"} /\ dsp'.chunk = dsp.chunk
              /\ dsp' = [pc |-> dsp'.pc, waits |-> dsp'.waits, commit |-> dsp'.commit,
                         ret |-> dsp'.ret, chunk |-> dsp'.chunk]
          BY <3>12 DEF DspFindsEnd, DspWaits, ThreadType
        <5> QED
          BY <5>1, <5>2 DEF ThreadType
      <4> QED
        BY <4>1, <4>2, <4>3
    <3> QED
      BY <2>8, <3>1, <3>2, <3>3, <3>4, <3>5, <3>6, <3>7, <3>8, <3>9, <3>10, <3>11,
         <3>12
         DEF Dsp
  <2>9. CASE Source
    <3>1. CASE FileTop
      <4>1. FileType'
        BY <2>9, <3>1 DEF Source, FileTop, FileType
      <4>2. RingType'
        BY <2>9, <3>1 DEF Source, FileTop, RingType
      <4>3. ThreadType'
        BY <2>9, <3>1 DEF Source, FileTop, ThreadType
      <4> QED
        BY <4>1, <4>2, <4>3
    <3>2. CASE FileSeeks
      <4>1. FileType'
        BY <2>9, <3>2 DEF Source, FileSeeks, FileType
      <4>2. RingType'
        BY <2>9, <3>2 DEF Source, FileSeeks, RingType
      <4>3. ThreadType'
        BY <2>9, <3>2 DEF Source, FileSeeks, ThreadType
      <4> QED
        BY <4>1, <4>2, <4>3
    <3>3. CASE FileAsksForReset
      <4>1. FileType'
        BY <2>9, <3>3 DEF Source, FileAsksForReset, FileType
      <4>2. RingType'
        BY <2>9, <3>3 DEF Source, FileAsksForReset, RingType
      <4>3. ThreadType'
        BY <2>9, <3>3 DEF Source, FileAsksForReset, ThreadType
      <4> QED
        BY <4>1, <4>2, <4>3
    <3>4. CASE StreamTop
      <4>1. FileType'
        BY <2>9, <3>4 DEF Source, StreamTop, ThreadType, FileType
      <4>2. RingType'
        BY <2>9, <3>4 DEF Source, StreamTop, RingType
      <4>3. ThreadType'
        BY <2>9, <3>4 DEF Source, StreamTop, ThreadType
      <4> QED
        BY <4>1, <4>2, <4>3
    <3>5. CASE SourceWrites
      <4>1. FileType'
        BY <2>9, <3>5 DEF Source, SourceWrites, FileType
      <4>2. RingType'
        <5>1. Frame(file.epoch, file.pos) \in Frames
          BY DEF FileType
        <5>2. Append(decoded, Frame(file.epoch, file.pos)) \in Seq(Frames)
          BY <5>1 DEF RingType
        <5> QED
          BY <2>9, <3>5, <5>2 DEF Source, SourceWrites, RingType
      <4>3. ThreadType'
        BY <2>9, <3>5 DEF Source, SourceWrites, ThreadType
      <4> QED
        BY <4>1, <4>2, <4>3
    <3>6. CASE SourceEnds
      <4>1. FileType'
        BY <2>9, <3>6 DEF Source, SourceEnds, FileType
      <4>2. RingType'
        BY <2>9, <3>6 DEF Source, SourceEnds, RingType
      <4>3. ThreadType'
        BY <2>9, <3>6 DEF Source, SourceEnds, ThreadType
      <4> QED
        BY <4>1, <4>2, <4>3
    <3>7. CASE SourceTestsOrSleeps
      <4>1. FileType'
        BY <2>9, <3>7 DEF Source, SourceTestsOrSleeps, FileType
      <4>2. RingType'
        BY <2>9, <3>7 DEF Source, SourceTestsOrSleeps, RingType
      <4>3. ThreadType'
        BY <2>9, <3>7 DEF Source, SourceTestsOrSleeps, ThreadType
      <4> QED
        BY <4>1, <4>2, <4>3
    <3> QED
      BY <2>9, <3>1, <3>2, <3>3, <3>4, <3>5, <3>6, <3>7 DEF Source
  <2>10. CASE UNCHANGED vars
    BY <2>10 DEF vars, FileType, RingType, ThreadType
  <2> QED
    BY <2>1, <2>2, <2>3, <2>4, <2>5, <2>6, <2>7, <2>8, <2>9, <2>10 DEF Next
<1> QED
  BY <1>1, <1>2, PTL DEF Spec

-----------------------------------------------------------------------------
(* A callback that copies began outside a commit, and none begins before   *)
(* it is done: only the callback itself, at its end, makes a requested     *)
(* fade a commit that is ready.                                            *)
HeldOff == output.pc = "copy" => phase \in {"Idle", "FadeOutRequested"}

\* While the filter thread resets a stream it holds the mutex a request needs.
ResetHolds ==
  kind = "stream" /\ dsp.pc \in {"empty", "restart", "applied"} =>
    owner.pc = "idle" /\ CommitIsCurrent

\* No reset of a stream comes between the two halves of a read.
CopyHolds == kind = "stream" /\ output.pc = "copy" => output.from = processed.read

\* After the reset of a commit all that is queued is of the stream's serial,
\* the commit superseded or not.
FreshDecoded == \A i \in DOMAIN decoded : decoded[i].epoch = streamSerial

FreshProcessed ==
  \A i \in processed.read .. processed.written - 1 :
    processed.slots[i % Capacity].epoch = streamSerial

FreshChunk == dsp.pc \in {"check", "publish"} => dsp.chunk.epoch = streamSerial

Committing == kind = "stream" /\ dsp.commit # "None" /\ dsp.pc # "empty"

Fresh == Committing => FreshDecoded /\ FreshProcessed /\ FreshChunk

IInv == HeldOff /\ ResetHolds /\ CopyHolds /\ Fresh

(***************************************************************************)
(* What the four parts say of a step that leaves what they speak of alone, *)
(* or only advances the owner and the phase outside a commit.              *)
(***************************************************************************)
LEMMA Unmoved ==
  ASSUME IInv, UNCHANGED <<kind, phase, requestSerial, commitSerial, streamSerial,
                           decoded, processed, owner, output>>,
         dsp'.pc = dsp.pc, dsp'.commit = dsp.commit, dsp'.chunk = dsp.chunk
  PROVE  IInv'
  BY DEF IInv, HeldOff, ResetHolds, CommitIsCurrent, CopyHolds, Fresh, Committing,
     FreshDecoded, FreshProcessed, FreshChunk

\* A thread that is woken keeps all but its place, and that only if it slept.
LEMMA WokenDsp ==
  ASSUME TypeInv, dsp' \in {dsp, Woken(dsp)}
  PROVE  /\ dsp'.commit = dsp.commit /\ dsp'.chunk = dsp.chunk
         /\ dsp'.pc = dsp.pc \/ (dsp.pc = "asleep" /\ dsp'.pc = "wait")
  BY DEF TypeInv, ThreadType, Woken

\* Which leaves all four parts alone too.
LEMMA OnlyWoken ==
  ASSUME TypeInv, IInv, dsp' \in {dsp, Woken(dsp)},
         UNCHANGED <<kind, phase, requestSerial, commitSerial, streamSerial,
                     decoded, processed, owner, output>>
  PROVE  IInv'
  BY WokenDsp
     DEF IInv, HeldOff, ResetHolds, CommitIsCurrent, CopyHolds, Fresh, Committing,
         FreshDecoded, FreshProcessed, FreshChunk

(***************************************************************************)
(* The invariant holds in every reachable state of the pipeline, whatever  *)
(* the order in which the source, the filter thread and the callback meet  *)
(* the phases of a transition.                                             *)
(***************************************************************************)
THEOREM Inductive == Spec => []IInv
<1>1. Init => IInv
  BY DEF Init, IInv, HeldOff, ResetHolds, CopyHolds, Fresh, Committing
<1>2. TypeInv /\ IInv /\ [Next]_vars => IInv'
  <2> SUFFICES ASSUME TypeInv, IInv, [Next]_vars PROVE IInv'
    OBVIOUS
  <2> USE DEF transition, seekState, resets, ends, data
  <2>1. CASE RequestSeek \/ Replay
    <3>1. /\ kind # "stream" /\ kind' = kind
          /\ UNCHANGED <<phase, output>>
      BY <2>1 DEF RequestSeek, Replay, BeginSeek
    <3> QED
      BY <3>1 DEF IInv, HeldOff, ResetHolds, CopyHolds, Fresh, Committing
  \* The filter thread holds the mutex while it resets a stream.
  <2>2. CASE RequestStreamReset
    BY <2>2
       DEF RequestStreamReset, DspHoldsReset, IInv, HeldOff, ResetHolds, CopyHolds,
           Fresh, Committing, FreshDecoded, FreshProcessed, FreshChunk
  <2>3. CASE ContinueRequest
    <3>1. /\ UNCHANGED <<kind, streamSerial, decoded, processed, output>>
          /\ dsp' \in {dsp, Woken(dsp)}
          /\ phase' \in {phase, "FadeOutRequested"}
          /\ owner.pc # "idle"
      BY <2>3 DEF ContinueRequest, CountRequest, RequestFade
    <3> QED
      BY <3>1, WokenDsp
         DEF IInv, HeldOff, ResetHolds, CopyHolds, Fresh, Committing, FreshDecoded,
             FreshProcessed, FreshChunk
  <2>4. CASE Pause \/ Resume
    BY <2>4, Unmoved DEF Pause, Resume
  <2>5. CASE Output
    <3>0. UNCHANGED <<kind, streamSerial, owner>>
      BY <2>5 DEF Output
    <3>1. CASE (OutputPaused \/ OutputEnds) /\ UNCHANGED data
      <4>1. /\ output'.pc # "copy"
            /\ dsp' \in {dsp, Woken(dsp)}
            /\ UNCHANGED <<decoded, processed>>
        BY <3>1 DEF OutputPaused, OutputEnds, FadeOut, TypeInv, ThreadType
      <4>2. CommitIsCurrent => CommitIsCurrent'
        BY <3>1 DEF OutputPaused, OutputEnds, FadeOut, Swap, CommitIsCurrent
      <4> QED
        BY <3>0, <4>1, <4>2, WokenDsp
           DEF IInv, HeldOff, ResetHolds, CopyHolds, Fresh, Committing, FreshDecoded,
               FreshProcessed, FreshChunk
    <3>2. CASE OutputHeldOff /\ UNCHANGED data
      BY <3>0, <3>2, OnlyWoken DEF OutputHeldOff
    <3>3. CASE OutputBegins /\ UNCHANGED data
      BY <3>0, <3>3
         DEF OutputBegins, TypeInv, ThreadType, IInv, HeldOff, ResetHolds,
             CommitIsCurrent, CopyHolds, Fresh, Committing, FreshDecoded,
             FreshProcessed, FreshChunk
    <3>4. CASE OutputCopies
      <4>1. /\ output'.pc # "copy" /\ dsp' = dsp
            /\ UNCHANGED <<phase, requestSerial, commitSerial, decoded>>
            /\ processed'.read = output.from + 1
            /\ processed'.written = processed.written
            /\ processed'.slots = processed.slots
        BY <3>4 DEF OutputCopies, TypeInv, ThreadType, RingType
      <4>2. kind = "stream" => output.from = processed.read
        BY <3>4 DEF OutputCopies, IInv, CopyHolds
      <4>3. processed.read \in Int /\ processed.written \in Int
        BY DEF TypeInv, RingType
      <4>4. kind = "stream" /\ FreshProcessed => FreshProcessed'
        BY <3>0, <4>1, <4>2, <4>3 DEF FreshProcessed
      <4> QED
        BY <3>0, <4>1, <4>4
           DEF IInv, HeldOff, ResetHolds, CommitIsCurrent, CopyHolds, Fresh,
               Committing, FreshDecoded, FreshChunk
    <3>5. CASE (OutputSignals \/ OutputStarves) /\ UNCHANGED data
      <4>1. /\ output'.pc # "copy"
            /\ dsp' \in {dsp, Woken(dsp)}
            /\ UNCHANGED <<transition, decoded, processed>>
        BY <3>5 DEF OutputSignals, OutputStarves, TypeInv, ThreadType
      <4> QED
        BY <3>0, <4>1, WokenDsp
           DEF IInv, HeldOff, ResetHolds, CommitIsCurrent, CopyHolds, Fresh,
               Committing, FreshDecoded, FreshProcessed, FreshChunk
    <3> QED
      BY <2>5, <3>1, <3>2, <3>3, <3>4, <3>5 DEF Output
  <2>6. CASE Dsp
    <3>0. UNCHANGED <<kind, owner, output>>
      BY <2>6 DEF Dsp
    <3> USE DEF DspGoes, DspWaits
    <3>1. CASE DspTop
      <4>1. /\ UNCHANGED <<streamSerial, decoded, processed>>
            /\ dsp'.commit = dsp.commit \/ kind # "stream"
            /\ kind = "stream" => dsp'.pc \in {"take", "finish"}
            /\ dsp.pc = "top"
            /\ \/ UNCHANGED transition
               \/ phase = "CommitReady"
        BY <3>1
           DEF DspTop, TypeInv, ThreadType, SourceResetIsPending,
               StreamResetCanBegin, Swap
      <4> QED
        BY <3>0, <4>1
           DEF IInv, HeldOff, ResetHolds, CopyHolds, Fresh, Committing, FreshDecoded,
               FreshProcessed, FreshChunk
    <3>2. CASE DspTakesStreamReset
      <4>1. /\ UNCHANGED <<transition, streamSerial, decoded, processed>>
            /\ dsp.pc = "take"
            /\ \/ dsp'.pc = "top" /\ dsp'.commit = dsp.commit
               \/ dsp'.pc = "empty" /\ CommitIsCurrent
            /\ kind = "stream" => owner.pc = "idle"
        BY <3>2 DEF DspTakesStreamReset, TypeInv, ThreadType, OwnerHoldsReset
      <4> QED
        BY <3>0, <4>1
           DEF IInv, HeldOff, ResetHolds, CommitIsCurrent, CopyHolds, Fresh,
               Committing, FreshDecoded, FreshProcessed, FreshChunk
    \* Nothing is left in the rings, and nobody is half through a read.
    <3>3. CASE DspEmptiesRings
      <4>1. /\ UNCHANGED transition /\ dsp.pc = "empty" /\ dsp'.pc = "restart"
            /\ decoded' = <<>>
            /\ processed'.read = processed.written
            /\ processed'.written = processed.written
        BY <3>3 DEF DspEmptiesRings, Discarded, TypeInv, ThreadType, RingType
      <4>2. kind = "stream" => output.pc # "copy"
        BY <4>1 DEF IInv, ResetHolds, HeldOff, CommitIsCurrent
      <4>3. processed.written \in Int
        BY DEF TypeInv, RingType
      <4>4. FreshDecoded' /\ FreshProcessed' /\ FreshChunk'
        BY <4>1, <4>3 DEF FreshDecoded, FreshProcessed, FreshChunk
      <4> QED
        BY <3>0, <4>1, <4>2, <4>4
           DEF IInv, HeldOff, ResetHolds, CommitIsCurrent, CopyHolds, Fresh
    <3>4. CASE DspRestarts \/ DspApplies
      <4>1. /\ UNCHANGED <<transition, streamSerial, decoded, processed>>
            /\ dsp'.commit = dsp.commit
            /\ \/ dsp.pc = "restart" /\ dsp'.pc = "applied"
               \/ dsp.pc = "applied" /\ dsp'.pc = "top"
        BY <3>4 DEF DspRestarts, DspApplies, TypeInv, ThreadType
      <4> QED
        BY <3>0, <4>1
           DEF IInv, HeldOff, ResetHolds, CommitIsCurrent, CopyHolds, Fresh,
               Committing, FreshDecoded, FreshProcessed, FreshChunk
    \* A commit ends from the phases of a commit alone, and is not resumed.
    <3>5. CASE DspFinishes
      <4>1. /\ UNCHANGED <<streamSerial, decoded, processed>>
            /\ dsp'.commit \in {dsp.commit, "None"}
            /\ dsp.pc \in {"finish", "compare", "swap", "swapReady", "clear", "unflag",
                           "finished", "refused"}
            /\ dsp'.pc \in {"compare", "swap", "refused", "swapReady", "clear", "unflag",
                            "finished", dsp.ret}
        BY <3>5 DEF DspFinishes, TypeInv, ThreadType
      <4>2. UNCHANGED phase \/ phase' = "Idle"
        BY <3>5 DEF DspFinishes, Swap
      <4>3. dsp.ret \in {"top", "choose", "wait"}
        BY DEF TypeInv, ThreadType
      <4> QED
        BY <3>0, <4>1, <4>2, <4>3
           DEF IInv, HeldOff, ResetHolds, CopyHolds, Fresh, Committing, FreshDecoded,
               FreshProcessed, FreshChunk
    <3>6. CASE DspChooses
      <4>1. /\ UNCHANGED <<transition, streamSerial, processed>>
            /\ dsp.pc = "choose" /\ dsp'.commit = dsp.commit
            /\ \/ dsp'.pc \in {"wait", "starved"} /\ decoded' = decoded
               \/ /\ dsp'.pc = "check" /\ decoded # <<>>
                  /\ dsp'.chunk = Head(decoded) /\ decoded' = Tail(decoded)
        BY <3>6 DEF DspChooses, DspWaits, DspGoes, TypeInv, ThreadType
      <4>2. ASSUME decoded # <<>>, FreshDecoded
            PROVE  /\ Head(decoded).epoch = streamSerial
                   /\ \A i \in DOMAIN Tail(decoded) : Tail(decoded)[i].epoch = streamSerial
        BY <4>2 DEF TypeInv, RingType, FreshDecoded
      <4>3. FreshDecoded => FreshDecoded' /\ FreshChunk'
        BY <4>1, <4>2 DEF FreshDecoded, FreshChunk
      <4> QED
        BY <3>0, <4>1, <4>3
           DEF IInv, HeldOff, ResetHolds, CommitIsCurrent, CopyHolds, Fresh,
               Committing, FreshProcessed
    <3>7. CASE DspDropsChunk \/ DspKeepsChunk \/ DspTestsOrSleeps
      <4>1. /\ UNCHANGED <<transition, streamSerial, decoded, processed>>
            /\ dsp'.commit = dsp.commit
            /\ dsp.pc \in {"check", "wait", "falling"}
            /\ \/ dsp'.pc \in {"top", "falling", "asleep"}
               \/ dsp.pc = "check" /\ dsp'.pc = "publish" /\ dsp'.chunk = dsp.chunk
        BY <3>7 DEF DspDropsChunk, DspKeepsChunk, DspTestsOrSleeps, TypeInv, ThreadType
      <4> QED
        BY <3>0, <4>1
           DEF IInv, HeldOff, ResetHolds, CommitIsCurrent, CopyHolds, Fresh,
               Committing, FreshDecoded, FreshProcessed, FreshChunk
    <3>8. CASE DspPublishes
      <4>1. /\ UNCHANGED <<transition, streamSerial, decoded>>
            /\ dsp'.commit = dsp.commit /\ dsp.pc = "publish" /\ dsp'.pc = "finish"
            /\ processed' = Written(processed, dsp.chunk)
        BY <3>8 DEF DspPublishes, TypeInv, ThreadType
      <4>2. /\ processed'.read = processed.read
            /\ processed'.written = processed.written + 1
            /\ processed'.slots =
                 [processed.slots EXCEPT ![processed.written % Capacity] = dsp.chunk]
        BY <4>1 DEF Written, TypeInv, RingType
      <4>3. /\ processed.read \in Int /\ processed.written \in Int
            /\ processed.slots \in [0 .. Capacity - 1 -> Frames]
            /\ Capacity \in Nat \ {0}
        BY QueuedAudioAssumption DEF QueuedAudioAssumption, TypeInv, RingType
      <4>4. ASSUME FreshProcessed, dsp.chunk.epoch = streamSerial,
                   NEW i \in processed.read .. processed.written
            PROVE  processed'.slots[i % Capacity].epoch = streamSerial
        <5>1. i % Capacity \in 0 .. Capacity - 1
          BY <4>3
        <5>2. CASE i % Capacity = processed.written % Capacity
          BY <4>2, <4>3, <4>4, <5>1, <5>2
        <5>3. CASE i % Capacity # processed.written % Capacity
          <6>1. i \in processed.read .. processed.written - 1
            BY <4>3, <5>3
          <6> QED
            BY <4>2, <4>3, <4>4, <5>1, <5>3, <6>1 DEF FreshProcessed
        <5> QED
          BY <5>2, <5>3
      <4>5. FreshProcessed /\ dsp.chunk.epoch = streamSerial => FreshProcessed'
        <5>1. processed'.read .. processed'.written - 1 = processed.read .. processed.written
          BY <4>2, <4>3
        <5> QED
          BY <4>1, <4>4, <5>1 DEF FreshProcessed
      <4> QED
        BY <3>0, <4>1, <4>2, <4>5
           DEF IInv, HeldOff, ResetHolds, CommitIsCurrent, CopyHolds, Fresh,
               Committing, FreshDecoded, FreshChunk
    <3>9. CASE DspFindsEnd
      <4>1. /\ UNCHANGED <<transition, streamSerial, decoded, processed>>
            /\ dsp'.commit = dsp.commit
            /\ dsp.pc = "starved" /\ dsp'.pc \in {"wait", "finish"}
        BY <3>9 DEF DspFindsEnd, DspWaits, TypeInv, ThreadType
      <4> QED
        BY <3>0, <4>1
           DEF IInv, HeldOff, ResetHolds, CommitIsCurrent, CopyHolds, Fresh,
               Committing, FreshDecoded, FreshProcessed, FreshChunk
    <3> QED
      BY <2>6, <3>1, <3>2, <3>3, <3>4, <3>5, <3>6, <3>7, <3>8, <3>9 DEF Dsp
  <2>7. CASE Source
    <3>0. UNCHANGED <<kind, streamSerial, processed, owner, output>>
      BY <2>7 DEF Source
    <3>1. CASE FileTop \/ FileSeeks
      <4>1. UNCHANGED phase \/ (phase = "CommitReady" /\ phase' = "CommitInProgress")
        BY <3>1 DEF FileTop, FileSeeks, Swap
      <4>2. \/ UNCHANGED <<transition, decoded, dsp>>
            \/ kind # "stream"
        BY <3>1 DEF FileTop, FileSeeks
      <4> QED
        BY <3>0, <4>1, <4>2
           DEF IInv, HeldOff, ResetHolds, CommitIsCurrent, CopyHolds, Fresh,
               Committing, FreshDecoded, FreshProcessed, FreshChunk
    <3>2. CASE FileAsksForReset \/ StreamTop \/ SourceEnds \/ SourceTestsOrSleeps
      <4>1. UNCHANGED <<transition, decoded>> /\ dsp' \in {dsp, Woken(dsp)}
        BY <3>2 DEF FileAsksForReset, StreamTop, SourceEnds, SourceTestsOrSleeps
      <4> QED
        BY <3>0, <4>1, OnlyWoken
    \* A stream's frame is queued only if it is of the serial the rings are at.
    <3>3. CASE SourceWrites
      <4>1. /\ UNCHANGED transition
            /\ dsp' \in {dsp, Woken(dsp)}
            /\ \/ decoded' = decoded
               \/ /\ ~SerialIsOld
                  /\ decoded' = Append(decoded, Frame(file.epoch, file.pos))
        BY <3>3 DEF SourceWrites
      <4>2. Frame(file.epoch, file.pos) \in Frames
        BY FrameType DEF TypeInv, FileType
      <4>3. kind = "stream" /\ FreshDecoded => FreshDecoded'
        <5>1. CASE decoded' = decoded
          BY <3>0, <5>1 DEF FreshDecoded
        <5>2. CASE ~SerialIsOld /\ decoded' = Append(decoded, Frame(file.epoch, file.pos))
          <6>1. kind = "stream" => Frame(file.epoch, file.pos).epoch = streamSerial
            BY <5>2 DEF SerialIsOld, Frame
          <6> QED
            BY <3>0, <4>2, <5>2, <6>1 DEF FreshDecoded, TypeInv, RingType
        <5> QED
          BY <4>1, <5>1, <5>2
      <4> QED
        BY <3>0, <4>1, <4>3, WokenDsp
           DEF IInv, HeldOff, ResetHolds, CommitIsCurrent, CopyHolds, Fresh,
               Committing, FreshProcessed, FreshChunk
    <3> QED
      BY <2>7, <3>1, <3>2, <3>3 DEF Source
  <2>8. CASE UNCHANGED vars
    BY <2>8, Unmoved DEF vars
  <2> QED
    BY <2>1, <2>2, <2>3, <2>4, <2>5, <2>6, <2>7, <2>8 DEF Next
<1> QED
  BY <1>1, <1>2, TypeCorrect, PTL DEF Spec

(***************************************************************************)
(* The filter thread empties the rings for a commit that stands only while *)
(* no callback is reading: discardBufferedFrames() never writes a position *)
(* that a reader is about to overwrite.                                    *)
(***************************************************************************)
THEOREM EmptiesBehindTheReader == Spec => []ReaderIsHeldOff
<1>1. IInv => ReaderIsHeldOff
  BY DEF IInv, HeldOff, ReaderIsHeldOff, CommitIsCurrent
<1> QED
  BY <1>1, Inductive, PTL

(***************************************************************************)
(* While the commit of a stream's reset stands, every frame in either ring *)
(* is of the serial the reset was for (applyPendingStreamReset() and       *)
(* queuedAudioSourceWriteInternal()).                                      *)
(***************************************************************************)
THEOREM CommitIsFresh == Spec => []CommitIsOfItsStream
<1>1. IInv => CommitIsOfItsStream
  <2> SUFFICES ASSUME IInv, kind = "stream", dsp.commit # "None", dsp.pc # "empty",
                      NEW frame \in Queued
               PROVE  frame.epoch = streamSerial
    BY DEF CommitIsOfItsStream
  <2>1. FreshDecoded /\ FreshProcessed
    BY DEF IInv, Fresh, Committing
  <2>2. CASE frame \in Range(decoded)
    BY <2>1, <2>2 DEF Range, FreshDecoded
  <2>3. CASE frame \in {processed.slots[i % Capacity] :
                          i \in processed.read .. processed.written - 1}
    BY <2>1, <2>3 DEF FreshProcessed
  <2> QED
    BY <2>2, <2>3 DEF Queued
<1> QED
  BY <1>1, Inductive, PTL
=============================================================================
