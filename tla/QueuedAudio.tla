---------------------------- MODULE QueuedAudio ----------------------------
(***************************************************************************)
(* The audio pipeline (audio/queued_audio_source.cpp): a source thread     *)
(* fills the ring of decoded frames, the filter thread (radioDspMain)      *)
(* moves them to the ring of processed frames, and the device's callback   *)
(* plays those.  A seek is a transition through four phases                *)
(* (audio/pipeline_transition.cpp): the owner requests it, the callback    *)
(* fades out, the source (or, for a stream, the filter thread) begins the  *)
(* commit, the filter thread empties the rings and finishes it.            *)
(*                                                                         *)
(* Three kinds of source share the pipeline: a decoder thread that ends at *)
(* the end of its file, the M4A worker that stays, and a stream written by *)
(* the video player's audio thread.                                        *)
(*                                                                         *)
(* Every access to a shared atomic that a race could turn on is a step of  *)
(* its own; flags that are stored one after the other by the thread that   *)
(* alone stores them there are one step.  The condition variables are      *)
(* notified without their mutex, so a wait is the test of its predicate    *)
(* and, later, the sleep: a notification in between is lost.               *)
(*                                                                         *)
(* A frame is known by the seek of the source it was decoded after, its    *)
(* epoch, and its place.  Left out: the samples, fades and the radio       *)
(* filter, the timelines of presentation times, the clock, the discard of  *)
(* a stream's early frames, the drain, start and stop of a pipeline, a     *)
(* seek of the file that fails and the retry of an empty read.             *)
(***************************************************************************)
EXTENDS Integers, Sequences, SequencesExt

CONSTANTS
  MaxSeeks,   \* of each kind of source, a bound on the seeks requested
  Length,     \* frames from the place a seek goes to to the end
  Capacity    \* frames either ring holds

Kinds == DOMAIN MaxSeeks

QueuedAudioAssumption ==
  /\ Kinds \subseteq {"decoder", "m4a", "stream"} /\ Kinds # {}
  /\ MaxSeeks \in [Kinds -> Nat]
  /\ {Length, Capacity} \subseteq Nat \ {0}

ASSUME QueuedAudioAssumption

VARIABLES
  kind,
  \* AudioPipelineTransition
  phase, requestSerial, commitSerial,
  \* the seek of a file
  pendingSeek,      \* pendingSeekFrames: the number of the seek that asked
  seekRequested,
  \* source resets, or stream resets: a source has only one of the two
  resetRequested, resetApplied,
  resetTo,          \* sourceResetFramePosition
  streamSerial,
  \* ends and the pause
  sourceAtEnd, processedAtEnd, finished, paused,
  \* data
  file,             \* the source's place: [epoch, pos], and the seek it is `at'
  decoded,          \* decodedAudio
  processed,        \* processedAudio: two positions over the slots
  \* threads
  owner,            \* [pc, n]: n seeks were begun
  source,           \* [pc, waits, committing]: the decoder, worker or writer
  dsp,              \* [pc, waits, commit, ret, chunk]: the filter thread
  output            \* [pc, from, count, generation]: the callback

transition == <<phase, requestSerial, commitSerial>>
seekState  == <<pendingSeek, seekRequested>>
resets     == <<resetRequested, resetApplied, resetTo, streamSerial>>
ends       == <<sourceAtEnd, processedAtEnd, finished>>
data       == <<file, decoded, processed>>
vars == <<kind, transition, seekState, resets, ends, paused, data,
          owner, source, dsp, output>>

Frame(e, p) == [epoch |-> e, pos |-> p]
NoFrame     == Frame(0, 0)

-----------------------------------------------------------------------------
(* audio/pipeline_transition.cpp and the two predicates over it.           *)

Active == phase # "Idle"

CommitIsCurrent == phase = "CommitInProgress" /\ commitSerial = requestSerial

(***************************************************************************)
(* RequestDiscontinuity, in its two stores; the owner's steps use them.    *)
(***************************************************************************)
CountRequest == requestSerial' = requestSerial + 1 /\ UNCHANGED <<phase, commitSerial>>
RequestFade  == phase' = "FadeOutRequested" /\ UNCHANGED <<requestSerial, commitSerial>>

Swap(from, to) ==
  phase = from /\ phase' = to /\ UNCHANGED <<requestSerial, commitSerial>>

-----------------------------------------------------------------------------
(* audio/spsc_audio_ring.cpp.                                              *)

Buffered(ring) == ring.written - ring.read

Written(ring, frame) ==
  [ring EXCEPT !.slots[ring.written % Capacity] = frame, !.written = @ + 1]

\* A slip: the frame written last stays.
DiscardedButOne(ring) == [ring EXCEPT !.read = IF ring.written = 0 THEN 0 ELSE ring.written - 1]

Discarded(ring) == [ring EXCEPT !.read = ring.written]

-----------------------------------------------------------------------------
(* Condition variables.  The queue's mutex is held from the test of a      *)
(* predicate to the sleep, by the thread that is `falling' asleep.         *)

Woken(thread) ==
  IF thread.pc = "asleep" THEN [thread EXCEPT !.pc = "wait"] ELSE thread

QueueIsFree == source.pc # "falling" /\ dsp.pc # "falling"

SourceResetIsPending == kind # "stream" /\ resetRequested > resetApplied

StreamResetCanBegin ==
  kind = "stream" /\ resetRequested > resetApplied /\ phase = "CommitReady"

InterruptsDsp == SourceResetIsPending \/ StreamResetCanBegin

DspMayGoOn ==
  \/ InterruptsDsp
  \/ dsp.waits = "commit" /\ ~Active
  \/ dsp.waits = "frames" /\ dsp.commit # "None" /\ ~CommitIsCurrent
  \/ dsp.waits = "frames" /\ dsp.commit = "None" /\ Active
  \/ dsp.waits = "frames" /\ decoded # <<>> /\ Buffered(processed) < Capacity
  \/ dsp.waits = "frames" /\ decoded = <<>> /\ sourceAtEnd /\ ~processedAtEnd

(***************************************************************************)
(* queuedSourceWriteBlockedByTransition().                                 *)
(***************************************************************************)
WriteIsBlocked ==
  /\ kind # "stream" /\ Active
  /\ ~(source.committing /\ phase = "CommitInProgress")

SerialIsOld == kind = "stream" /\ file.epoch # streamSerial

SourceMayGoOn ==
  CASE source.waits = "reset" -> resetApplied >= resetRequested
    [] source.waits = "transition" ->
         ~Active \/ (seekRequested /\ phase = "CommitReady")
    [] source.waits = "end"   -> seekRequested \/ ~sourceAtEnd
    [] source.waits = "room"  -> Active \/ Len(decoded) < Capacity
    [] source.waits = "write" ->
         WriteIsBlocked \/ SerialIsOld \/ Len(decoded) < Capacity

-----------------------------------------------------------------------------
Init ==
  /\ kind \in Kinds
  /\ phase = "Idle" /\ requestSerial = 0 /\ commitSerial = 0
  /\ pendingSeek = 0 /\ seekRequested = FALSE
  /\ resetRequested = 0 /\ resetApplied = 0 /\ resetTo = 0 /\ streamSerial = 0
  /\ sourceAtEnd = FALSE /\ processedAtEnd = FALSE /\ finished = FALSE
  /\ paused = FALSE
  /\ file = [epoch |-> 0, pos |-> 0, at |-> 0]
  /\ decoded = <<>>
  /\ processed = [read |-> 0, written |-> 0,
                  slots |-> [i \in 0 .. Capacity - 1 |-> NoFrame]]
  /\ owner = [pc |-> "idle", n |-> 0]
  /\ source = [pc |-> "top", waits |-> "none", committing |-> FALSE]
  /\ dsp = [pc |-> "top", waits |-> "frames", commit |-> "None", ret |-> "top",
            chunk |-> NoFrame]
  /\ output = [pc |-> "idle", from |-> 0]

-----------------------------------------------------------------------------
(* The owner.  streamResetMutex is held by its request for a stream and by *)
(* the filter thread from `take' to `applied'.                             *)

OwnerHoldsReset == kind = "stream" /\ owner.pc # "idle"
DspHoldsReset   == kind = "stream" /\ dsp.pc \in {"empty", "restart", "applied"}

(***************************************************************************)
(* requestAudioSeekFrame(), first of its stores.                           *)
(***************************************************************************)
BeginSeek ==
  /\ kind # "stream" /\ owner.pc = "idle" /\ owner.n < MaxSeeks[kind]
  /\ owner' = [pc |-> "flag", n |-> owner.n + 1]
  /\ pendingSeek' = owner.n + 1
  /\ UNCHANGED seekRequested

RequestSeek ==
  /\ BeginSeek
  /\ UNCHANGED <<kind, transition, resets, ends, paused, data, source, dsp, output>>

(***************************************************************************)
(* audioPlay() at the end of a file: a seek to its start.                  *)
(***************************************************************************)
Replay ==
  /\ finished /\ BeginSeek
  /\ paused' = FALSE
  /\ UNCHANGED <<kind, transition, resets, ends, data, source, dsp, output>>

(***************************************************************************)
(* queuedAudioSourceRequestStreamReset(), up to the lock.                  *)
(***************************************************************************)
RequestStreamReset ==
  /\ kind = "stream" /\ owner.pc = "idle" /\ owner.n < MaxSeeks[kind]
  /\ ~DspHoldsReset
  /\ owner' = [pc |-> "count", n |-> owner.n + 1]
  /\ UNCHANGED <<kind, transition, seekState, resets, ends, paused, data,
                 source, dsp, output>>

ContinueRequest ==
  /\ \/ /\ owner.pc = "flag"
        /\ owner' = [owner EXCEPT !.pc = "request"]
        /\ seekRequested' = TRUE
        /\ UNCHANGED <<transition, pendingSeek, resetRequested, ends, source, dsp>>
     \/ /\ owner.pc = "request"
        /\ owner' = [owner EXCEPT !.pc = "count"]
        /\ finished' = FALSE /\ sourceAtEnd' = FALSE /\ processedAtEnd' = FALSE
        /\ UNCHANGED <<transition, seekState, resetRequested, source, dsp>>
     \/ /\ owner.pc = "count"
        /\ owner' = [owner EXCEPT !.pc = "fade"]
        /\ CountRequest
        /\ UNCHANGED <<seekState, resetRequested, ends, source, dsp>>
     \/ /\ owner.pc = "fade"
        /\ owner' = [owner EXCEPT !.pc = "notify"]
        /\ RequestFade
        /\ UNCHANGED <<seekState, resetRequested, ends, source, dsp>>
     \/ /\ owner.pc = "notify" /\ kind # "stream"
        /\ owner' = [owner EXCEPT !.pc = "idle"]
        /\ source' = Woken(source) /\ dsp' = Woken(dsp)
        /\ UNCHANGED <<transition, seekState, resetRequested, ends>>
     \/ /\ owner.pc = "notify" /\ kind = "stream"
        /\ owner' = [owner EXCEPT !.pc = "idle"]
        /\ resetRequested' = owner.n
        /\ dsp' = Woken(dsp)
        /\ UNCHANGED <<transition, seekState, ends, source>>
  /\ UNCHANGED <<kind, resetApplied, resetTo, streamSerial, paused, data, output>>

(***************************************************************************)
(* audioPause() and audioPlay() before the end, or of a stream.            *)
(***************************************************************************)
Pause ==
  /\ owner.pc = "idle" /\ ~paused /\ ~finished
  /\ paused' = TRUE
  /\ UNCHANGED <<kind, transition, seekState, resets, ends, data, owner, source,
                 dsp, output>>

Resume ==
  /\ owner.pc = "idle"
  /\ \/ paused /\ ~finished
     \/ finished /\ kind = "stream"
  /\ paused' = FALSE /\ finished' = FALSE /\ sourceAtEnd' = FALSE
  /\ UNCHANGED <<kind, transition, seekState, resets, processedAtEnd, data, owner,
                 source, dsp, output>>

-----------------------------------------------------------------------------
(* dataCallback() of the device (audio/output_callback.cpp).               *)

(***************************************************************************)
(* BeginFadeOut()'s swap; the serial is stored after it.                   *)
(***************************************************************************)
FadeOut ==
  IF phase = "FadeOutRequested"
  THEN /\ Swap("FadeOutRequested", "CommitReady")
       /\ output' = [output EXCEPT !.pc = "commit"]
  ELSE UNCHANGED transition /\ output' = [output EXCEPT !.pc = "idle"]

OutputPaused ==
  /\ output.pc = "idle" /\ paused
  /\ FadeOut
  /\ UNCHANGED dsp

OutputHeldOff ==
  /\ output.pc = "idle" /\ ~paused
  /\ phase \in {"CommitReady", "CommitInProgress"}
  /\ dsp' = Woken(dsp)
  /\ UNCHANGED <<transition, output>>

\* A slip: the phases are not looked at.
OutputBeginsInCommit ==
  /\ output.pc = "idle" /\ ~paused
  /\ output' = IF Buffered(processed) > 0
                 THEN [output EXCEPT !.pc = "copy", !.from = processed.read]
                 ELSE [output EXCEPT !.pc = "starve"]
  /\ UNCHANGED <<transition, dsp>>

OutputBegins ==
  /\ output.pc = "idle" /\ ~paused
  /\ phase \in {"Idle", "FadeOutRequested"}
  /\ output' = IF Buffered(processed) > 0
                 THEN [output EXCEPT !.pc = "copy", !.from = processed.read]
                 ELSE [output EXCEPT !.pc = "starve"]
  /\ UNCHANGED <<transition, dsp>>

(***************************************************************************)
(* The rest of readSome(): the copy and the store of the read position.    *)
(***************************************************************************)
OutputCopies ==
  /\ output.pc = "copy"
  /\ processed' = [processed EXCEPT !.read = output.from + 1]
  /\ output' = [output EXCEPT !.pc = "signal", !.from = 0]
  /\ UNCHANGED <<transition, finished, source, dsp, file, decoded>>

OutputSignals ==
  /\ output.pc = "signal"
  /\ dsp' = Woken(dsp)
  /\ output' = [output EXCEPT !.pc = "fade"]
  /\ UNCHANGED <<transition, finished, source>>

OutputStarves ==
  /\ output.pc = "starve"
  /\ dsp' = Woken(dsp)
  /\ finished' = (finished \/ (processedAtEnd /\ ~seekRequested))
  /\ output' = [output EXCEPT !.pc = "fade"]
  /\ UNCHANGED <<transition, source>>

OutputEnds ==
  \/ /\ output.pc = "fade"
     /\ FadeOut
     /\ UNCHANGED <<finished, source, dsp>>
  \/ /\ output.pc = "commit"
     /\ output' = [output EXCEPT !.pc = "idle"]
     /\ commitSerial' = requestSerial
     /\ source' = Woken(source) /\ dsp' = Woken(dsp)
     /\ UNCHANGED <<phase, requestSerial, finished>>

Output ==
  /\ \/ /\ OutputPaused \/ OutputHeldOff \/ OutputBegins
        /\ UNCHANGED <<finished, source, data>>
     \/ OutputCopies
     \/ /\ OutputSignals \/ OutputStarves \/ OutputEnds
        /\ UNCHANGED data
  /\ UNCHANGED <<kind, seekState, resets, sourceAtEnd, processedAtEnd, paused, owner>>

-----------------------------------------------------------------------------
(* radioDspMain().                                                         *)

DspGoes(place) == dsp' = [dsp EXCEPT !.pc = place]

DspWaits(for) == dsp' = [dsp EXCEPT !.pc = "wait", !.waits = for]

(***************************************************************************)
(* The head of the loop: a source reset is applied only if the commit it   *)
(* belongs to still stands; for a stream the commit begins here.           *)
(***************************************************************************)
\* A slip: a reset that is no longer current is not acknowledged.
DspTopIgnoresSuperseded ==
  /\ dsp.pc = "top"
  /\ \/ /\ SourceResetIsPending /\ CommitIsCurrent
        /\ dsp' = [dsp EXCEPT !.pc = "empty", !.commit = "SourceSeek"]
        /\ UNCHANGED transition
     \/ /\ StreamResetCanBegin
        /\ Swap("CommitReady", "CommitInProgress")
        /\ DspGoes("take")
     \/ /\ ~StreamResetCanBegin /\ ~(SourceResetIsPending /\ CommitIsCurrent)
        /\ dsp' = [dsp EXCEPT !.pc = "finish", !.ret = "choose"]
        /\ UNCHANGED transition
  /\ UNCHANGED <<pendingSeek, seekRequested, resets, ends, source, decoded, processed>>

DspTop ==
  /\ dsp.pc = "top"
  /\ \/ /\ SourceResetIsPending
        /\ dsp' = IF CommitIsCurrent
                    THEN [dsp EXCEPT !.pc = "empty", !.commit = "SourceSeek"]
                    ELSE [dsp EXCEPT !.pc = "applied"]
        /\ UNCHANGED transition
     \/ /\ StreamResetCanBegin
        /\ Swap("CommitReady", "CommitInProgress")
        /\ DspGoes("take")
     \/ /\ ~InterruptsDsp
        /\ dsp' = [dsp EXCEPT !.pc = "finish", !.ret = "choose"]
        /\ UNCHANGED transition
  /\ UNCHANGED <<pendingSeek, seekRequested, resets, ends, source, decoded, processed>>

DspTakesStreamReset ==
  /\ dsp.pc = "take" /\ ~OwnerHoldsReset
  /\ dsp' = IF CommitIsCurrent
              THEN [dsp EXCEPT !.pc = "empty", !.commit = "StreamReset"]
              ELSE [dsp EXCEPT !.pc = "top"]
  /\ UNCHANGED <<transition, pendingSeek, seekRequested, resets, ends, source,
                 decoded, processed>>

(***************************************************************************)
(* resetQueuedTransport(), its section under the queue's mutex and after.  *)
(***************************************************************************)
DspEmptiesRings ==
  /\ dsp.pc = "empty" /\ QueueIsFree
  /\ decoded' = <<>>
  /\ processed' = Discarded(processed)
  /\ streamSerial' = IF kind = "stream" THEN resetRequested ELSE streamSerial
  /\ DspGoes("restart")
  /\ UNCHANGED <<transition, pendingSeek, seekRequested, resetRequested,
                 resetApplied, resetTo, ends, source>>

DspRestarts ==
  /\ dsp.pc = "restart"
  /\ pendingSeek' = IF kind = "stream" THEN pendingSeek ELSE resetTo
  /\ finished' = FALSE /\ sourceAtEnd' = FALSE /\ processedAtEnd' = FALSE
  /\ source' = Woken(source)
  /\ DspGoes("applied")
  /\ UNCHANGED <<transition, seekRequested, resets, decoded, processed>>

DspApplies ==
  /\ dsp.pc = "applied"
  /\ resetApplied' = resetRequested
  /\ source' = Woken(source)
  /\ DspGoes("top")
  /\ UNCHANGED <<transition, pendingSeek, seekRequested, resetRequested, resetTo,
                 streamSerial, ends, decoded, processed>>

(***************************************************************************)
(* finishProcessingCommitWhenPrimed() with FinishCommit() inside, whose    *)
(* loads and two swaps are apart.                                          *)
(***************************************************************************)
Primed == Buffered(processed) > 0 \/ processedAtEnd

DspFinishes ==
  /\ \/ /\ dsp.pc = "finish"
        /\ dsp' = IF dsp.commit # "None" /\ CommitIsCurrent
                    THEN [dsp EXCEPT !.pc = IF Primed THEN "compare" ELSE dsp.ret]
                    ELSE [dsp EXCEPT !.pc = dsp.ret, !.commit = "None"]
        /\ UNCHANGED <<transition, seekRequested, source>>
     \/ /\ dsp.pc = "compare"
        /\ DspGoes(IF commitSerial = requestSerial THEN "swap" ELSE "refused")
        /\ UNCHANGED <<transition, seekRequested, source>>
     \/ /\ dsp.pc = "swap"
        /\ \/ Swap("CommitInProgress", "Idle") /\ DspGoes("clear")
           \/ phase # "CommitInProgress" /\ DspGoes("swapReady") /\ UNCHANGED transition
        /\ UNCHANGED <<seekRequested, source>>
     \/ /\ dsp.pc = "swapReady"
        /\ \/ Swap("CommitReady", "Idle") /\ DspGoes("clear")
           \/ phase # "CommitReady" /\ DspGoes("refused") /\ UNCHANGED transition
        /\ UNCHANGED <<seekRequested, source>>
     \/ /\ dsp.pc = "clear"
        /\ commitSerial' = 0
        /\ DspGoes(IF dsp.commit = "SourceSeek" THEN "unflag" ELSE "finished")
        /\ UNCHANGED <<phase, requestSerial, seekRequested, source>>
     \/ /\ dsp.pc = "unflag"
        /\ seekRequested' = FALSE
        /\ DspGoes("finished")
        /\ UNCHANGED <<transition, source>>
     \/ /\ dsp.pc \in {"finished", "refused"}
        /\ dsp' = [dsp EXCEPT !.pc = dsp.ret,
                     !.commit = IF dsp.pc = "refused" /\ CommitIsCurrent THEN @ ELSE "None"]
        /\ source' = Woken(source)
        /\ UNCHANGED <<transition, seekRequested>>
  /\ UNCHANGED <<pendingSeek, resets, ends, decoded, processed>>

(***************************************************************************)
(* The rest of the loop: wait for the commit, for frames or room, or       *)
(* process a chunk.                                                        *)
(***************************************************************************)
DspChooses ==
  /\ dsp.pc = "choose"
  /\ \/ /\ dsp.commit = "None" /\ Active
        /\ DspWaits("commit")
        /\ UNCHANGED <<source, decoded>>
     \/ /\ dsp.commit # "None" \/ ~Active
        /\ decoded = <<>>
        /\ DspGoes("starved")
        /\ UNCHANGED <<source, decoded>>
     \/ /\ dsp.commit # "None" \/ ~Active
        /\ decoded # <<>> /\ Buffered(processed) >= Capacity
        /\ DspWaits("frames")
        /\ UNCHANGED <<source, decoded>>
     \/ /\ dsp.commit # "None" \/ ~Active
        /\ decoded # <<>> /\ Buffered(processed) < Capacity
        /\ dsp' = [dsp EXCEPT !.pc = "check", !.chunk = Head(decoded)]
        /\ decoded' = Tail(decoded)
        /\ source' = Woken(source)
  /\ UNCHANGED <<transition, pendingSeek, seekRequested, resets, ends, processed>>

(***************************************************************************)
(* Whether the source is at its end is asked after the ring was found      *)
(* empty: a last frame may have come in between.                           *)
(***************************************************************************)
DspFindsEnd ==
  /\ dsp.pc = "starved"
  /\ \/ /\ sourceAtEnd
        /\ processedAtEnd' = TRUE
        /\ source' = IF processedAtEnd THEN source ELSE Woken(source)
        /\ dsp' = [dsp EXCEPT !.pc = "finish", !.ret = "wait", !.waits = "frames"]
     \/ /\ ~sourceAtEnd
        /\ DspWaits("frames")
        /\ UNCHANGED <<processedAtEnd, source>>
  /\ UNCHANGED <<transition, pendingSeek, seekRequested, resets, finished,
                 sourceAtEnd, decoded, processed>>

DspDropsChunk ==
  /\ dsp.pc = "check" /\ InterruptsDsp
  /\ dsp' = [dsp EXCEPT !.pc = "top", !.chunk = NoFrame]
  /\ UNCHANGED <<transition, pendingSeek, seekRequested, resets, ends, source,
                 decoded, processed>>

DspKeepsChunk ==
  /\ dsp.pc = "check" /\ ~InterruptsDsp
  /\ DspGoes("publish")
  /\ UNCHANGED <<transition, pendingSeek, seekRequested, resets, ends, source,
                 decoded, processed>>

(***************************************************************************)
(* publishProcessedAudio().                                                *)
(***************************************************************************)
DspPublishes ==
  /\ dsp.pc = "publish"
  /\ processed' = Written(processed, dsp.chunk)
  /\ processedAtEnd' = FALSE
  /\ source' = Woken(source)
  /\ dsp' = [dsp EXCEPT !.pc = "finish", !.ret = "top", !.chunk = NoFrame]
  /\ UNCHANGED <<transition, pendingSeek, seekRequested, resets, finished,
                 sourceAtEnd, decoded>>

DspTestsOrSleeps ==
  /\ \/ /\ dsp.pc = "wait" /\ QueueIsFree
        /\ DspGoes(IF DspMayGoOn THEN "top" ELSE "falling")
     \/ /\ dsp.pc = "falling"
        /\ DspGoes("asleep")
  /\ UNCHANGED <<transition, pendingSeek, seekRequested, resets, ends, source,
                 decoded, processed>>

Dsp ==
  /\ \/ DspTop \/ DspTakesStreamReset \/ DspEmptiesRings \/ DspRestarts
     \/ DspApplies \/ DspFinishes \/ DspChooses \/ DspFindsEnd
     \/ DspDropsChunk \/ DspKeepsChunk \/ DspPublishes \/ DspTestsOrSleeps
  /\ UNCHANGED <<kind, paused, file, owner, output>>

-----------------------------------------------------------------------------
(* The source: the decoder thread (queuedAudioSourceStartDecoderWorker),   *)
(* the M4A worker (playback_sources/m4a_playback_source.cpp), or the video *)
(* player's audio thread writing a stream.                                 *)

SourceGoes(place) == source' = [source EXCEPT !.pc = place]

StillCommitting == source.committing /\ phase = "CommitInProgress"

FileTop ==
  /\ kind # "stream" /\ source.pc = "top"
  /\ LET next(place, for) == source' = [pc |-> place, waits |-> for,
                                        committing |-> StillCommitting]
     IN \/ /\ ~StillCommitting /\ seekRequested
           /\ Swap("CommitReady", "CommitInProgress")
           /\ next("seek", "none")
           /\ UNCHANGED file
        \/ /\ ~StillCommitting /\ Active
           /\ ~(seekRequested /\ phase = "CommitReady")
           /\ next("wait", "transition")
           /\ UNCHANGED <<transition, file>>
        \/ /\ StillCommitting \/ ~Active
           /\ kind = "m4a" /\ sourceAtEnd
           /\ next("wait", "end")
           /\ UNCHANGED <<transition, file>>
        \/ /\ StillCommitting \/ ~Active
           /\ ~(kind = "m4a" /\ sourceAtEnd)
           /\ \/ Len(decoded) = Capacity /\ next("wait", "room") /\ UNCHANGED file
              \/ /\ Len(decoded) < Capacity /\ file.pos = Length
                 /\ next("end", "none") /\ UNCHANGED file
              \/ /\ Len(decoded) < Capacity /\ file.pos < Length
                 /\ next("write", "none")
                 /\ file' = [file EXCEPT !.pos = @ + 1]
           /\ UNCHANGED transition
  /\ UNCHANGED <<resetRequested, resetTo, sourceAtEnd, processedAtEnd, decoded, dsp>>

(***************************************************************************)
(* backend->seek() to pendingSeekFrames, and RequestSourceReset().         *)
(***************************************************************************)
FileSeeks ==
  /\ source.pc = "seek"
  /\ file' = [epoch |-> file.epoch + 1, pos |-> 0, at |-> pendingSeek]
  /\ resetTo' = pendingSeek
  /\ SourceGoes("ask")
  /\ UNCHANGED <<transition, resetRequested, sourceAtEnd, processedAtEnd, decoded, dsp>>

FileAsksForReset ==
  /\ source.pc = "ask"
  /\ resetRequested' = resetRequested + 1
  /\ dsp' = Woken(dsp)
  /\ source' = [source EXCEPT !.pc = "wait", !.waits = "reset"]
  /\ UNCHANGED <<transition, resetTo, sourceAtEnd, processedAtEnd, file, decoded>>

(***************************************************************************)
(* videoplayer's audioDecodeMain(): the next serial, or its next frame.    *)
(***************************************************************************)
StreamTop ==
  /\ kind = "stream" /\ source.pc = "top"
  /\ \/ /\ owner.n > file.epoch
        /\ file' = [epoch |-> owner.n, pos |-> 0, at |-> owner.n]
        /\ UNCHANGED source
     \/ /\ owner.n = file.epoch /\ file.pos <= Length
        /\ file' = [file EXCEPT !.pos = @ + 1]
        /\ SourceGoes(IF file.pos < Length THEN "write" ELSE "end")
  /\ UNCHANGED <<transition, resetRequested, resetTo, sourceAtEnd, processedAtEnd,
                 decoded, dsp>>

(***************************************************************************)
(* queuedAudioSourceWriteInternal(): a frame a transition blocks is        *)
(* dropped; one of a serial the transport is not at yet is tried again.    *)
(* A decoder that saw its last read fall short ends, written or not.       *)
(***************************************************************************)
SourceWrites ==
  /\ source.pc = "write" /\ QueueIsFree
  /\ \/ /\ WriteIsBlocked \/ (SerialIsOld /\ owner.n > file.epoch)
        /\ \/ SourceGoes("top")
           \/ kind = "decoder" /\ file.pos = Length /\ SourceGoes("end")
        /\ UNCHANGED <<processedAtEnd, decoded, dsp>>
     \/ /\ ~WriteIsBlocked /\ ~SerialIsOld /\ Len(decoded) = Capacity
        /\ source' = [source EXCEPT !.pc = "falling", !.waits = "write"]
        /\ UNCHANGED <<processedAtEnd, decoded, dsp>>
     \/ /\ ~WriteIsBlocked /\ ~SerialIsOld /\ Len(decoded) < Capacity
        /\ decoded' = Append(decoded, Frame(file.epoch, file.pos))
        /\ processedAtEnd' = FALSE
        /\ dsp' = Woken(dsp)
        /\ SourceGoes(IF kind = "decoder" /\ file.pos = Length THEN "end" ELSE "top")
  /\ UNCHANGED <<transition, resetRequested, resetTo, sourceAtEnd, file>>

(***************************************************************************)
(* The end of the file or stream; the decoder thread ends with it.         *)
(***************************************************************************)
SourceEnds ==
  /\ source.pc = "end"
  /\ sourceAtEnd' = TRUE
  /\ dsp' = Woken(dsp)
  /\ SourceGoes(IF kind = "decoder" THEN "exited" ELSE "top")
  /\ UNCHANGED <<transition, resetRequested, resetTo, processedAtEnd, file, decoded>>

SourceTestsOrSleeps ==
  /\ \/ /\ source.pc = "wait" /\ QueueIsFree
        /\ source' =
             IF ~SourceMayGoOn THEN [source EXCEPT !.pc = "falling"]
             ELSE [source EXCEPT
                     !.pc = IF source.waits = "write" THEN "write" ELSE "top",
                     !.committing = IF source.waits # "reset" THEN @
                                    ELSE IF kind = "m4a" THEN phase = "CommitInProgress"
                                    ELSE CommitIsCurrent]
     \/ /\ source.pc = "falling"
        /\ SourceGoes("asleep")
  /\ UNCHANGED <<transition, resetRequested, resetTo, sourceAtEnd, processedAtEnd,
                 file, decoded, dsp>>

Source ==
  /\ \/ FileTop \/ FileSeeks \/ FileAsksForReset \/ StreamTop \/ SourceWrites
     \/ SourceEnds \/ SourceTestsOrSleeps
  /\ UNCHANGED <<kind, seekState, resetApplied, streamSerial, finished, paused,
                 processed, owner, output>>

-----------------------------------------------------------------------------
Next ==
  \/ RequestSeek \/ Replay \/ RequestStreamReset \/ ContinueRequest \/ Pause \/ Resume
  \/ Output \/ Dsp \/ Source

Spec == Init /\ [][Next]_vars

(***************************************************************************)
(* The threads run, the device calls back, and a request once begun is     *)
(* carried through.                                                        *)
(***************************************************************************)
FairSpec ==
  Spec /\ WF_vars(ContinueRequest) /\ WF_vars(Output) /\ WF_vars(Dsp) /\ WF_vars(Source)

-----------------------------------------------------------------------------
(* Properties.                                                             *)

(***************************************************************************)
(* While the filter thread empties the rings for a commit that stands, no  *)
(* callback is in the middle of a read: discardBufferedFrames() is safe    *)
(* although it writes the reader's position.                               *)
(***************************************************************************)
ReaderIsHeldOff ==
  dsp.pc = "empty" /\ CommitIsCurrent => output.pc # "copy"

(***************************************************************************)
(* A commit of a stream that stands holds frames of its own serial alone:  *)
(* nothing written before the reset is left in a ring, or gets into one    *)
(* later, whatever the writer was about to write (applyPendingStreamReset).*)
(* Of a file's seek this is not so: the callback stores the commit's       *)
(* serial after the phase, and a source quick enough to ask for its reset  *)
(* in between has it applied to rings that nobody emptied.                 *)
(***************************************************************************)
Queued ==
  Range(decoded) \cup
    {processed.slots[i % Capacity] : i \in processed.read .. processed.written - 1}

CommitIsOfItsStream ==
  kind = "stream" /\ dsp.commit # "None" /\ CommitIsCurrent /\ dsp.pc # "empty"
    => \A frame \in Queued : frame.epoch = streamSerial

(***************************************************************************)
(* queuedAudioSourceWaitForSourceReset() returns: the filter thread acts   *)
(* on every reset a source asks for, one superseded meanwhile included,    *)
(* though it is notified without the mutex; only a pause, which keeps the  *)
(* callback from notifying it again, may hold it up.                       *)
(***************************************************************************)
ResetIsApplied ==
  kind # "stream" /\ resetRequested > resetApplied
    ~> resetRequested = resetApplied \/ paused

(***************************************************************************)
(* README.md:337 "- Left/Right or [ ]: seek +/-5s".  Not so of a decoder   *)
(* thread that has read its file to the end: it is gone while the rings    *)
(* still play, and nobody begins the commit of a seek that comes then.     *)
(***************************************************************************)
SeekIsSettled == kind # "stream" /\ seekRequested ~> ~seekRequested \/ paused
=============================================================================
