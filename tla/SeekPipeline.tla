---------------------------- MODULE SeekPipeline ----------------------------
(***************************************************************************)
(* A seek of the video player (playback/video/player.cpp), across the five *)
(* threads it crosses: the owner that requests it, the control thread, the *)
(* demuxer, the video decoder and the video output.  They share a serial   *)
(* number under transitionMutex_ (control/serial.cpp), the control events, *)
(* a queue of packets and a queue of frames (core/queues.cpp) and flags.   *)
(*                                                                         *)
(* Every section under a mutex and every access to a shared atomic is a    *)
(* step.  A wait on a condition variable is a guard, made of the terms a   *)
(* notification follows: `running' is not one, the abort after it is.      *)
(*                                                                         *)
(* The file is a run of packets that starts where the last successful seek *)
(* put it; a packet and the frame decoded from it are known by that seek.  *)
(*                                                                         *)
(* Left out: sound, frame steps, sequences, resizing, a read that fails    *)
(* and is repeated, and the player's own state; decodeEnded, demuxEnded    *)
(* and the FirstFramePresented event, which only that state reads;         *)
(* presentedFrame and clearFrameRequested, what is on the screen between   *)
(* two presentations; and the clocks, so that showing, dropping or keeping *)
(* the front frame is a free choice.  Opening is over.                     *)
(***************************************************************************)
EXTENDS Integers, Sequences, FiniteSetsExt, Functions

CONSTANTS
  MaxSeeks,      \* bound on the seeks the owner requests
  Length,        \* packets from the place a seek goes to to the end
  PacketLimit,   \* packets that fill the packet queue
  FrameLimit,    \* frames that fill the frame queue: maxQueue and maxFrames_
  CodecDepth,    \* packets the codec holds back
  CanClose       \* whether the owner closes the player

ConstantsAssumption ==
  /\ MaxSeeks \in Nat
  /\ {Length, PacketLimit, FrameLimit, CodecDepth} \subseteq Nat \ {0}
  /\ CanClose \in BOOLEAN

ASSUME ConstantsAssumption

VARIABLES
  \* the owner and its requests
  running,         \* running, with ctrlRunning: no close was requested
  latest,          \* latestSeekRequestGeneration_
  handled,         \* handledSeekRequestGeneration_
  events,          \* the control events
  batch,           \* those the control thread has taken, `pending'
  control,         \* the control thread's place
  \* playback_video_serial_control::Controller
  serial,          \* currentSerial_
  seekPending,     \* seekPending_
  inFlight,        \* seekInFlightSerial_
  awaiting,        \* pendingSeekSerial_: no frame of it was presented yet
  position,        \* the seek presentedPositionUs_ is of, 0 if of an older serial
  \* flags
  commandPending,  \* cancels the demuxer's blocking calls
  \* the queues
  packets,         \* packets_ of videoPackets
  packetsAborted,
  frames,          \* queue_ of videoFrames
  free,            \* freeFrames_, oldest first
  frameSerial,     \* serial_
  framesAborted,
  \* the demuxer
  demux,           \* its place
  demuxSerial,     \* its serial
  claimed,         \* the serial of the seek it is at
  source,          \* the seek that put it where it reads
  unread,          \* packets left before the end of the file
  atEof,           \* demuxAtEof
  found,           \* the serials whose seek succeeded
  \* the decoder
  decode,          \* its place
  decoderSerial,
  pending,         \* pendingPacket, or Nothing
  codec,           \* the packets the codec holds
  draining,        \* inputEof: the codec was told that the stream ends
  slot,            \* the pool frame it acquired, 0 for none
  decoded,         \* what it received from the codec
  \* the output
  present,         \* its place
  outputSerial,    \* the serial it read
  seen,            \* the seek of the frame it peeked and will show, or 0
  taken            \* the frame it popped, or Nothing

Nothing == [kind |-> "Nothing"]

requests == <<latest, handled, events>>
controller == <<serial, seekPending, inFlight, awaiting>>
packetQueue == <<packets, packetsAborted>>
frameQueue == <<frames, free, frameSerial, framesAborted>>
demuxer == <<demux, demuxSerial, claimed, source, unread, atEof, found>>
decoder == <<decode, decoderSerial, pending, codec, draining, slot, decoded>>
output == <<present, outputSerial, seen, taken>>

vars == <<running, requests, batch, control, controller, position,
          commandPending, packetQueue, frameQueue, demuxer, decoder, output>>

Slots == 1..(FrameLimit + 1)
Pool == [i \in Slots |-> i]

\* startThreads() and the successful end of the opening: serial 1, nothing read.
Init ==
  /\ running = TRUE
  /\ latest = 0 /\ handled = 0
  /\ events = <<>> /\ batch = <<>>
  /\ control = "wait"
  /\ serial = 1 /\ seekPending = FALSE /\ inFlight = 0 /\ awaiting = 0
  /\ position = 0
  /\ commandPending = FALSE
  /\ packets = <<>> /\ packetsAborted = FALSE
  /\ frames = <<>> /\ free = Pool
  /\ frameSerial = 1 /\ framesAborted = FALSE
  /\ demux = "claim" /\ demuxSerial = 1 /\ claimed = 1
  /\ source = 1 /\ unread = Length /\ atEof = FALSE /\ found = {1}
  /\ decode = "take" /\ decoderSerial = 0 /\ pending = Nothing
  /\ codec = <<>> /\ draining = FALSE /\ slot = 0 /\ decoded = 0
  /\ present = "top" /\ outputSerial = 0
  /\ seen = 0 /\ taken = Nothing

-----------------------------------------------------------------------------
(* The queues *)

FlushMark(s) == [kind |-> "Flush", serial |-> s, source |-> 0]

\* PacketQueue::flush(serial): the decoder is told, whatever was queued.
FlushPackets(s) ==
  /\ packets' = <<FlushMark(s)>>
  /\ UNCHANGED packetsAborted

SlotsOf(queue) == [i \in DOMAIN queue |-> queue[i].slot]

\* A slip: a flush that forgets to give the frames back.
FlushLosesFrames(s) ==
  /\ frames' = <<>>
  /\ frameSerial' = s
  /\ UNCHANGED <<free, framesAborted>>

\* FrameQueue::flush(serial)
FlushFrames(s) ==
  /\ frames' = <<>>
  /\ free' = free \o SlotsOf(frames)
  /\ frameSerial' = s
  /\ UNCHANGED framesAborted

\* FrameQueue::release(poolIndex)
Release(i) ==
  /\ free' = Append(free, i)
  /\ UNCHANGED <<frames, frameSerial, framesAborted>>

-----------------------------------------------------------------------------
(* The owner *)

\* enqueueEventLocked(): a seek replaces a seek at the tail.
Enqueue(event) ==
  LET last == Len(events) IN
  events' = IF event.type = "Seek" /\ last > 0 /\ events[last].type = "Seek"
              THEN [events EXCEPT ![last] = event]
              ELSE Append(events, event)

\* postSeekRequest()
RequestSeek ==
  /\ running
  /\ latest < MaxSeeks
  /\ latest' = latest + 1
  /\ Enqueue([type |-> "Seek", generation |-> latest + 1])
  /\ UNCHANGED <<running, handled, batch, control, controller, position,
                 commandPending, packetQueue, frameQueue, demuxer, decoder,
                 output>>

\* Player::requestClose()
RequestClose ==
  /\ CanClose
  /\ running
  /\ running' = FALSE
  /\ commandPending' = TRUE
  /\ UNCHANGED <<requests, batch, control, controller, position, packetQueue,
                 frameQueue, demuxer, decoder, output>>

-----------------------------------------------------------------------------
(* The control thread *)

AfterEvent ==
  /\ batch' = Tail(batch)
  /\ control' = IF Len(batch) = 1 THEN "wait" ELSE "handle"

\* controlMain(): all waiting events at once; an ended session stops.
TakeEvents ==
  /\ control = "wait"
  /\ \/ /\ events # <<>>
        /\ batch' = events
        /\ events' = <<>>
        /\ control' = "handle"
     \/ /\ ~running
        /\ control' = "stop"
        /\ UNCHANGED <<batch, events>>
  /\ UNCHANGED <<running, latest, handled, controller, position,
                 commandPending, packetQueue, frameQueue, demuxer, decoder,
                 output>>

\* A SeekRequest: Controller::beginTransition(), found once not running.
BeginTransition ==
  /\ control = "handle"
  /\ Head(batch).type = "Seek"
  /\ IF running
       THEN /\ serial' = serial + 1
            /\ inFlight' = serial + 1
            /\ awaiting' = serial + 1
            /\ seekPending' = TRUE
            /\ position' = 0
            /\ control' = "signal"
       ELSE /\ control' = "acknowledge"
            /\ UNCHANGED <<controller, position>>
  /\ UNCHANGED <<running, requests, batch, commandPending,
                 packetQueue, frameQueue, demuxer, decoder, output>>

\* applySerialTransition(): a store and two flushes, each for itself.
Signal ==
  /\ control = "signal"
  /\ commandPending' = TRUE
  /\ control' = "flushPackets"
  /\ UNCHANGED <<running, requests, batch, controller, position, packetQueue,
                 frameQueue, demuxer, decoder, output>>

ControlFlushesPackets ==
  /\ control = "flushPackets"
  /\ FlushPackets(serial)
  /\ control' = "flushFrames"
  /\ UNCHANGED <<running, requests, batch, controller, position,
                 commandPending, frameQueue, demuxer, decoder, output>>

ControlFlushesFrames ==
  /\ control = "flushFrames"
  /\ FlushFrames(serial)
  /\ control' = "acknowledge"
  /\ UNCHANGED <<running, requests, batch, controller, position,
                 commandPending, packetQueue, demuxer, decoder, output>>

\* Controller::acknowledgeSeekRequest()
Acknowledge ==
  /\ control = "acknowledge"
  /\ handled' = Max({handled, Head(batch).generation})
  /\ AfterEvent
  /\ UNCHANGED <<running, latest, events, controller, position, commandPending,
                 packetQueue, frameQueue, demuxer, decoder, output>>

\* Slips: a result is taken for the current seek's, a failed one ignored.
ApplyAnyResult ==
  /\ control = "handle"
  /\ Head(batch).type = "Applied"
  /\ inFlight' = 0
  /\ awaiting' = IF Head(batch).failed THEN 0 ELSE awaiting
  /\ AfterEvent
  /\ UNCHANGED <<running, requests, serial, seekPending, position,
                 commandPending, packetQueue, frameQueue, demuxer, decoder,
                 output>>

ApplySuccessOnly ==
  /\ control = "handle"
  /\ Head(batch).type = "Applied"
  /\ inFlight' = IF Head(batch).serial = serial /\ ~Head(batch).failed
                   THEN 0 ELSE inFlight
  /\ AfterEvent
  /\ UNCHANGED <<running, requests, serial, seekPending, awaiting, position,
                 commandPending, packetQueue, frameQueue, demuxer, decoder,
                 output>>

\* A SeekApplied: Controller::applySeekResult(), which ignores an old seek's.
ApplySeekResult ==
  /\ control = "handle"
  /\ Head(batch).type = "Applied"
  /\ IF Head(batch).serial = serial
       THEN /\ inFlight' = 0
            /\ awaiting' = IF Head(batch).failed THEN 0 ELSE awaiting
       ELSE UNCHANGED <<inFlight, awaiting>>
  /\ AfterEvent
  /\ UNCHANGED <<running, requests, serial, seekPending, position,
                 commandPending, packetQueue, frameQueue, demuxer, decoder,
                 output>>

\* stopThreads(), up to its first join.
StopSignals ==
  /\ control = "stop"
  /\ commandPending' = FALSE
  /\ control' = "abortPackets"
  /\ UNCHANGED <<running, requests, batch, controller, position, packetQueue,
                 frameQueue, demuxer, decoder, output>>

AbortPackets ==
  /\ control = "abortPackets"
  /\ packetsAborted' = TRUE
  /\ control' = "abortFrames"
  /\ UNCHANGED <<running, requests, batch, controller, position,
                 commandPending, packets, frameQueue, demuxer, decoder,
                 output>>

\* A slip: the abort of the frames is forgotten.
AbortNoFrames ==
  /\ control = "abortFrames"
  /\ control' = "join"
  /\ UNCHANGED <<running, requests, batch, controller, position,
                 commandPending, packetQueue, frameQueue, demuxer, decoder,
                 output>>

AbortFrames ==
  /\ control = "abortFrames"
  /\ framesAborted' = TRUE
  /\ control' = "join"
  /\ UNCHANGED <<running, requests, batch, controller, position,
                 commandPending, packetQueue, frames, free, frameSerial,
                 demuxer, decoder, output>>

\* The joins, and the flushes after them.
Join ==
  /\ control = "join"
  /\ {demux, decode, present} = {"exited"}
  /\ control' = "stopped"
  /\ packets' = <<>>
  /\ FlushFrames(serial)
  /\ UNCHANGED <<running, requests, batch, controller, position,
                 commandPending, packetsAborted, demuxer, decoder, output>>

ControlNext ==
  \/ TakeEvents \/ BeginTransition \/ Signal
  \/ ControlFlushesPackets \/ ControlFlushesFrames \/ Acknowledge
  \/ ApplySeekResult \/ StopSignals \/ AbortPackets \/ AbortFrames \/ Join

-----------------------------------------------------------------------------
(* The demuxer *)

undemuxed == <<running, latest, handled, batch, control, position, decoder,
               output>>

\* The top of the loop, with Controller::claimPendingSeek().  The loop's test
\* for a serial that changed with no seek pending never holds: see
\* AppliedMeansPositioned.
Claim ==
  /\ demux = "claim"
  /\ demux' = IF ~running THEN "exited"
              ELSE IF seekPending THEN "uncancel" ELSE "check"
  /\ IF running /\ seekPending
       THEN /\ seekPending' = FALSE
            /\ claimed' = serial
       ELSE UNCHANGED <<seekPending, claimed>>
  /\ UNCHANGED <<undemuxed, events, serial, inFlight, awaiting, commandPending,
                 packetQueue, frameQueue, demuxSerial, source, unread, atEof,
                 found>>

\* commandPending.store(false), before the seek.
Uncancel ==
  /\ demux = "uncancel"
  /\ commandPending' = FALSE
  /\ demux' = "seek"
  /\ UNCHANGED <<undemuxed, events, controller, packetQueue, frameQueue,
                 demuxSerial, claimed, source, unread, atEof, found>>

\* seekPrimaryDemux(), which may fail: for the file's sake, or because the
\* interrupt callback saw commandPending, a newer serial or the end.  One that
\* fails leaves the file where it was: where else the demuxer may have left it, no
\* packet says, as none is known by that seek.
SeekFile ==
  /\ demux = "seek"
  /\ demux' = "flushPackets"
  /\ demuxSerial' = claimed
  /\ atEof' = FALSE
  /\ \/ /\ source' = claimed
        /\ unread' = Length
        /\ found' = found \cup {claimed}
     \/ UNCHANGED <<source, unread, found>>
  /\ UNCHANGED <<undemuxed, events, controller, commandPending, packetQueue,
                 frameQueue, claimed>>

DemuxFlushesPackets ==
  /\ demux = "flushPackets"
  /\ FlushPackets(demuxSerial)
  /\ demux' = "flushFrames"
  /\ UNCHANGED <<undemuxed, events, controller, commandPending, frameQueue,
                 demuxSerial, claimed, source, unread, atEof, found>>

DemuxFlushesFrames ==
  /\ demux = "flushFrames"
  /\ FlushFrames(demuxSerial)
  /\ demux' = "post"
  /\ UNCHANGED <<undemuxed, events, controller, commandPending, packetQueue,
                 demuxSerial, claimed, source, unread, atEof, found>>

\* The SeekApplied event.
PostApplied ==
  /\ demux = "post"
  /\ Enqueue([type |-> "Applied", serial |-> claimed,
              failed |-> claimed \notin found])
  /\ demux' = "applied"
  /\ UNCHANGED <<undemuxed, controller, commandPending, packetQueue,
                 frameQueue, demuxSerial, claimed, source, unread, atEof,
                 found>>

\* `if (!seekPending()) commandPending.store(false)': a test and a store.
CheckPending ==
  /\ demux \in {"applied", "check"}
  /\ demux' = IF ~seekPending
                THEN IF demux = "check" THEN "uncheck" ELSE "unapplied"
                ELSE IF demux = "check" THEN "read" ELSE "claim"
  /\ UNCHANGED <<undemuxed, events, controller, commandPending, packetQueue,
                 frameQueue, demuxSerial, claimed, source, unread, atEof,
                 found>>

ClearCommand ==
  /\ demux \in {"unapplied", "uncheck"}
  /\ commandPending' = FALSE
  /\ demux' = IF demux = "uncheck" THEN "read" ELSE "claim"
  /\ UNCHANGED <<undemuxed, events, controller, packetQueue, frameQueue,
                 demuxSerial, claimed, source, unread, atEof, found>>

Interrupted == ~running \/ commandPending \/ serial # claimed

\* av_read_frame(): a packet, the end, or nothing when it was interrupted.
Read ==
  /\ demux = "read"
  /\ \/ /\ ~atEof /\ unread > 0
        /\ demux' = "push"
        /\ unread' = unread - 1
     \/ /\ ~atEof /\ unread = 0
        /\ demux' = "end"
        /\ UNCHANGED unread
     \/ /\ atEof \/ Interrupted
        /\ demux' = "claim"
        /\ UNCHANGED unread
  /\ UNCHANGED <<undemuxed, events, controller, commandPending, packetQueue,
                 frameQueue, demuxSerial, claimed, source, atEof, found>>

DataPackets == {i \in DOMAIN packets : packets[i].kind = "Data"}

Full == packets # <<>> /\ Cardinality(DataPackets) >= PacketLimit

\* PacketQueue::pushPacket(): waits for room, for the cancellation (looked at
\* every 2 ms) or the abort, and drops the packet when it is cancelled.
PushPacket ==
  /\ demux = "push"
  /\ packetsAborted \/ commandPending \/ ~Full
  /\ demux' = IF packetsAborted THEN "exited" ELSE "claim"
  /\ packets' = IF packetsAborted \/ commandPending THEN packets
                ELSE Append(packets, [kind |-> "Data", serial |-> demuxSerial,
                                      source |-> source])
  /\ UNCHANGED <<undemuxed, events, controller, commandPending, packetsAborted,
                 frameQueue, demuxSerial, claimed, source, unread, atEof,
                 found>>

\* PacketQueue::pushEof(), which no bound holds up.
PushEof ==
  /\ demux = "end"
  /\ demux' = "claim"
  /\ atEof' = TRUE
  /\ packets' = IF packetsAborted THEN packets
                ELSE Append(packets, [kind |-> "EndOfStream",
                                      serial |-> demuxSerial, source |-> 0])
  /\ UNCHANGED <<undemuxed, events, controller, commandPending, packetsAborted,
                 frameQueue, demuxSerial, claimed, source, unread, found>>

DemuxNext ==
  \/ Claim \/ Uncancel \/ SeekFile \/ DemuxFlushesPackets
  \/ DemuxFlushesFrames \/ PostApplied \/ CheckPending \/ ClearCommand
  \/ Read \/ PushPacket \/ PushEof

-----------------------------------------------------------------------------
(* The video decoder *)

undecoded == <<running, requests, batch, control, controller, position,
               commandPending, packetsAborted, demuxer, output>>

\* The top of the outer loop, and PacketQueue::pop() unless a packet is left.
TakePacket ==
  /\ decode = "take"
  /\ \/ /\ ~running \/ (pending = Nothing /\ packetsAborted)
        /\ decode' = "exited"
        /\ UNCHANGED <<packets, pending>>
     \/ /\ running
        /\ pending # Nothing
        /\ decode' = "packet"
        /\ UNCHANGED <<packets, pending>>
     \/ /\ running
        /\ pending = Nothing
        /\ ~packetsAborted
        /\ packets # <<>>
        /\ pending' = Head(packets)
        /\ packets' = Tail(packets)
        /\ decode' = "packet"
  /\ UNCHANGED <<undecoded, frameQueue, decoderSerial, codec, draining, slot,
                 decoded>>

\* A slip: the codec is not flushed.
ForgetAllButCodec(s) ==
  /\ draining' = FALSE
  /\ pending' = Nothing
  /\ decoderSerial' = s
  /\ UNCHANGED <<codec, slot, decoded>>

\* What a flush mark and a serial that changed make the decoder forget.
Forget(s) ==
  /\ codec' = <<>>
  /\ draining' = FALSE
  /\ pending' = Nothing
  /\ decoderSerial' = s
  /\ UNCHANGED <<slot, decoded>>

\* A flush mark: forget the stream, flush the frames with the mark's serial.
TakeFlush ==
  /\ decode = "packet"
  /\ pending.kind = "Flush"
  /\ Forget(pending.serial)
  /\ FlushFrames(pending.serial)
  /\ decode' = "take"
  /\ UNCHANGED <<undecoded, packets>>

\* avcodec_send_packet(), for a packet of the decoder's serial only.  A codec
\* that is full keeps the packet pending.
SendPacket ==
  /\ decode = "packet"
  /\ pending.kind # "Flush"
  /\ decoderSerial' = IF decoderSerial = 0 THEN pending.serial
                      ELSE decoderSerial
  /\ IF pending.serial # decoderSerial'
       THEN /\ pending' = Nothing
            /\ decode' = "take"
            /\ UNCHANGED <<codec, draining>>
       ELSE /\ decode' = "receive"
            /\ IF pending.kind = "Data" /\ Len(codec) < CodecDepth
                 THEN /\ codec' = Append(codec, pending.source)
                      /\ pending' = Nothing
                      /\ UNCHANGED draining
               ELSE IF pending.kind = "EndOfStream"
                 THEN /\ draining' = TRUE
                      /\ pending' = Nothing
                      /\ UNCHANGED codec
               ELSE UNCHANGED <<codec, pending, draining>>
  /\ UNCHANGED <<undecoded, packets, frameQueue, slot, decoded>>

\* The top of the inner loop sees another serial: it adopts it ...
AdoptSerial ==
  /\ decode = "receive"
  /\ running
  /\ decoderSerial # serial
  /\ Forget(serial)
  /\ decode' = "adopt"
  /\ UNCHANGED <<undecoded, packets, frameQueue>>

\* ... and flushes the frames with it.
FlushAdopted ==
  /\ decode = "adopt"
  /\ FlushFrames(decoderSerial)
  /\ decode' = "take"
  /\ UNCHANGED <<undecoded, packets, decoderSerial, pending, codec, draining,
                 slot, decoded>>

\* avcodec_receive_frame(): a frame, unless the codec wants more or is drained.
ReceiveFrame ==
  /\ decode = "receive"
  /\ running => decoderSerial = serial
  /\ \/ /\ running /\ codec # <<>>
        /\ decoded' = Head(codec)
        /\ codec' = Tail(codec)
        /\ decode' = "acquire"
     \/ /\ ~running \/ codec = <<>> \/ (Len(codec) < CodecDepth /\ ~draining)
        /\ decode' = "take"
        /\ UNCHANGED <<codec, decoded>>
  /\ UNCHANGED <<undecoded, packets, frameQueue, decoderSerial, pending,
                 draining, slot>>

HasRoom == free # <<>> /\ Len(frames) < FrameLimit

\* FrameQueue::acquireFrame(): fails, and the frame is lost, when the queue
\* has another serial, was aborted or found at its waking that all must end.
AcquireFrame ==
  /\ decode = "acquire"
  /\ \/ /\ \/ framesAborted
           \/ decoderSerial # frameSerial
           \/ ~running /\ HasRoom
        /\ decode' = "take"
        /\ decoded' = 0
        /\ UNCHANGED <<slot, free>>
     \/ /\ ~framesAborted
        /\ decoderSerial = frameSerial
        /\ running /\ HasRoom
        /\ slot' = Head(free)
        /\ free' = Tail(free)
        /\ decode' = "emit"
        /\ UNCHANGED decoded
  /\ UNCHANGED <<undecoded, packets, frames, frameSerial, framesAborted,
                 decoderSerial, pending, codec, draining>>

\* The frame could not be converted, or lies before the seek's target.
DropDecoded ==
  /\ decode = "emit"
  /\ Release(slot)
  /\ slot' = 0
  /\ decoded' = 0
  /\ decode' = "receive"
  /\ UNCHANGED <<undecoded, packets, decoderSerial, pending, codec, draining>>

\* FrameQueue::push(): an aborted queue refuses, a full one frees the frame.
PushFrame ==
  /\ decode = "emit"
  /\ decode' = "receive"
  /\ slot' = 0
  /\ decoded' = 0
  /\ IF framesAborted THEN UNCHANGED <<frames, free>>
     ELSE IF Len(frames) >= FrameLimit
       THEN /\ free' = Append(free, slot)
            /\ UNCHANGED frames
     ELSE /\ frames' = Append(frames, [kind |-> "Frame", slot |-> slot,
                                       serial |-> decoderSerial,
                                       source |-> decoded])
          /\ UNCHANGED free
  /\ UNCHANGED <<undecoded, packets, frameSerial, framesAborted, decoderSerial,
                 pending, codec, draining>>

DecodeNext ==
  \/ TakePacket \/ TakeFlush \/ SendPacket \/ AdoptSerial \/ FlushAdopted
  \/ ReceiveFrame \/ AcquireFrame \/ DropDecoded \/ PushFrame

-----------------------------------------------------------------------------
(* The video output *)

unshown == <<running, requests, batch, control, serial, seekPending, inFlight,
             commandPending, packetQueue, frameSerial, framesAborted, demuxer,
             decoder>>

\* The top of the loop, and the serial it goes by.
ReadSerial ==
  /\ present = "top"
  /\ IF running
       THEN present' = "peek" /\ outputSerial' = serial
       ELSE present' = "exited" /\ UNCHANGED outputSerial
  /\ UNCHANGED <<unshown, awaiting, position, frames, free, seen, taken>>

\* FrameQueue::peek() and what is decided about the frame it returns.  The
\* player's state or the clock may say to look again later, or to drop it.
PeekFrame ==
  /\ present = "peek"
  /\ outputSerial' = 0
  /\ \/ /\ present' = "top"
        /\ UNCHANGED seen
     \/ /\ frames # <<>>
        /\ present' = "drop"
        /\ UNCHANGED seen
     \/ /\ frames # <<>>
        /\ Head(frames).serial = outputSerial
        /\ present' = "show"
        /\ seen' = Head(frames).source
  /\ UNCHANGED <<unshown, awaiting, position, frames, free, taken>>

\* FrameQueue::pop(), by now perhaps another frame.
PopFrame ==
  /\ present \in {"drop", "show"}
  /\ IF frames = <<>>
       THEN /\ present' = "top"
            /\ seen' = 0
            /\ UNCHANGED <<frames, taken>>
       ELSE /\ taken' = Head(frames)
            /\ frames' = Tail(frames)
            /\ present' = IF present = "drop" THEN "dropped" ELSE "taken"
            /\ UNCHANGED seen
  /\ UNCHANGED <<unshown, awaiting, position, free, outputSerial>>

\* A frame to be shown was copied before.
ReleaseFrame ==
  /\ present \in {"dropped", "taken"}
  /\ free' = Append(free, taken.slot)
  /\ IF present = "taken"
       THEN present' = "note" /\ taken' = [taken EXCEPT !.slot = 0]
       ELSE present' = "top" /\ taken' = Nothing
  /\ UNCHANGED <<unshown, awaiting, position, frames, outputSerial, seen>>

\* publishPresentedFrame() gives the popped frame the peeked frame's time;
\* Controller::notePresentedPosition()
NotePosition ==
  /\ present = "note"
  /\ position' = IF taken.serial = serial THEN seen ELSE position
  /\ seen' = 0
  /\ present' = "complete"
  /\ UNCHANGED <<unshown, awaiting, frames, free, outputSerial, taken>>

\* Controller::clearPendingPresentation()
CompletePresentation ==
  /\ present = "complete"
  /\ awaiting' = IF awaiting = taken.serial THEN 0 ELSE awaiting
  /\ taken' = Nothing
  /\ present' = "top"
  /\ UNCHANGED <<unshown, position, frames, free, outputSerial, seen>>

PresentNext ==
  \/ ReadSerial \/ PeekFrame \/ PopFrame \/ ReleaseFrame \/ NotePosition
  \/ CompletePresentation

-----------------------------------------------------------------------------

Next ==
  \/ RequestSeek \/ RequestClose
  \/ ControlNext \/ DemuxNext \/ DecodeNext \/ PresentNext

\* The four threads run, but the output need not take a frame before the player
\* closes: that of a paused player does not.  The owner need not request anything.
\* Every step of a thread moves it to another place, and the control thread's
\* shortens its batch if not.
Fairness ==
  /\ WF_<<control, batch>>(ControlNext)
  /\ WF_demux(DemuxNext)
  /\ WF_decode(DecodeNext)
  /\ WF_present(~running /\ PresentNext)

Spec == Init /\ [][Next]_vars

FairSpec == Spec /\ Fairness

\* A step of a player whose output takes no frame from the first seek to the
\* close, as a paused player's takes none.
PausedWhileSeeking == (latest > 0 /\ running => present = "top")'

-----------------------------------------------------------------------------
(* Properties *)

Serials == 1..(MaxSeeks + 1)
FramesIn(slots) ==
  [kind : {"Frame"}, slot : slots, serial : Serials, source : Serials]
Packet == [kind : {"Flush", "Data", "EndOfStream"}, serial : Serials,
           source : Serials \cup {0}]
Event == [type : {"Seek"}, generation : 1..MaxSeeks]
           \cup [type : {"Applied"}, serial : Serials, failed : BOOLEAN]

RequestType ==
  /\ running \in BOOLEAN
  /\ {latest, handled} \subseteq 0..MaxSeeks /\ handled <= latest
  /\ {events, batch} \subseteq Seq(Event)
  /\ control \in {"wait", "handle", "signal", "flushPackets", "flushFrames",
                  "acknowledge", "stop", "abortPackets", "abortFrames",
                  "join", "stopped"}

ControllerType ==
  /\ serial \in Serials
  /\ {inFlight, awaiting, position} \subseteq Serials \cup {0}
  /\ {seekPending, commandPending} \subseteq BOOLEAN

QueueType ==
  /\ packets \in Seq(Packet) /\ Cardinality(DataPackets) <= PacketLimit
  /\ frames \in Seq(FramesIn(Slots)) /\ Len(frames) <= FrameLimit
  /\ free \in Seq(Slots) /\ Len(free) <= FrameLimit + 1
  /\ frameSerial \in Serials
  /\ {packetsAborted, framesAborted} \subseteq BOOLEAN

DemuxerType ==
  /\ demux \in {"claim", "uncancel", "seek", "flushPackets", "flushFrames",
                "post", "applied", "unapplied", "check", "uncheck", "read",
                "push", "end", "exited"}
  /\ {demuxSerial, claimed, source} \subseteq Serials
  /\ found \subseteq Serials
  /\ unread \in 0..Length
  /\ atEof \in BOOLEAN

DecoderType ==
  /\ decode \in {"take", "packet", "receive", "adopt", "acquire", "emit",
                 "exited"}
  /\ {decoderSerial, decoded} \subseteq Serials \cup {0}
  /\ pending \in Packet \cup {Nothing}
  /\ codec \in Seq(Serials) /\ Len(codec) <= CodecDepth
  /\ draining \in BOOLEAN
  /\ slot \in Slots \cup {0}

OutputType ==
  /\ present \in {"top", "peek", "drop", "show", "dropped", "taken",
                  "note", "complete", "exited"}
  /\ {outputSerial, seen} \subseteq Serials \cup {0}
  /\ taken \in FramesIn(Slots \cup {0}) \cup {Nothing}

\* The types, with the bounds of both queues, of the pool and of the codec.
TypeOK ==
  /\ RequestType /\ ControllerType /\ QueueType
  /\ DemuxerType /\ DecoderType /\ OutputType

\* The newest seek up to s that found its place.
PlaceOf(s) == Max({t \in found : t <= s})

\* Whatever the decoder still held of an earlier place, a frame shown under a
\* serial was read where the newest seek that succeeded by then went.
ShownIsOfItsSeek ==
  present = "note" => taken.source = PlaceOf(taken.serial)

\* A seek counts as applied only once the demuxer stands where it goes, and a
\* serial the demuxer does not read for is one it has yet to claim.
AppliedMeansPositioned ==
  /\ inFlight = 0 => demuxSerial = serial /\ ~seekPending
  /\ claimed # serial => seekPending

\* No frame of the pool is lost or in two hands, however flushes, drops and
\* presentations interleave; only the abort may lose one.
FramePoolIsWhole ==
  LET held == (IF slot = 0 THEN <<>> ELSE <<slot>>)
                \o (IF present \in {"dropped", "taken"}
                      THEN <<taken.slot>> ELSE <<>>)
      all == free \o SlotsOf(frames) \o held
  IN ~framesAborted => /\ Range(all) = Slots
                       /\ Len(all) = FrameLimit + 1

\* A seek is applied although the demuxer may be blocked on a full queue that
\* a paused player never empties, and although its store of FALSE to
\* commandPending may overwrite the signal to come out.  And a close ends all
\* threads, whichever queue each of them waits for and whatever part of a seek
\* is under way: no thread that has to get out waits for ever on another.
SeekSettles ==
  inFlight # 0 \/ ~running ~>
    (running /\ inFlight = 0) \/ control = "stopped"

\* The editor's promise never to attach a mark to a frame of the wrong seek:
\* a position it takes for settled is of the seek it is waiting for.
SettledPositionIsOfItsSeek ==
  (/\ latest = handled
   /\ ~seekPending /\ inFlight = 0 /\ awaiting = 0
   /\ position # 0)
    => position = PlaceOf(serial)

=============================================================================
