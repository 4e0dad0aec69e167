--------------------------- MODULE MCQueuedAudio ---------------------------
(***************************************************************************)
(* Small instances of QueuedAudio.                                         *)
(***************************************************************************)
EXTENDS QueuedAudio

\* A second seek while the first is carried out, of a file and of a stream.
SeeksOfAllKinds == [decoder |-> 2, m4a |-> 1, stream |-> 2]

\* One seek of a file whose decoder thread may have ended.
OneSeekOfADecoder == [decoder |-> 1]
=============================================================================
