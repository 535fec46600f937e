--------------------------- MODULE MCAudioPlayback ---------------------------
(***************************************************************************)
(* AudioPlaybackPipeline with PCM blocks of one period, AAC and Opus       *)
(* packets of two, and packets no decoder or no device takes.              *)
(***************************************************************************)
EXTENDS AudioPlaybackPipeline

Item(codec, rate, duration) == [codec |-> codec, rate |-> rate, duration |-> duration]

MCItems == {Item("pcm", 48, 1), Item("pcm", 44, 1), Item("aac", 48, 2), Item("opus", 44, 2)}

(* The default, a ring below the minimum, a threshold above the ring.      *)
MCRequests == {<<0, 0>>, <<1, 1>>, <<3, 5>>}

(* AAC at 16 kHz: 1024 samples are 64 ms; the ring asked for is 8 periods. *)
LongItems == {Item("aac", 16, 6)}
DefaultRequest == {<<8, 0>>}
=============================================================================
