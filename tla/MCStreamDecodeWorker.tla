----------------------- MODULE MCStreamDecodeWorker -----------------------
(* An instance of StreamDecodeWorker for TLC: an H.264 stream.             *)
EXTENDS StreamDecodeWorker

Sets == <<"sps", "pps">>
=============================================================================
