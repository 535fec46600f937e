-------------------------- MODULE MCAudioPipeline --------------------------
(* The graph of the checks: the RTSP audio and a second subscriber that    *)
(* shares the APM with it.                                                 *)
EXTENDS AudioPipeline

CONSTANTS n1, n2, rtsp, monitor

Chains == [s \in {rtsp, monitor} |-> IF s = rtsp THEN <<"apm", "encoder">> ELSE <<"apm">>]
=============================================================================
