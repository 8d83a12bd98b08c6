----------------------------- MODULE MCMowerBridge ------------------------------
(* Small instances of MowerBridge for TLC.                                  *)
EXTENDS MowerBridge, SequencesExt

\* The request has a 4 where HEARTBEAT_PING has a 73, so that MaxFrame can be 10 where
\* MAX_FRAME_SIZE is 512.
MCHeartbeat == <<2, 80, 4, 78, 71, 3>>

\* Two commands and a heartbeat; a heartbeat, noise and a frame whose payload looks
\* like starts of frames; a corrupted length field before them.
MCStreams ==
  { <<>>,
    <<2, 129, 3, 0, 7, 9, 3>> \o <<2, 16, 0, 9, 3>> \o MCHeartbeat,
    MCHeartbeat \o <<0>> \o <<2, 16, 2, 2, 2, 9, 3>>,
    <<2, 129, 0, 1>> \o MCHeartbeat \o <<2, 16, 0, 9, 3>> \o <<2>> }
================================================================================
