--------------------------- MODULE MCMowerCoordinator ---------------------------
(* A small instance of MowerCoordinator for TLC: two fields with events, one *)
(* without, and two that come in one answer, of which one is a time.         *)
EXTENDS MowerCoordinator

MCValues == [state |-> {"paused", "operation"},
             activity |-> {"mowing", "charging"},
             error_code |-> {"ok"},
             override_start_time |-> {NoTime, "noon"},
             override_duration |-> {"hours"}]
MCCommands == {{"state"}, {"activity"}, {"error_code"}, {"override_start_time", "override_duration"}}
MCEventFields == {"state", "activity"}
MCTimeFields == {"override_start_time"}
================================================================================
