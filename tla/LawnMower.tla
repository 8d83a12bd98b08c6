-------------------------------- MODULE LawnMower --------------------------------
(****************************************************************************)
(* What users of Home Assistant can do with the mower, on top of            *)
(* MowerCoordinator: the services start, dock, pause and stop of            *)
(* MowerLawnMower (lawn_mower.py), the buttons (button.py) and the          *)
(* operating mode (select.py) of src/custom_components/mower_wifi.          *)
(*                                                                          *)
(* A service looks at the coordinator's data when it is called, and awaits  *)
(* its commands one after the other.  Services are called by users and      *)
(* automations at any time: Home Assistant lets them overlap.               *)
(*                                                                          *)
(* A service is the list of the commands it still has to send; the first is *)
(* the one it awaits.  With each goes what happens to _task_cancelled when  *)
(* it has returned.                                                         *)
(*                                                                          *)
(* Definitions introduced as "Fault" are plausible bugs, each stated before *)
(* the definition it would replace; no specification uses them.             *)
(****************************************************************************)
EXTENDS MowerCoordinator, Sequences

CONSTANT Calls  \* the services that may run at the same time

VARIABLES
  todo,           \* call -> the commands it has to send
  task_cancelled, \* _task_cancelled
  halt            \* history: the last of start, dock and stop that was called is stop, and
                  \* did not fail; "alone" if no other service interfered, else "beside"

services == <<todo, task_cancelled, halt>>
vars     == <<coordVars, services>>

Command == {"StartTrigger", "SetMode", "SetOverrideMow", "SetOverrideParkUntilNextStart",
            "Pause", "ClearOverride"}
After   == {"keep", "set", "reset"}  \* what becomes of _task_cancelled

\* Every variable has its type: services send known commands only, over a coordinator
\* whose data are in their types.
TypeOK ==
  /\ CoordTypeOK
  /\ todo \in [Calls -> Seq(Command \X After)]
  /\ task_cancelled \in BOOLEAN
  /\ halt \in {"no", "beside", "alone"}

Idle(c) == todo[c] = <<>>

\* Call c has this to do to _task_cancelled yet.
Will(c, after) == \E i \in 1..Len(todo[c]) : todo[c][i][2] = after

--------------------------------------------------------------------------------
(* The services.                                                            *)

Resume    == << <<"StartTrigger", "reset">> >>
FullStart == << <<"SetMode", "keep">>, <<"SetOverrideMow", "keep">>, <<"StartTrigger", "reset">> >>
Park      == << <<"SetOverrideParkUntilNextStart", "reset">> >>
Recall    == Append(Park, <<"StartTrigger", "keep">>)
ParkPressed == << <<"SetOverrideParkUntilNextStart", "keep">>, <<"StartTrigger", "keep">> >>

\* Call c begins with commands cs.
Begin(c, cs) ==
  /\ Idle(c)
  /\ todo' = [todo EXCEPT ![c] = cs]
  /\ UNCHANGED <<task_cancelled, coordVars>>

\* Fault: the flag is not looked at.
StartIgnoringStop(c) ==
  /\ Begin(c, IF data["state"] = "paused" THEN Resume ELSE FullStart)
  /\ halt' = "no"

\* A paused mower resumes, unless its task was cancelled.
StartMowing(c) ==
  /\ Begin(c, IF data["state"] = "paused" /\ ~task_cancelled THEN Resume ELSE FullStart)
  /\ halt' = "no"

\* A mower that is out is called home.
Dock(c) ==
  /\ Begin(c, IF data["activity"] \in {"charging", "parked"} THEN Park ELSE Recall)
  /\ halt' = "no"

PauseMowing(c) ==
  /\ Begin(c, << <<"Pause", "keep">> >>)
  /\ UNCHANGED halt

Stop(c) ==
  /\ Begin(c, << <<"Pause", "keep">>, <<"ClearOverride", "set">> >>)
  /\ halt' = IF \E d \in Calls : Will(d, "reset") THEN "beside" ELSE "alone"

\* ParkUntilNextStartButton: a mower that is out mowing is called home.
PressPark(c) ==
  /\ Begin(c, IF data["activity"] \in {"going_out", "mowing"} THEN ParkPressed ELSE << ParkPressed[1] >>)
  /\ UNCHANGED halt

\* ResumeScheduleButton
PressResume(c) == Begin(c, << <<"ClearOverride", "keep">> >>) /\ UNCHANGED halt

\* MowerModeSelect
SelectMode(c) == Begin(c, << <<"SetMode", "keep">> >>) /\ UNCHANGED halt

\* The command that call c awaits returns, with or without a response.
Returns(c) ==
  /\ ~Idle(c)
  /\ task_cancelled' = CASE Head(todo[c])[2] = "set"   -> TRUE
                         [] Head(todo[c])[2] = "reset" -> FALSE
                         [] OTHER                      -> task_cancelled
  /\ todo' = [todo EXCEPT ![c] = Tail(@)]
  /\ UNCHANGED <<halt, coordVars>>

\* It raises (ReturnsNoneOnError of MowerClient), and the service fails.
Raises(c) ==
  /\ ~Idle(c)
  /\ todo' = [todo EXCEPT ![c] = <<>>]
  /\ halt' = IF Will(c, "set") THEN "no" ELSE halt
  /\ UNCHANGED <<task_cancelled, coordVars>>

\* Home Assistant restarts, or the integration is reloaded: nothing is persisted.
Restart ==
  /\ data' = NoResult /\ contact' = "never"
  /\ polling' = FALSE /\ result' = NoResult
  /\ todo' = [c \in Calls |-> <<>>]
  /\ task_cancelled' = FALSE
  /\ halt' = IF halt = "no" \/ \E c \in Calls : Will(c, "set") THEN "no" ELSE "beside"
  /\ UNCHANGED mower

--------------------------------------------------------------------------------

Init ==
  /\ CoordInit
  /\ todo = [c \in Calls |-> <<>>]
  /\ task_cancelled = FALSE
  /\ halt = "no"

Service(c) ==
  \/ StartMowing(c) \/ Dock(c) \/ PauseMowing(c) \/ Stop(c)
  \/ PressPark(c) \/ PressResume(c) \/ SelectMode(c)
  \/ Returns(c) \/ Raises(c)

Next ==
  \/ CoordNext /\ UNCHANGED services
  \/ \E c \in Calls : Service(c)
  \/ Restart

Spec == Init /\ [][Next]_vars

--------------------------------------------------------------------------------
(* Properties.                                                              *)

\* A service begins while no other one runs.
BeginsAlone(c) == (\A d \in Calls : Idle(d)) /\ ~Idle(c)'

\* "The mower stays paused; the next Start mowing always runs the full start sequence
\* instead of resuming" (docs/ha_component.md:189): a start that follows a stop does, whatever
\* the coordinator learned and lost meanwhile, as long as no start or dock ran beside the stop
\* and Home Assistant did not restart.  _task_cancelled is not reset on other ways.
StartAfterLoneStopIsFull ==
  [][\A c \in Calls : halt = "alone" /\ BeginsAlone(c) /\ StartMowing(c)
       => todo'[c] = FullStart]_vars
================================================================================
