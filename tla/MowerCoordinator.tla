---------------------------- MODULE MowerCoordinator ----------------------------
(****************************************************************************)
(* Class MowerCoordinator of                                                *)
(* src/custom_components/mower_wifi/coordinator.py: what Home Assistant     *)
(* knows of the mower, from polls and from the events the mower sends.      *)
(*                                                                          *)
(* A poll is a set of commands that run concurrently, for one field or more *)
(* each, and end in any order with an answer or without one; its results    *)
(* are merged when the last one has ended.  Events arrive meanwhile.  Home  *)
(* Assistant runs one poll at a time: the periodic ones and those on        *)
(* request share the lock of a Debouncer.                                   *)
(*                                                                          *)
(* "mower" is the mower as its messages show it.  They come in the order    *)
(* they were sent, so their delay on the way does not matter here.          *)
(*                                                                          *)
(* Definitions introduced as "Fault" are plausible bugs, each stated before *)
(* the definition it would replace; no specification uses them.             *)
(****************************************************************************)
EXTENDS Naturals, FiniteSets

CONSTANTS Values,      \* what the mower may report: field -> set of values
          Commands,    \* the commands of a poll, each as the set of fields it answers with
          EventFields, \* the fields it sends events for ("state" and "activity")
          TimeFields,  \* the fields that are times: those of the next start and the override
          NoTime,      \* a time of 0, which the mower reports where there is none
          None,        \* a field nothing is known of; a command without an answer
          Waiting      \* a command that runs

Fields == DOMAIN Values
Value  == UNION {Values[f] : f \in Fields}

ASSUME ValuesAssumption ==
  /\ None \notin Value /\ Waiting \notin Value /\ Cardinality({None, Waiting, NoTime}) = 3
  /\ EventFields \subseteq Fields /\ TimeFields \subseteq Fields \ EventFields
  /\ UNION Commands = Fields /\ {} \notin Commands
  /\ \A c, d \in Commands : c = d \/ c \cap d = {}

\* What is stored of an answered value: a time of 0 as None.  The other casts fail on no
\* answer and have no such case; the values of a field are what they make of the answers.
Cast(f, v) == IF f \in TimeFields /\ v = NoTime THEN None ELSE v

VARIABLES
  mower,   \* field -> its value
  data,    \* _data
  contact, \* _last_contact: "never", "recent", "old" (CONNECTION_STALE_TIMEOUT)
  polling, \* a poll is under way
  result   \* field -> what its command returned so far

coordVars == <<mower, data, contact, polling, result>>

\* Every variable has its type: a field holds None or a value of its own, so that the
\* nine results of a poll go to the fields they were asked for; 0 is never held as a time.
CoordTypeOK ==
  /\ mower \in [Fields -> Value] /\ \A f \in Fields : mower[f] \in Values[f]
  /\ data \in [Fields -> Value \cup {None}]
  /\ \A f \in Fields : data[f] \in {Cast(f, v) : v \in Values[f]} \cup {None}
  /\ contact \in {"never", "recent", "old"}
  /\ polling \in BOOLEAN
  /\ result \in [Fields -> Value \cup {None, Waiting}]
  /\ \A f \in Fields : result[f] \in Values[f] \cup {None, Waiting}

NoResult == [f \in Fields |-> None]

CoordInit ==
  /\ mower \in [Fields -> Value] /\ \A f \in Fields : mower[f] \in Values[f]
  /\ data = NoResult
  /\ contact = "never"
  /\ polling = FALSE
  /\ result = NoResult

--------------------------------------------------------------------------------
(* The mower, and the passing of time.                                      *)

Changes(f) ==
  /\ \E v \in Values[f] \ {mower[f]} : mower' = [mower EXCEPT ![f] = v]
  /\ UNCHANGED <<data, contact, polling, result>>

\* connection_available turns FALSE when nothing came for too long.
GrowsOld ==
  /\ contact = "recent"
  /\ contact' = "old"
  /\ UNCHANGED <<mower, data, polling, result>>

Available == contact = "recent"

--------------------------------------------------------------------------------
(* _handle_event.                                                           *)

\* An event arrives.  Events may be lost, and sent again.
HandleEvent(f) ==
  /\ f \in EventFields
  /\ data' = [data EXCEPT ![f] = mower[f]]
  /\ contact' = "recent"
  /\ UNCHANGED <<mower, polling, result>>

--------------------------------------------------------------------------------
(* _async_update_data.                                                      *)

\* gather() starts the commands.
StartPoll ==
  /\ ~polling
  /\ polling' = TRUE
  /\ result' = [f \in Fields |-> Waiting]
  /\ UNCHANGED <<mower, data, contact>>

\* A command returns the values of its fields.
Answers(c) ==
  /\ polling /\ \A f \in c : result[f] = Waiting
  /\ result' = [f \in Fields |-> IF f \in c THEN mower[f] ELSE result[f]]
  /\ UNCHANGED <<mower, data, contact, polling>>

\* It returns None, or raises: not connected, no answer, an answer with an error.
NoAnswer(c) ==
  /\ polling /\ \A f \in c : result[f] = Waiting
  /\ result' = [f \in Fields |-> IF f \in c THEN None ELSE result[f]]
  /\ UNCHANGED <<mower, data, contact, polling>>

Ended == polling /\ \A f \in Fields : result[f] # Waiting

\* Fault: a field without an answer is taken over as it is.
EndPollForgets ==
  /\ Ended
  /\ polling' = FALSE /\ result' = NoResult
  /\ IF result = NoResult
     THEN UNCHANGED <<data, contact>>
     ELSE /\ contact' = "recent"
          /\ data' = [f \in Fields |-> Cast(f, result[f])]
  /\ UNCHANGED mower

\* Fault: a poll counts as contact whatever came of it.
EndPollAnyway ==
  /\ Ended
  /\ polling' = FALSE /\ result' = NoResult
  /\ contact' = "recent"
  /\ data' = [f \in Fields |-> IF result[f] = None THEN data[f] ELSE Cast(f, result[f])]
  /\ UNCHANGED mower

\* Fault: once a field is known, only events change it.
EndPollFillsIn ==
  /\ Ended
  /\ polling' = FALSE /\ result' = NoResult
  /\ IF result = NoResult
     THEN UNCHANGED <<data, contact>>
     ELSE /\ contact' = "recent"
          /\ data' = [f \in Fields |-> IF data[f] = None THEN Cast(f, result[f]) ELSE data[f]]
  /\ UNCHANGED mower

\* Fault: the results of the fields with events are unpacked in the wrong order.
EndPollMixed ==
  /\ Ended
  /\ polling' = FALSE /\ result' = NoResult
  /\ IF result = NoResult
     THEN UNCHANGED <<data, contact>>
     ELSE /\ contact' = "recent"
          /\ data' = [f \in Fields |->
               LET g == IF f \in EventFields THEN CHOOSE h \in EventFields : h # f ELSE f
               IN  IF result[g] = None THEN data[f] ELSE Cast(f, result[g])]
  /\ UNCHANGED mower

\* All commands have ended.  What was known of a field without an answer is kept, as
\* it is now, and a time that is answered with 0 becomes None; when there is no answer at
\* all, nothing changes.
EndPoll ==
  /\ Ended
  /\ polling' = FALSE /\ result' = NoResult
  /\ IF result = NoResult
     THEN UNCHANGED <<data, contact>>
     ELSE /\ contact' = "recent"
          /\ data' = [f \in Fields |-> IF result[f] = None THEN data[f] ELSE Cast(f, result[f])]
  /\ UNCHANGED mower

--------------------------------------------------------------------------------
(* What is shown.                                                           *)

\* Fault: a mower in its station is docked, whatever its state.
ActivityDockedFirst(d) ==
  LET error == d["error_code"]
      state == d["state"]
      activity == d["activity"]
  IN
  IF error \notin {None, "ok"} \/ state \in {"fatal_error", "error", "safety_pin"} THEN "ERROR"
  ELSE IF activity \in {"going_out", "mowing"} THEN "MOWING"
  ELSE IF activity = "going_home" THEN "RETURNING"
  ELSE IF activity \in {"charging", "parked"} THEN "DOCKED"
  ELSE IF state = "stopped" \/ activity = "stopped_in_garden" THEN "IDLE"
  ELSE IF state = "paused" THEN "PAUSED"
  ELSE "DOCKED"

\* The property activity of the lawn mower entity (lawn_mower.py) of data d: the first
\* test that holds decides.  "ok" is error code 0.
Activity(d) ==
  LET error == d["error_code"]
      state == d["state"]
      activity == d["activity"]
  IN
  IF error \notin {None, "ok"} \/ state \in {"fatal_error", "error", "safety_pin"} THEN "ERROR"
  ELSE IF activity \in {"going_out", "mowing"} THEN "MOWING"
  ELSE IF activity = "going_home" THEN "RETURNING"
  ELSE IF state = "stopped" \/ activity = "stopped_in_garden" THEN "IDLE"
  ELSE IF state = "paused" THEN "PAUSED"
  ELSE "DOCKED"

--------------------------------------------------------------------------------

CoordNext ==
  \/ \E f \in Fields : Changes(f) \/ HandleEvent(f)
  \/ \E c \in Commands : Answers(c) \/ NoAnswer(c)
  \/ StartPoll \/ EndPoll
  \/ GrowsOld

CoordSpec == CoordInit /\ [][CoordNext]_coordVars

\* Every command ends (EveryCallEnds of MowerClient), the event loop runs what is
\* due, and the clock goes on.
CoordFairness ==
  /\ WF_coordVars(EndPoll)
  /\ \A c \in Commands : WF_coordVars(NoAnswer(c))
  /\ WF_coordVars(GrowsOld)

CoordFairSpec == CoordSpec /\ CoordFairness

--------------------------------------------------------------------------------
(* Properties.                                                              *)

QuietMower == <>[][UNCHANGED mower]_coordVars
GoodPoll   == EndPoll /\ \A f \in Fields : result[f] # None

\* When the mower is quiet and polls get through now and then, what is known becomes
\* what the mower reports, and stays so: an event that a poll overwrote
\* with an older value is put right, and failed commands do no harm.
CatchesUp ==
  QuietMower /\ []<><<GoodPoll>>_coordVars => <>[](data = [f \in Fields |-> Cast(f, mower[f])])

\* When nothing comes from the mower any more, the entities become unavailable for
\* good: polls that end without any answer do not count as contact.
Hears == (\E f \in Fields : HandleEvent(f)) \/ \E c \in Commands : Answers(c)
GoesUnavailable == <>[][~Hears]_coordVars => <>[]~Available

\* What is known of a field is not forgotten when its command, or all of them, fail
\* ("keep cached data", coordinator.py:92): only an answer that there is no such time does it.
NeverForgets ==
  [][\A f \in Fields : data[f] # None /\ data'[f] = None
       => f \in TimeFields /\ result[f] = NoTime]_coordVars

Modes     == {"auto", "manual", "home", "demo", "poi"}
Overrides == {"none", "forced_park", "forced_mow"}

\* The table of docs/ha_component.md:74-127, section by section, top down.
Table(error, state, activity, mode, override) ==
  LET out    == state = "operation"
      parked == state = "restricted" /\ activity = "parked"
      scheduled == override = "forced_mow" \/ (mode \in {"auto", "demo"} /\ override = "none")
  IN << <<"ERROR",     state \in {"fatal_error", "error", "safety_pin"} \/ error \notin {None, "ok"}>>,
        <<"MOWING",    out /\ (activity = "going_out" \/ (activity = "mowing" /\ scheduled))>>,
        <<"RETURNING", out /\ activity = "going_home">>,
        <<"IDLE",      state = "stopped" \/ activity = "stopped_in_garden">>,
        <<"PAUSED",    state = "paused">>,
        <<"DOCKED",    \/ out /\ activity = "charging"
                       \/ parked /\ (mode = "home" \/ (mode = "auto" /\ override # "forced_mow"))
                       \/ state \in {"pending_start", "off"}>> >>

\* What the first section with a row that applies says, if there is one.
Documented(error, state, activity, mode, override) ==
  LET table == Table(error, state, activity, mode, override)
  IN  {table[i][1] : i \in {k \in 1..6 : table[k][2] /\ \A j \in 1..(k - 1) : ~table[j][2]}}

\* The code tests a movement before the state: with one of these, where the table
\* goes by the state, it shows the movement.
MovesAnyway(state, activity) ==
  /\ activity \in {"going_out", "mowing", "going_home"}
  /\ state \in {"stopped", "paused", "pending_start", "off"}

\* The entity shows what the table says of these values, where it says something.
ShowsDocumented(shown, error, state, activity, mode, override) ==
  MovesAnyway(state, activity) \/ Documented(error, state, activity, mode, override) \subseteq {shown}

\* When the mower is quiet and polls get through now and then, the entity comes to show, and
\* goes on to show, what the documented table says of what the mower reports, in any mode and
\* with any override, as far as the table has a row for it, and but for MovesAnyway.
ShownAsDocumented ==
  QuietMower /\ []<><<GoodPoll>>_coordVars =>
    <>[](\A mode \in Modes, override \in Overrides :
           ShowsDocumented(Activity(data), mower["error_code"], mower["state"], mower["activity"],
                           mode, override))
================================================================================
