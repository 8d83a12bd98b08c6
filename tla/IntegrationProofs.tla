--------------------------- MODULE IntegrationProofs ---------------------------
(****************************************************************************)
(* Theorems about the Home Assistant side, for any fields, values, clients  *)
(* and number of services at a time: of MowerCoordinator as it runs by      *)
(* itself, and of Integration with LawnMower and MowerCoordinator in it.    *)
(*                                                                          *)
(* The coordinator's type invariant is inductive.  That a start after a     *)
(* lone stop is full rests on the stop having its "set" before it as long   *)
(* as _task_cancelled is not set, and on no service having a "reset" before *)
(* it since the stop.  That there is one client rests on every one that was *)
(* abandoned being among the clients still, so that no setup takes it.      *)
(****************************************************************************)
EXTENDS Integration, SequenceTheorems, TLAPS

--------------------------------------------------------------------------------
(* The coordinator.                                                         *)

\* What a field may report is no sign for nothing or for a command that runs.
LEMMA ValuesAreValues ==
  ASSUME NEW f \in Fields, NEW v \in Values[f]
  PROVE  v \in Value /\ v # None /\ v # Waiting
<1>1. v \in Value
  BY DEF Value
<1> QED
  BY <1>1, ValuesAssumption

\* Only a time has a value that is no value, and a field with events is none.
LEMMA CastGives ==
  ASSUME NEW f \in Fields, NEW v \in Values[f]
  PROVE  /\ Cast(f, v) \in Value \cup {None}
         /\ Cast(f, v) = None => f \in TimeFields /\ v = NoTime
         /\ f \in EventFields => Cast(f, v) = v
<1>1. v \in Value /\ v # None
  BY ValuesAreValues
<1>2. f \in EventFields => f \notin TimeFields
  BY ValuesAssumption
<1> QED
  BY <1>1, <1>2 DEF Cast

\* With nothing known, every variable has its type at the start.
LEMMA InitType == CoordInit => CoordTypeOK
  BY DEF CoordInit, CoordTypeOK, NoResult

\* When a poll ends, each command has a value of its field or None.
LEMMA EndedResult ==
  ASSUME CoordTypeOK, Ended, NEW f \in Fields
  PROVE  result[f] \in Values[f] \cup {None}
  BY DEF CoordTypeOK, Ended

\* A step of the mower, an event, or a step of a poll keeps the types.
LEMMA NextType == CoordTypeOK /\ [CoordNext]_coordVars => CoordTypeOK'
<1> SUFFICES ASSUME CoordTypeOK, [CoordNext]_coordVars PROVE CoordTypeOK'
  OBVIOUS
<1>1. ASSUME NEW f \in Fields, Changes(f) PROVE CoordTypeOK'
  <2>1. PICK v \in Values[f] : mower' = [mower EXCEPT ![f] = v]
    BY <1>1 DEF Changes
  <2>2. v \in Value
    BY ValuesAreValues
  <2>3. UNCHANGED <<data, contact, polling, result>>
    BY <1>1 DEF Changes
  <2> QED
    BY <2>1, <2>2, <2>3 DEF CoordTypeOK
<1>2. ASSUME NEW f \in Fields, HandleEvent(f) PROVE CoordTypeOK'
  <2>1. mower[f] \in Values[f] /\ mower[f] \in Value
    BY ValuesAreValues DEF CoordTypeOK
  <2>2. mower[f] = Cast(f, mower[f])
    BY <1>2, <2>1, CastGives DEF HandleEvent
  <2>3. /\ data' = [data EXCEPT ![f] = mower[f]] /\ contact' = "recent"
        /\ UNCHANGED <<mower, polling, result>>
    BY <1>2 DEF HandleEvent
  <2> QED
    BY <2>1, <2>2, <2>3 DEF CoordTypeOK
<1>3. ASSUME NEW c \in Commands, Answers(c) PROVE CoordTypeOK'
  <2>1. \A f \in Fields : mower[f] \in Values[f] /\ mower[f] \in Value
    BY ValuesAreValues DEF CoordTypeOK
  <2> QED
    BY <1>3, <2>1 DEF CoordTypeOK, Answers
<1>4. ASSUME NEW c \in Commands, NoAnswer(c) PROVE CoordTypeOK'
  BY <1>4 DEF CoordTypeOK, NoAnswer
<1>5. CASE StartPoll
  BY <1>5 DEF CoordTypeOK, StartPoll
<1>6. CASE EndPoll
  <2>1. CASE result = NoResult
    BY <1>6, <2>1 DEF EndPoll, CoordTypeOK, NoResult
  <2>2. CASE result # NoResult
    <3>1. /\ contact' = "recent" /\ polling' = FALSE /\ result' = NoResult
          /\ data' = [f \in Fields |-> IF result[f] = None THEN data[f] ELSE Cast(f, result[f])]
          /\ mower' = mower /\ Ended
      BY <1>6, <2>2 DEF EndPoll
    <3>2. ASSUME NEW f \in Fields
          PROVE  data'[f] \in {Cast(f, v) : v \in Values[f]} \cup {None} /\ data'[f] \in Value \cup {None}
      <4>1. CASE result[f] = None
        BY <3>1, <4>1 DEF CoordTypeOK
      <4>2. CASE result[f] # None
        <5>1. result[f] \in Values[f] /\ data'[f] = Cast(f, result[f])
          BY <3>1, <4>2, EndedResult
        <5> QED
          BY <5>1, CastGives
      <4> QED
        BY <4>1, <4>2
    <3>3. data' \in [Fields -> Value \cup {None}]
      BY <3>1, <3>2
    <3> QED
      BY <3>1, <3>2, <3>3 DEF CoordTypeOK, NoResult
  <2> QED
    BY <2>1, <2>2
<1>7. CASE GrowsOld
  BY <1>7 DEF CoordTypeOK, GrowsOld
<1>8. CASE UNCHANGED coordVars
  BY <1>8 DEF coordVars, CoordTypeOK
<1> QED
  BY <1>1, <1>2, <1>3, <1>4, <1>5, <1>6, <1>7, <1>8 DEF CoordNext

\* What a step does to one field: it does not make it unknown, unless a poll ends in which
\* the mower answered that there is no such time.
LEMMA NextRemembers ==
  ASSUME CoordTypeOK, [CoordNext]_coordVars, NEW f \in Fields, data[f] # None, data'[f] = None
  PROVE  f \in TimeFields /\ result[f] = NoTime
<1>1. ASSUME NEW g \in Fields, HandleEvent(g) PROVE FALSE
  <2>1. mower[g] # None
    BY ValuesAreValues DEF CoordTypeOK
  <2> QED
    BY <1>1, <2>1 DEF CoordTypeOK, HandleEvent
<1>2. CASE EndPoll
  <2>1. result # NoResult
    BY <1>2 DEF EndPoll
  <2>2. Ended /\ data' = [g \in Fields |-> IF result[g] = None THEN data[g] ELSE Cast(g, result[g])]
    BY <1>2, <2>1 DEF EndPoll
  <2>3. result[f] \in Values[f] /\ Cast(f, result[f]) = None
    BY <2>2, EndedResult
  <2> QED
    BY <2>3, CastGives
<1>3. CASE UNCHANGED data
  BY <1>3
<1>4. (\E g \in Fields : HandleEvent(g)) \/ EndPoll \/ UNCHANGED data
  BY DEF CoordNext, Changes, Answers, NoAnswer, StartPoll, GrowsOld, coordVars
<1> QED
  BY <1>1, <1>2, <1>3, <1>4

\* Every variable of the coordinator stays in its type: no field takes a value of
\* another, no sign of a running command gets into the data, and no time is 0.
THEOREM CoordTypeCorrect == CoordSpec => []CoordTypeOK
  BY InitType, NextType, PTL DEF CoordSpec

\* No event and no failed command makes a field unknown that was known: only the answer that
\* there is no such time does.
THEOREM DataIsKept == CoordSpec => NeverForgets
<1>1. CoordTypeOK /\ [CoordNext]_coordVars
        => [\A f \in Fields : data[f] # None /\ data'[f] = None
              => f \in TimeFields /\ result[f] = NoTime]_coordVars
  BY NextRemembers
<1> QED
  BY <1>1, CoordTypeCorrect, PTL DEF CoordSpec, NeverForgets

--------------------------------------------------------------------------------
(* What is shown.                                                           *)

\* For all data, and whatever mode and override the mower is in, the entity shows what
\* the documented table says of them, where it has a row that applies; but for the tests of a
\* movement before the state (MovesAnyway).
THEOREM ActivityIsDocumented ==
  ASSUME NEW d, NEW mode, NEW override
  PROVE  ShowsDocumented(Activity(d), d["error_code"], d["state"], d["activity"], mode, override)
<1> DEFINE error == d["error_code"]
           state == d["state"]
           activity == d["activity"]
           table == Table(error, state, activity, mode, override)
<1> SUFFICES ASSUME ~MovesAnyway(state, activity),
                    NEW i \in 1..6, table[i][2], \A j \in 1..(i - 1) : ~table[j][2]
             PROVE  table[i][1] = Activity(d)
  BY DEF ShowsDocumented, Documented
<1> DEFINE needs == state \in {"fatal_error", "error", "safety_pin"} \/ error \notin {None, "ok"}
           out == state = "operation"
<1>1. /\ table[1][1] = "ERROR" /\ table[2][1] = "MOWING" /\ table[3][1] = "RETURNING"
      /\ table[4][1] = "IDLE" /\ table[5][1] = "PAUSED" /\ table[6][1] = "DOCKED"
  BY DEF Table
<1>2. /\ table[1][2] <=> needs
      /\ table[2][2] => out /\ activity \in {"going_out", "mowing"}
      /\ table[3][2] <=> out /\ activity = "going_home"
      /\ table[4][2] <=> state = "stopped" \/ activity = "stopped_in_garden"
      /\ table[5][2] <=> state = "paused"
      /\ table[6][2] => \/ out /\ activity = "charging"
                        \/ state = "restricted" /\ activity = "parked"
                        \/ state \in {"pending_start", "off"}
  BY DEF Table
<1>3. CASE i = 1
  BY <1>1, <1>2, <1>3 DEF Activity
<1>4. CASE i \in 2..6
  <2>1. ~needs
    BY <1>2, <1>4
  <2>2. CASE i = 2
    BY <1>1, <1>2, <2>1, <2>2 DEF Activity
  <2>3. CASE i = 3
    BY <1>1, <1>2, <2>1, <2>3 DEF Activity
  <2>4. CASE i = 4
    BY <1>1, <1>2, <2>1, <2>4 DEF Activity, MovesAnyway
  <2>5. CASE i = 5
    <3>1. ~table[4][2]
      BY <2>5
    <3> QED
      BY <1>1, <1>2, <2>1, <2>5, <3>1 DEF Activity, MovesAnyway
  <2>6. CASE i = 6
    <3>1. ~table[4][2] /\ ~table[5][2]
      BY <2>6
    <3> QED
      BY <1>1, <1>2, <2>1, <2>6, <3>1 DEF Activity, MovesAnyway
  <2> QED
    BY <1>4, <2>2, <2>3, <2>4, <2>5, <2>6
<1> QED
  BY <1>3, <1>4

--------------------------------------------------------------------------------
(* The integration.                                                         *)

\* While the last service that counts is a stop that ran alone.
StopStands ==
  halt = "alone" => /\ \A c \in Calls : ~Will(c, "reset")
                    /\ task_cancelled \/ \E c \in Calls : Will(c, "set")

\* There is a client of this setup from its connection to its end.
HasClient == mine = None <=> phase \in {"unloaded", "probed", "failed"}

\* An abandoned client has its connection, or is going to, for good.
AbandonedStay == abandoned \subseteq clients

IInv == IntegrationTypeOK /\ StopStands /\ HasClient /\ AbandonedStay /\ OneClient

--------------------------------------------------------------------------------
(* What the services have before them.                                      *)

\* Nothing is before an idle service.
LEMMA IdleHasNothing == ASSUME NEW c, NEW after, Idle(c) PROVE ~Will(c, after)
  BY DEF Idle, Will

\* What is before a service when its first command has returned, was before it already,
\* and what was is done or still is.
LEMMA TailHas ==
  ASSUME TypeOK, NEW c \in Calls, ~Idle(c), todo' = [todo EXCEPT ![c] = Tail(@)], NEW after \in After
  PROVE  Will(c, after) <=> Head(todo[c])[2] = after \/ Will(c, after)'
<1>1. /\ todo[c] \in Seq(Command \X After) /\ todo[c] # <<>> /\ todo'[c] = Tail(todo[c])
      /\ Len(todo[c]) \in Nat \ {0}
  BY DEF TypeOK, Idle
<1>2. /\ Len(todo'[c]) = Len(todo[c]) - 1
      /\ \A i \in 1..Len(todo'[c]) : todo'[c][i] = todo[c][i + 1]
      /\ Head(todo[c]) = todo[c][1]
  <2>1. /\ Len(Tail(todo[c])) = Len(todo[c]) - 1
        /\ \A i \in 1..Len(Tail(todo[c])) : Tail(todo[c])[i] = todo[c][i + 1]
    BY <1>1, HeadTailProperties
  <2>2. Head(todo[c]) = todo[c][1]
    BY <1>1
  <2> QED
    BY <1>1, <2>1, <2>2
<1>3. ASSUME Will(c, after), Head(todo[c])[2] # after PROVE Will(c, after)'
  <2>1. PICK i \in 1..Len(todo[c]) : todo[c][i][2] = after
    BY <1>3 DEF Will
  <2>2. i - 1 \in 1..Len(todo'[c]) /\ todo'[c][i - 1] = todo[c][i]
    BY <1>1, <1>2, <1>3, <2>1
  <2> QED
    BY <2>1, <2>2 DEF Will
<1>4. ASSUME Will(c, after)' PROVE Will(c, after)
  <2>1. PICK i \in 1..Len(todo'[c]) : todo'[c][i][2] = after
    BY <1>4 DEF Will
  <2>2. i + 1 \in 1..Len(todo[c])
    BY <1>1, <1>2, <2>1
  <2> QED
    BY <1>2, <2>1, <2>2 DEF Will
<1>5. Head(todo[c])[2] = after => Will(c, after)
  BY <1>1, <1>2 DEF Will
<1> QED
  BY <1>3, <1>4, <1>5

\* A service that does not touch _task_cancelled does not change what is before the others.
LEMMA OthersKeep ==
  ASSUME NEW c \in Calls, NEW cs, todo' = [todo EXCEPT ![c] = cs], NEW d \in Calls \ {c}, NEW after
  PROVE  Will(d, after)' <=> Will(d, after)
  BY DEF Will

\* The commands of every service are commands.
LEMMA CommandsAreCommands ==
  ASSUME TypeOK, NEW c \in Calls, Service(c) PROVE todo' \in [Calls -> Seq(Command \X After)]
<1>0. todo \in [Calls -> Seq(Command \X After)]
  BY DEF TypeOK
<1> SUFFICES ASSUME NEW cs \in Seq(Command \X After), todo' = [todo EXCEPT ![c] = cs]
             PROVE  todo' \in [Calls -> Seq(Command \X After)]
  <2>1. CASE Returns(c)
    <3>1. Tail(todo[c]) \in Seq(Command \X After)
      BY <1>0, <2>1, HeadTailProperties DEF Returns, Idle
    <3> QED
      BY <2>1, <3>1 DEF Returns
  <2>2. CASE Raises(c)
    <3>1. <<>> \in Seq(Command \X After)
      OBVIOUS
    <3> QED
      BY <2>2, <3>1 DEF Raises
  <2>3. CASE StartMowing(c)
    <3>1. Resume \in Seq(Command \X After) /\ FullStart \in Seq(Command \X After)
      BY DEF Resume, FullStart, Command, After
    <3> QED
      BY <2>3, <3>1 DEF StartMowing, Begin
  <2>4. CASE Dock(c)
    <3>1. Park \in Seq(Command \X After) /\ Recall \in Seq(Command \X After)
      BY DEF Park, Recall, Command, After
    <3> QED
      BY <2>4, <3>1 DEF Dock, Begin
  <2>5. CASE PressPark(c)
    <3>1. ParkPressed \in Seq(Command \X After) /\ << ParkPressed[1] >> \in Seq(Command \X After)
      BY DEF ParkPressed, Command, After
    <3> QED
      BY <2>5, <3>1 DEF PressPark, Begin
  <2>6. CASE PauseMowing(c) \/ Stop(c)
    <3>1. /\ << <<"Pause", "keep">> >> \in Seq(Command \X After)
          /\ << <<"Pause", "keep">>, <<"ClearOverride", "set">> >> \in Seq(Command \X After)
      BY DEF Command, After
    <3> QED
      BY <2>6, <3>1 DEF PauseMowing, Stop, Begin
  <2>7. CASE PressResume(c) \/ SelectMode(c)
    <3>1. /\ << <<"ClearOverride", "keep">> >> \in Seq(Command \X After)
          /\ << <<"SetMode", "keep">> >> \in Seq(Command \X After)
      BY DEF Command, After
    <3> QED
      BY <2>7, <3>1 DEF PressResume, SelectMode, Begin
  <2> QED
    BY <2>1, <2>2, <2>3, <2>4, <2>5, <2>6, <2>7 DEF Service
<1> QED
  BY <1>0

\* A service keeps the types.
LEMMA ServiceType ==
  ASSUME TypeOK, NEW c \in Calls, Service(c) PROVE TypeOK' /\ UNCHANGED coordVars
<1>1. UNCHANGED coordVars
  BY DEF Service, StartMowing, Dock, PauseMowing, Stop, PressPark, PressResume, SelectMode, Begin,
     Returns, Raises
<1>2. CoordTypeOK'
  BY <1>1 DEF TypeOK, CoordTypeOK, coordVars
<1>3. task_cancelled' \in BOOLEAN
  BY DEF TypeOK, Service, StartMowing, Dock, PauseMowing, Stop, PressPark, PressResume, SelectMode,
     Begin, Returns, Raises
<1>4. halt' \in {"no", "beside", "alone"}
  BY DEF TypeOK, Service, StartMowing, Dock, PauseMowing, Stop, PressPark, PressResume, SelectMode,
     Begin, Returns, Raises
<1> QED
  BY <1>1, <1>2, <1>3, <1>4, CommandsAreCommands DEF TypeOK

--------------------------------------------------------------------------------
(* The stop stands.                                                         *)

\* A service that has only "keep" before it changes nothing.
LEMMA KeepsStop ==
  ASSUME TypeOK, StopStands, NEW c \in Calls, Idle(c), NEW cs,
         todo' = [todo EXCEPT ![c] = cs], UNCHANGED <<task_cancelled, halt>>,
         \A i \in 1..Len(cs) : cs[i][2] = "keep"
  PROVE  StopStands'
<1>1. ~Will(c, "reset")' /\ ~Will(c, "set") /\ \A d \in Calls \ {c} : todo'[d] = todo[d]
  BY IdleHasNothing DEF TypeOK, Will
<1> QED
  BY <1>1 DEF StopStands, Will

\* A service, as it begins or goes on, does not undo a stop without halt saying so.
LEMMA ServiceStop ==
  ASSUME TypeOK, StopStands, NEW c \in Calls, Service(c) PROVE StopStands'
<1>0. todo \in [Calls -> Seq(Command \X After)]
  BY DEF TypeOK
<1>1. CASE StartMowing(c) \/ Dock(c)
  BY <1>1 DEF StartMowing, Dock, StopStands
<1>2. ASSUME NEW cs, Begin(c, cs), UNCHANGED halt, \A i \in 1..Len(cs) : cs[i][2] = "keep"
      PROVE  StopStands'
  BY <1>2, KeepsStop DEF Begin
<1>3. CASE PauseMowing(c) \/ PressResume(c) \/ SelectMode(c) \/ PressPark(c)
  <2>1. ASSUME NEW a PROVE \A i \in 1..Len(<<a>>) : <<a>>[i] = a
    OBVIOUS
  <2>2. \A i \in 1..Len(ParkPressed) : ParkPressed[i][2] = "keep"
    BY DEF ParkPressed
  <2>3. ParkPressed[1][2] = "keep"
    BY DEF ParkPressed
  <2>4. PICK cs : Begin(c, cs) /\ UNCHANGED halt /\ \A i \in 1..Len(cs) : cs[i][2] = "keep"
    BY <1>3, <2>1, <2>2, <2>3 DEF PauseMowing, PressResume, SelectMode, PressPark
  <2> QED
    BY <1>2, <2>4
<1>4. CASE Stop(c)
  <2>1. todo'[c] = << <<"Pause", "keep">>, <<"ClearOverride", "set">> >>
    BY <1>0, <1>4 DEF Stop, Begin
  <2>2. Will(c, "set")' /\ ~Will(c, "reset")'
    BY <2>1 DEF Will
  <2>3. \A d \in Calls \ {c} : todo'[d] = todo[d]
    BY <1>0, <1>4 DEF Stop, Begin
  <2>4. halt' = "alone" => \A d \in Calls : ~Will(d, "reset")
    BY <1>4 DEF Stop
  <2> QED
    BY <2>2, <2>3, <2>4 DEF StopStands, Will
<1>5. CASE Returns(c)
  <2>1. \A d \in Calls \ {c} : todo'[d] = todo[d]
    BY <1>0, <1>5 DEF Returns
  <2>2. /\ Will(c, "set") <=> Head(todo[c])[2] = "set" \/ Will(c, "set")'
        /\ Will(c, "reset") <=> Head(todo[c])[2] = "reset" \/ Will(c, "reset")'
    BY <1>5, TailHas DEF Returns, After
  <2>3. /\ halt' = halt
        /\ Head(todo[c])[2] = "set" => task_cancelled'
        /\ Head(todo[c])[2] \notin {"set", "reset"} => task_cancelled' = task_cancelled
    BY <1>5 DEF Returns
  <2>4. \A d \in Calls \ {c}, after \in After : Will(d, after)' <=> Will(d, after)
    BY <2>1 DEF Will
  <2> QED
    BY <2>2, <2>3, <2>4 DEF StopStands, After
<1>6. CASE Raises(c)
  <2>1. /\ \A d \in Calls \ {c} : todo'[d] = todo[d]
        /\ todo'[c] = <<>> /\ task_cancelled' = task_cancelled
        /\ halt' = IF Will(c, "set") THEN "no" ELSE halt
    BY <1>0, <1>6 DEF Raises
  <2>2. ~Will(c, "reset")'
    BY <2>1 DEF Will
  <2>3. \A d \in Calls \ {c}, after \in After : Will(d, after)' <=> Will(d, after)
    BY <2>1 DEF Will
  <2> QED
    BY <2>1, <2>2, <2>3 DEF StopStands, After
<1> QED
  BY <1>1, <1>3, <1>4, <1>5, <1>6 DEF Service

--------------------------------------------------------------------------------
(* The life of the integration.                                             *)

\* A step of the coordinator is a step of CoordNext, and keeps what its proofs show.
LEMMA CoordStep ==
  ASSUME TypeOK, StopStands, CoordNext \/ UNCHANGED coordVars, UNCHANGED services
  PROVE  TypeOK' /\ StopStands'
<1>1. CoordTypeOK'
  BY NextType DEF TypeOK
<1>2. TypeOK'
  BY <1>1 DEF TypeOK, services
<1>3. StopStands'
  BY DEF StopStands, services, Will
<1> QED
  BY <1>2, <1>3

\* A restart leaves nothing.
LEMMA RestartStep == ASSUME TypeOK, Restart PROVE TypeOK' /\ StopStands'
<1>1. CoordTypeOK'
  BY DEF TypeOK, CoordTypeOK, Restart, NoResult
<1>2. todo' \in [Calls -> Seq(Command \X After)]
  <2>1. <<>> \in Seq(Command \X After)
    OBVIOUS
  <2> QED
    BY <2>1 DEF Restart
<1>3. halt' \in {"no", "beside"} /\ task_cancelled' = FALSE
  BY DEF Restart
<1> QED
  BY <1>1, <1>2, <1>3 DEF TypeOK, StopStands

\* Nothing is known, nobody called and nobody is connected.
LEMMA IntegrationInitInv == IntegrationInit => IInv
<1> SUFFICES ASSUME IntegrationInit PROVE IInv
  OBVIOUS
<1>1. CoordTypeOK
  BY InitType DEF IntegrationInit, Init
<1>2. todo \in [Calls -> Seq(Command \X After)]
  <2>1. <<>> \in Seq(Command \X After)
    OBVIOUS
  <2> QED
    BY <2>1 DEF IntegrationInit, Init
<1> QED
  BY <1>1, <1>2 DEF IntegrationInit, Init, IInv, IntegrationTypeOK, TypeOK, StopStands, HasClient,
     AbandonedStay, OneClient

\* What IInv says of setup and its clients.
LifeOK ==
  /\ phase \in {"unloaded", "probed", "refreshing", "subscribing", "forwarding", "loaded", "failed"}
  /\ clients \subseteq Clients /\ mine \in Clients \cup {None}
  /\ reconnecting \in BOOLEAN /\ abandoned \subseteq Clients
  /\ HasClient /\ AbandonedStay /\ OneClient

\* Every step of setup keeps that there is one client.
LEMMA LifeStep ==
  ASSUME LifeOK,
         \/ Probe \/ Connect \/ Refreshed \/ Subscribed \/ Forwarded \/ SetupRaises
         \/ Lose \/ Reopened \/ Unload \/ Exit
  PROVE  LifeOK'
<1>1. CASE Probe \/ Refreshed \/ Subscribed \/ Forwarded \/ Lose \/ Reopened
  BY <1>1 DEF Probe, Refreshed, Subscribed, Forwarded, Lose, Reopened, LifeOK, HasClient, AbandonedStay, OneClient
<1>2. CASE Connect
  <2>1. PICK k \in Clients \ clients : mine' = k /\ clients' = clients \cup {k}
    BY <1>2 DEF Connect
  <2>2. /\ phase' = "refreshing" /\ UNCHANGED <<reconnecting, abandoned>>
        /\ mine = None /\ k # None
    BY <1>2, ClientsAssumption DEF Connect, LifeOK, HasClient
  <2>3. clients \subseteq abandoned /\ k \notin abandoned
    BY <2>2 DEF LifeOK, OneClient, AbandonedStay
  <2> QED
    BY <2>1, <2>2, <2>3 DEF LifeOK, HasClient, AbandonedStay, OneClient
<1>3. CASE SetupRaises \/ Unload
  <2>1. mine # None /\ mine \in clients /\ mine \in Clients
    BY <1>3 DEF SetupRaises, Unload, LifeOK, HasClient, OneClient
  <2>2. mine' = None /\ reconnecting' = FALSE /\ phase' \in {"failed", "unloaded"}
    BY <1>3 DEF SetupRaises, Unload
  <2>3. \/ clients' = clients /\ abandoned' = abandoned \cup {mine}
        \/ clients' = clients \ {mine} /\ abandoned' = abandoned
    BY <1>3 DEF SetupRaises, Unload, Disconnected
  <2>4. clients \ abandoned = {mine}
    BY <2>1 DEF LifeOK, OneClient
  <2> QED
    BY <2>1, <2>2, <2>3, <2>4 DEF LifeOK, HasClient, AbandonedStay, OneClient
<1>4. CASE Exit
  BY <1>4 DEF Exit, LifeOK, HasClient, AbandonedStay, OneClient
<1> QED
  BY <1>1, <1>2, <1>3, <1>4

\* Every step keeps the inductive invariant.
LEMMA IntegrationNextInv == IInv /\ [IntegrationNext]_allVars => IInv'
<1> SUFFICES ASSUME TypeOK, StopStands, LifeOK, [IntegrationNext]_allVars
             PROVE  TypeOK' /\ StopStands' /\ LifeOK'
  BY DEF IInv, IntegrationTypeOK, LifeOK
<1>1. CASE Probe \/ Subscribed \/ Forwarded \/ Lose \/ Reopened
  <2>1. UNCHANGED vars
    BY <1>1 DEF Probe, Subscribed, Forwarded, Lose, Reopened
  <2> QED
    BY <1>1, <2>1, CoordStep, LifeStep DEF vars
<1>2. CASE Connect \/ Refreshed
  <2>1. CoordNext /\ UNCHANGED services
    BY <1>2 DEF Connect, Refreshed, CoordNext
  <2> QED
    BY <1>2, <2>1, CoordStep, LifeStep
<1>3. CASE SetupRaises \/ Unload \/ Exit
  <2>1. Restart
    BY <1>3 DEF SetupRaises, Unload, Exit
  <2> QED
    BY <1>3, <2>1, RestartStep, LifeStep
<1>4. UNCHANGED life => LifeOK'
  BY DEF life, LifeOK, HasClient, AbandonedStay, OneClient
<1>5. CASE /\ CoordNext \/ UNCHANGED coordVars
           /\ UNCHANGED services /\ UNCHANGED life
  BY <1>4, <1>5, CoordStep
<1>6. ASSUME NEW c \in Calls, Service(c), UNCHANGED life PROVE TypeOK' /\ StopStands' /\ LifeOK'
  BY <1>4, <1>6, ServiceType, ServiceStop
<1> QED
  BY <1>1, <1>2, <1>3, <1>5, <1>6 DEF IntegrationNext, CoordNext, allVars, vars

--------------------------------------------------------------------------------
(* Theorems.                                                                *)

\* The inductive invariant holds in every reachable state.
THEOREM IntegrationInvariance == IntegrationSpec => []IInv
  BY IntegrationInitInv, IntegrationNextInv, PTL DEF IntegrationSpec

\* No field takes a value of another and services send known commands only, through any
\* number of setups, failures and services at a time.
THEOREM IntegrationTypeCorrect == IntegrationSpec => []IntegrationTypeOK
<1>1. IInv => IntegrationTypeOK
  BY DEF IInv
<1> QED
  BY <1>1, IntegrationInvariance, PTL

\* There is one client at most, the one of this setup, but for those that a setup left as it
\* raised and those that opened a connection as they were disconnected.
THEOREM OneClientAtATime == IntegrationSpec => []OneClient
<1>1. IInv => OneClient
  BY DEF IInv
<1> QED
  BY <1>1, IntegrationInvariance, PTL

\* A start after a stop that nothing interfered with runs the full sequence.
THEOREM StartIsFull == IntegrationSpec => StartAfterLoneStopIsFull
<1>1. ASSUME IInv, NEW c \in Calls, halt = "alone", BeginsAlone(c), StartMowing(c)
      PROVE  todo'[c] = FullStart
  <2>1. task_cancelled
    BY <1>1, IdleHasNothing DEF IInv, StopStands, BeginsAlone
  <2> QED
    BY <1>1, <2>1 DEF StartMowing, Begin, IInv, IntegrationTypeOK, TypeOK
<1>2. IInv /\ [IntegrationNext]_allVars =>
        [\A c \in Calls : halt = "alone" /\ BeginsAlone(c) /\ StartMowing(c)
           => todo'[c] = FullStart]_vars
  BY <1>1
<1> QED
  BY <1>2, IntegrationInvariance, PTL DEF IntegrationSpec, StartAfterLoneStopIsFull
================================================================================
