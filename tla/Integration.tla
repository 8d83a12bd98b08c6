------------------------------ MODULE Integration -------------------------------
(****************************************************************************)
(* The life of the integration in Home Assistant, async_setup_entry and     *)
(* async_unload_entry of src/custom_components/mower_wifi/__init__.py,      *)
(* around the coordinator and the entities of LawnMower.                    *)
(*                                                                          *)
(* Each setup makes a client, a coordinator and entities of its own.  Those *)
(* of the setup before are gone, but its client is not always: when setup   *)
(* raises, nobody disconnects it, and it keeps its connection, or opens it  *)
(* again, for good; and disconnect() may return while a task of the client  *)
(* opens a connection, as StoppedAfterDisconnect of WifiSession shows.      *)
(*                                                                          *)
(* Definitions introduced as "Fault" are plausible bugs, each stated before *)
(* the definition it would replace; no specification uses them.             *)
(****************************************************************************)
EXTENDS LawnMower

CONSTANT Clients  \* bound of the model: clients connected at a time

ASSUME ClientsAssumption == None \notin Clients

VARIABLES
  phase,        \* where setup is: "unloaded", "probed", "refreshing", "subscribing",
                \* "forwarding", "loaded", "failed"
  clients,      \* the clients that were connected, and that no disconnect() has stopped
  mine,         \* the client of this setup, or None
  reconnecting, \* it lost its connection, and a task of it opens another
  abandoned     \* history: those of clients that nobody is going to disconnect

life    == <<phase, clients, mine, reconnecting, abandoned>>
allVars == <<vars, life>>

IntegrationTypeOK ==
  /\ TypeOK
  /\ phase \in {"unloaded", "probed", "refreshing", "subscribing", "forwarding", "loaded", "failed"}
  /\ clients \subseteq Clients /\ mine \in Clients \cup {None}
  /\ reconnecting \in BOOLEAN /\ abandoned \subseteq Clients

\* The entry is set up: Home Assistant starts, retries, or a user reloads it.  Without
\* the bridge the probe fails, and nothing changes till the next try.
Probe ==
  /\ phase \in {"unloaded", "failed"}
  /\ phase' = "probed"
  /\ UNCHANGED <<vars, clients, mine, reconnecting, abandoned>>

\* connect() returns, and the first refresh starts.
Connect ==
  /\ phase = "probed"
  /\ phase' = "refreshing"
  /\ \E k \in Clients \ clients : mine' = k /\ clients' = clients \cup {k}
  /\ StartPoll /\ UNCHANGED <<services, reconnecting, abandoned>>

\* It ends without an exception, whatever came of it: _async_update_data raises none.
Refreshed ==
  /\ phase = "refreshing" /\ phase' = "subscribing"
  /\ EndPoll /\ UNCHANGED <<services, clients, mine, reconnecting, abandoned>>

\* Both subscriptions return, and the platforms are set up one beside the other.
Subscribed ==
  /\ phase = "subscribing" /\ phase' = "forwarding"
  /\ UNCHANGED <<vars, clients, mine, reconnecting, abandoned>>

Forwarded ==
  /\ phase = "forwarding" /\ phase' = "loaded"
  /\ UNCHANGED <<vars, clients, mine, reconnecting, abandoned>>

\* A subscription raises (ReturnsNoneOnError of MowerClient), or the setup of a platform,
\* and setup with it.
SetupRaises ==
  /\ phase \in {"subscribing", "forwarding"} /\ phase' = "failed"
  /\ Restart
  /\ mine' = None /\ reconnecting' = FALSE
  /\ abandoned' = abandoned \cup {mine} /\ UNCHANGED clients

\* The connection of the client is lost, and opened again, in some task of it.
Lose ==
  /\ mine # None /\ ~reconnecting
  /\ reconnecting' = TRUE
  /\ UNCHANGED <<vars, phase, clients, mine, abandoned>>

Reopened ==
  /\ reconnecting
  /\ reconnecting' = FALSE
  /\ UNCHANGED <<vars, phase, clients, mine, abandoned>>

\* Fault: the client is left to itself.
LeftAlone == UNCHANGED <<clients, abandoned>>

\* disconnect() has returned; a task that was opening a connection may still open it.
Disconnected ==
  \/ clients' = clients \ {mine} /\ UNCHANGED abandoned
  \/ reconnecting /\ abandoned' = abandoned \cup {mine} /\ UNCHANGED clients

\* async_unload_entry, when all platforms have unloaded; otherwise it changes nothing.
Unload ==
  /\ phase = "loaded" /\ phase' = "unloaded"
  /\ Restart
  /\ Disconnected
  /\ mine' = None /\ reconnecting' = FALSE

\* Home Assistant stops, with all its clients.
Exit ==
  /\ Restart
  /\ phase' = "unloaded" /\ mine' = None /\ reconnecting' = FALSE
  /\ clients' = {} /\ abandoned' = {}

--------------------------------------------------------------------------------

IntegrationInit ==
  /\ Init
  /\ phase = "unloaded" /\ clients = {} /\ mine = None
  /\ reconnecting = FALSE /\ abandoned = {}

\* Entities are there while setup adds them and till it is unloaded.
HasEntities == phase \in {"forwarding", "loaded"}

IntegrationNext ==
  \/ Probe \/ Connect \/ Refreshed \/ Subscribed \/ Forwarded \/ SetupRaises
  \/ Lose \/ Reopened \/ Unload \/ Exit
  \/ /\ \/ \E f \in Fields : Changes(f) \/ (mine # None /\ ~reconnecting /\ HandleEvent(f))
        \/ mine # None /\ \E c \in Commands : Answers(c) \/ NoAnswer(c)
        \/ GrowsOld
        \/ HasEntities /\ (StartPoll \/ EndPoll)
     /\ UNCHANGED services /\ UNCHANGED life
  \/ HasEntities /\ (\E c \in Calls : Service(c)) /\ UNCHANGED life

IntegrationSpec == IntegrationInit /\ [][IntegrationNext]_allVars

--------------------------------------------------------------------------------
(* Properties.                                                              *)

\* Home Assistant does not compete with itself for the bridge, which serves one client:
\* besides the one of this setup none is connected or going to be, and none between two
\* setups, but for those of setups that raised, and those that opened a connection as they
\* were disconnected.
OneClient == clients \ abandoned = {mine} \ {None}
================================================================================
