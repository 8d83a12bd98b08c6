------------------------------ MODULE MowerCalendar ------------------------------
(****************************************************************************)
(* Class MowerCalendar of src/custom_components/mower_wifi/calendar.py: the *)
(* cache of the mower's weekly tasks, and the two ways in which it is       *)
(* turned into events: the one that is on or comes next ("event"), and all  *)
(* those of a period (async_get_events).                                    *)
(*                                                                          *)
(* A refresh reads the number of tasks and then one task after the other,   *)
(* while the schedule may be edited.  Nothing keeps two refreshes apart:    *)
(* one is started when the entity is added, one by the timer, one by each   *)
(* async_get_events that finds the cache stale.                             *)
(*                                                                          *)
(* Instants are numbers, local time without daylight saving; day 0 is a     *)
(* Monday.                                                                  *)
(*                                                                          *)
(* Definitions introduced as "Fault" are plausible bugs, each stated before *)
(* the definition it would replace; no specification uses them.             *)
(****************************************************************************)
EXTENDS Integers, SequencesExt

CONSTANTS DayLength, \* instants of a day
          Tasks,     \* the tasks a schedule may have: start, duration, days
          MaxTasks,  \* bound of the model: tasks of a schedule
          Instants,  \* bound of the model: when the calendar is looked at
          Refreshes, \* the refreshes that may run at the same time
          NoEvent

ASSUME CalendarAssumption ==
  /\ DayLength \in Nat \ {0} /\ MaxTasks \in Nat /\ Instants \subseteq Nat
  /\ \A task \in Tasks : /\ task.start \in 0..DayLength-1 /\ task.duration \in Nat
                         /\ task.days \subseteq 0..6
ASSUME NoEventAssumption == NoEvent \notin [start : Nat, end : Nat]

VARIABLES
  schedule, \* the tasks in the mower
  tasks,    \* _tasks
  fetched,  \* _tasks_last_fetched: "never", "recent", "stale" (TASK_SCAN_INTERVAL)
  refresh   \* refresh -> how far it is

vars == <<schedule, tasks, fetched, refresh>>

Schedules == BoundedSeq(Tasks, MaxTasks)

\* "at" is what it awaits; "count" the number of tasks it was told and "id" the task
\* it asks for; "list" what it has read.  History: "quiet" if the schedule did not
\* change since it began.
Idle    == [at |-> "idle", count |-> 0, id |-> 0, list |-> <<>>, quiet |-> TRUE]
Begun   == [Idle EXCEPT !.at = "GetNumberOfTasks"]
Working == {r \in Refreshes : refresh[r].at # "idle"}

\* Every variable has its type: a refresh that awaits GetTask asks for a task that it was
\* told there is.
CalTypeOK ==
  /\ schedule \in Schedules /\ tasks \in Schedules
  /\ fetched \in {"never", "recent", "stale"}
  /\ refresh \in [Refreshes -> [at : {"idle", "GetNumberOfTasks", "GetTask"},
                                count : 0..MaxTasks, id : 0..MaxTasks, list : Schedules,
                                quiet : BOOLEAN]]
  /\ \A r \in Working : refresh[r].at = "GetTask" => refresh[r].id < refresh[r].count

Init ==
  /\ schedule \in Schedules
  /\ tasks = <<>>
  /\ fetched = "never"
  /\ refresh = [r \in Refreshes |-> Idle]

--------------------------------------------------------------------------------
(* _async_refresh_tasks.                                                    *)

Stale == fetched # "recent"

\* When the entity is added, and whenever the timer fires.
Begin(r) ==
  /\ r \notin Working
  /\ refresh' = [refresh EXCEPT ![r] = Begun]
  /\ UNCHANGED <<schedule, tasks, fetched>>

\* async_get_events.
BeginIfStale(r) == Stale /\ Begin(r)

\* The refresh ends and leaves the cache as it is.
Abandon(r) ==
  /\ refresh' = [refresh EXCEPT ![r] = Idle]
  /\ UNCHANGED <<schedule, tasks, fetched>>

\* Fault: the list is an attribute that is only added to.
StoreMore(r, list) ==
  /\ tasks' = tasks \o SubSeq(list, 1, Min({Len(list), MaxTasks - Len(tasks)}))
  /\ fetched' = "recent"
  /\ refresh' = [refresh EXCEPT ![r] = Idle]

Store(r, list) ==
  /\ tasks' = list
  /\ fetched' = "recent"
  /\ refresh' = [refresh EXCEPT ![r] = Idle]

\* Fault: one task more than there are is asked for.
ProceedOneMore(r, count, id, list) ==
  /\ IF id > count
     THEN Store(r, list)
     ELSE /\ refresh' = [refresh EXCEPT ![r] = [@ EXCEPT !.at = "GetTask", !.count = count,
                                                        !.id = id, !.list = list]]
          /\ UNCHANGED <<tasks, fetched>>
  /\ UNCHANGED schedule

\* With this much read, on to the task "id", or the end of the loop.
Proceed(r, count, id, list) ==
  /\ IF id = count
     THEN Store(r, list)
     ELSE /\ refresh' = [refresh EXCEPT ![r] = [@ EXCEPT !.at = "GetTask", !.count = count,
                                                        !.id = id, !.list = list]]
          /\ UNCHANGED <<tasks, fetched>>
  /\ UNCHANGED schedule

Counted(r) ==
  /\ refresh[r].at = "GetNumberOfTasks"
  /\ Proceed(r, Len(schedule), 0, <<>>)

NotCounted(r) ==
  /\ refresh[r].at = "GetNumberOfTasks"
  /\ Abandon(r)

GotTask(r) ==
  /\ refresh[r].at = "GetTask" /\ refresh[r].id < Len(schedule)
  /\ Proceed(r, refresh[r].count, refresh[r].id + 1,
             Append(refresh[r].list, schedule[refresh[r].id + 1]))

\* GetTask returns None: no answer, or no such task any more.  It is skipped.
SkippedTask(r) ==
  /\ refresh[r].at = "GetTask"
  /\ Proceed(r, refresh[r].count, refresh[r].id + 1, refresh[r].list)

\* A command raises, or an answer does not parse.
Raised(r) ==
  /\ r \in Working
  /\ Abandon(r)

--------------------------------------------------------------------------------
(* The mower's owner, and time.                                             *)

Edit(s) ==
  /\ s # schedule
  /\ schedule' = s
  /\ refresh' = [r \in Refreshes |-> IF r \in Working THEN [refresh[r] EXCEPT !.quiet = FALSE]
                                                      ELSE refresh[r]]
  /\ UNCHANGED <<tasks, fetched>>

GrowStale ==
  /\ fetched = "recent"
  /\ fetched' = "stale"
  /\ UNCHANGED <<schedule, tasks, refresh>>

--------------------------------------------------------------------------------
(* Tasks as events.                                                         *)

Day(t)     == t \div DayLength
Weekday(d) == d % 7

\* The tasks that are not passed over.
Useful(ts) == {i \in DOMAIN ts : ts[i].days # {} /\ ts[i].duration > 0}

\* What the task makes of day d.
OnDay(task, d) == LET begin == d * DayLength + task.start
                  IN  [start |-> begin, end |-> begin + task.duration]

\* Fault: only the seven days from today are looked at.
LookaheadShort(t) == Day(t)..Day(t) + 6

\* The days that _next_occurrence looks at.
Lookahead(t) == Day(t)..Day(t) + 7

\* The first that has not ended.
NextOccurrence(task, t) ==
  LET days == {d \in Lookahead(t) : /\ Weekday(d) \in task.days
                                    /\ OnDay(task, d).end > t
                                    /\ OnDay(task, d).start < t + 8 * DayLength}
  IN  IF days = {} THEN NoEvent ELSE OnDay(task, Min(days))

\* _get_next_event: of the events that begin first, that of the first task.
NextEvent(ts, t) ==
  LET next  == [i \in Useful(ts) |-> NextOccurrence(ts[i], t)]
      found == {i \in Useful(ts) : next[i] # NoEvent}
      best  == CHOOSE i \in found : \A j \in found :
                 \/ next[i].start < next[j].start
                 \/ next[i].start = next[j].start /\ i <= j
  IN  IF found = {} THEN NoEvent ELSE next[best]

\* Fault: an event that ends with the period, or later, is left out.
ExpandTaskInside(task, from, to) ==
  LET days == {d \in Day(from)..Day(to) : /\ Weekday(d) \in task.days
                                          /\ OnDay(task, d).end < to
                                          /\ OnDay(task, d).end > from}
  IN  {OnDay(task, d) : d \in days}

\* _expand_task: one event for each day, those that overlap with the period.
ExpandTask(task, from, to) ==
  LET days == {d \in Day(from)..Day(to) : /\ Weekday(d) \in task.days
                                          /\ OnDay(task, d).start < to
                                          /\ OnDay(task, d).end > from}
  IN  {OnDay(task, d) : d \in days}

\* async_get_events.  The list is in the order of "start"; two tasks with the same
\* event are two entries of it, and one element here.
Events(ts, from, to) == UNION {ExpandTask(ts[i], from, to) : i \in Useful(ts)}

--------------------------------------------------------------------------------

Next ==
  \/ \E r \in Refreshes : \/ Begin(r) \/ BeginIfStale(r) \/ Counted(r) \/ NotCounted(r)
                          \/ GotTask(r) \/ SkippedTask(r) \/ Raised(r)
  \/ \E s \in Schedules : Edit(s)
  \/ GrowStale

Spec == Init /\ [][Next]_vars

--------------------------------------------------------------------------------
(* Properties.                                                              *)

\* The elements of list are elements of s up to the n-th, in their order.
IsPartOf(list, s, n) ==
  \E at \in [1..Len(list) -> 1..n] :
    /\ \A i, j \in 1..Len(list) : i < j => at[i] < at[j]
    /\ \A i \in 1..Len(list) : list[i] = s[at[i]]

\* A refresh during which nobody edited the schedule caches the schedule, less the
\* tasks that were not answered, in the mower's order, whatever other refreshes do
\* meanwhile; and it caches nothing before it has read as much as it was told there is.
CachesTheSchedule ==
  [][\A r \in Working : refresh'[r] = Idle /\ tasks' # tasks /\ refresh[r].quiet
       => /\ schedule = <<>> \/ refresh[r].id + 1 = Len(schedule)
          /\ IsPartOf(tasks', schedule, Len(schedule))]_vars

\* What the tasks mean, without regard to how events are searched: is there mowing at
\* instant i, by an event that began on day d0 or later?  The code does not look back
\* past midnight: a task that runs into the next day is left out there.
Mowing(ts, i, d0) ==
  \E j \in DOMAIN ts, d \in d0..Day(i) :
    /\ Weekday(d) \in ts[j].days
    /\ i - d * DayLength \in ts[j].start..ts[j].start + ts[j].duration - 1

\* The entity's event ends the first instant without mowing, or is on: between now and
\* its start there is no mowing, from then to its end there is, and there is no event
\* only if there is no mowing in the next eight days.
ShowsNext(ts) ==
  \A t \in Instants :
    LET on == {i \in t..t + 8 * DayLength - 1 : Mowing(ts, i, Day(t))}
        e  == NextEvent(ts, t)
    IN  IF on = {} THEN e = NoEvent
        ELSE /\ e # NoEvent
             /\ Min(on) = Max({t, e.start}) /\ e.end > t
             /\ \A i \in e.start..e.end - 1 : Mowing(ts, i, Day(t))

\* The events of a period are on at exactly the instants of the period with mowing.
ShowsAll(ts) ==
  \A from \in Instants, to \in Instants : from < to =>
    LET events == Events(ts, from, to)
    IN  \A i \in from..to - 1 :
          Mowing(ts, i, Day(from)) <=> \E e \in events : e.start <= i /\ i < e.end

\* Whatever schedule a refresh caches, whole or with tasks left out, the entity's state
\* and its event agree with it at any instant.
NextIsFirst == ShowsNext(tasks)

\* Whatever schedule is cached, the events of a period are the mowing of the period.
EventsCover == ShowsAll(tasks)
================================================================================
