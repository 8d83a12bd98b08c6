------------------------- MODULE MowerCalendarProofs --------------------------
(****************************************************************************)
(* Theorems about the refreshes of MowerCalendar and the events made of     *)
(* what they cache, for any schedule, any number of tasks, any number of    *)
(* refreshes at the same time and days of any length.                       *)
(*                                                                          *)
(* The invariant is about a refresh on its way: it has read no more than it *)
(* has asked for, and as long as nobody edited the schedule, what it has    *)
(* read is part of the schedule up to there.                                *)
(*                                                                          *)
(* The events are right for every schedule there may be, so that it is      *)
(* enough for them that a cache is a schedule.  That the search for the     *)
(* next looks at eight days is enough, although eight days from now may     *)
(* touch nine, because a task that begins on the ninth began a week before  *)
(* that, which is tomorrow.                                                 *)
(****************************************************************************)
EXTENDS MowerCalendar, WellFoundedInduction, TLAPS

\* What refresh r has read so far.
ReadSoFar(r) ==
  refresh[r].at = "GetTask" =>
    /\ Len(refresh[r].list) <= refresh[r].id
    /\ refresh[r].quiet => /\ refresh[r].count = Len(schedule)
                           /\ IsPartOf(refresh[r].list, schedule, refresh[r].id)

IInv == CalTypeOK /\ \A r \in Refreshes : ReadSoFar(r)

--------------------------------------------------------------------------------
(* Schedules and their parts.                                               *)

\* A schedule is a sequence of tasks that is not longer than the bound.
LEMMA SchedulesAre ==
  \A s : s \in Schedules <=> s \in Seq(Tasks) /\ Len(s) <= MaxTasks
<1>1. ASSUME NEW s \in Seq(Tasks), Len(s) <= MaxTasks PROVE s \in Schedules
  <2>1. Len(s) \in 0..MaxTasks /\ s \in [1..Len(s) -> Tasks]
    BY <1>1, CalendarAssumption
  <2> QED
    BY <2>1 DEF Schedules, BoundedSeq, SeqOf
<1>2. ASSUME NEW s \in Schedules PROVE s \in Seq(Tasks) /\ Len(s) <= MaxTasks
  <2>1. PICK m \in 0..MaxTasks : s \in [1..m -> Tasks]
    BY <1>2 DEF Schedules, BoundedSeq, SeqOf
  <2> QED
    BY <2>1, CalendarAssumption
<1> QED
  BY <1>1, <1>2

\* Nothing is part of everything.
LEMMA NothingIsPart == ASSUME NEW s, NEW n \in Nat PROVE IsPartOf(<<>>, s, n)
<1>1. Len(<<>>) = 0 /\ 1..0 = {}
  OBVIOUS
<1> DEFINE at == [i \in {} |-> 0]
<1>2. at \in [1..Len(<<>>) -> 1..n]
  BY <1>1
<1> HIDE DEF at
<1> QED
  BY <1>1, <1>2 DEF IsPartOf

\* A task that is not answered is passed over.
LEMMA PartSkips ==
  ASSUME NEW s, NEW list \in Seq(Tasks), NEW n \in Nat, IsPartOf(list, s, n)
  PROVE  IsPartOf(list, s, n + 1)
<1>1. PICK at \in [1..Len(list) -> 1..n] :
        /\ \A i, j \in 1..Len(list) : i < j => at[i] < at[j]
        /\ \A i \in 1..Len(list) : list[i] = s[at[i]]
  BY DEF IsPartOf
<1>2. at \in [1..Len(list) -> 1..n + 1]
  OBVIOUS
<1> QED
  BY <1>1, <1>2 DEF IsPartOf

\* One that is answered is added.
LEMMA PartGrows ==
  ASSUME NEW s, NEW list \in Seq(Tasks), NEW n \in Nat, IsPartOf(list, s, n), s[n + 1] \in Tasks
  PROVE  IsPartOf(Append(list, s[n + 1]), s, n + 1)
<1>1. PICK at \in [1..Len(list) -> 1..n] :
        /\ \A i, j \in 1..Len(list) : i < j => at[i] < at[j]
        /\ \A i \in 1..Len(list) : list[i] = s[at[i]]
  BY DEF IsPartOf
<1> DEFINE longer == Append(list, s[n + 1])
           to == [i \in 1..Len(list) + 1 |-> IF i <= Len(list) THEN at[i] ELSE n + 1]
<1>2. /\ Len(longer) = Len(list) + 1 /\ Len(list) \in Nat
      /\ longer[Len(list) + 1] = s[n + 1]
      /\ \A i \in 1..Len(list) : longer[i] = list[i]
  OBVIOUS
<1>3. to \in [1..Len(longer) -> 1..n + 1]
  BY <1>2
<1>4. \A i, j \in 1..Len(longer) : i < j => to[i] < to[j]
  BY <1>1, <1>2
<1>5. \A i \in 1..Len(longer) : longer[i] = s[to[i]]
  BY <1>1, <1>2
<1> HIDE DEF to, longer
<1>6. IsPartOf(longer, s, n + 1)
  BY <1>3, <1>4, <1>5 DEF IsPartOf
<1> QED
  BY <1>6 DEF longer

--------------------------------------------------------------------------------
(* Refreshes.                                                               *)

RefreshType == [at : {"idle", "GetNumberOfTasks", "GetTask"}, count : 0..MaxTasks,
                id : 0..MaxTasks, list : Schedules, quiet : BOOLEAN]

\* A refresh that has not read anything is of its type.
LEMMA FreshType == Idle \in RefreshType /\ Begun \in RefreshType
<1>1. <<>> \in Schedules
  <2>1. <<>> \in Seq(Tasks) /\ Len(<<>>) = 0
    OBVIOUS
  <2>2. 0 <= MaxTasks
    BY CalendarAssumption
  <2> QED
    BY <2>1, <2>2, SchedulesAre
<1>2. 0 \in 0..MaxTasks
  BY CalendarAssumption
<1>3. Idle \in RefreshType
  BY <1>1, <1>2 DEF Idle, RefreshType
<1>4. Begun \in RefreshType
  BY <1>3 DEF Begun, RefreshType
<1> QED
  BY <1>3, <1>4

\* A refresh that begins or ends without a list has nothing to show for it.
LEMMA FreshStep ==
  ASSUME IInv, NEW r \in Refreshes, NEW s \in {Idle, Begun},
         refresh' = [refresh EXCEPT ![r] = s], UNCHANGED <<schedule, tasks, fetched>>
  PROVE  IInv'
<1>1. refresh' \in [Refreshes -> RefreshType]
  BY FreshType DEF IInv, CalTypeOK, RefreshType
<1>2. \A q \in Refreshes : refresh'[q].at = "GetTask" => q # r /\ refresh'[q] = refresh[q]
  BY DEF IInv, CalTypeOK, Idle, Begun
<1>3. CalTypeOK'
  BY <1>1, <1>2 DEF IInv, CalTypeOK, RefreshType, Working
<1>4. \A q \in Refreshes : ReadSoFar(q)'
  BY <1>2 DEF IInv, ReadSoFar
<1> QED
  BY <1>3, <1>4 DEF IInv

\* With this much read, the refresh goes on or stores it.
LEMMA ProceedStep ==
  ASSUME IInv, NEW r \in Refreshes, NEW count \in 0..MaxTasks, NEW id \in 0..count,
         NEW list \in Schedules, Len(list) <= id, Proceed(r, count, id, list),
         refresh[r].quiet => count = Len(schedule) /\ IsPartOf(list, schedule, id)
  PROVE  IInv'
<1>0. schedule' = schedule
  BY DEF Proceed
<1>1. CASE id = count
  <2>1. /\ tasks' = list /\ fetched' = "recent"
        /\ refresh' = [refresh EXCEPT ![r] = Idle]
    BY <1>1 DEF Proceed, Store
  <2>2. refresh' \in [Refreshes -> RefreshType]
    BY <2>1, FreshType DEF IInv, CalTypeOK, RefreshType
  <2>3. \A q \in Refreshes : refresh'[q].at = "GetTask" => q # r /\ refresh'[q] = refresh[q]
    BY <2>1 DEF IInv, CalTypeOK, Idle
  <2>4. CalTypeOK'
    BY <1>0, <2>1, <2>2, <2>3 DEF IInv, CalTypeOK, RefreshType, Working
  <2>5. \A q \in Refreshes : ReadSoFar(q)'
    BY <1>0, <2>3 DEF IInv, ReadSoFar
  <2> QED
    BY <2>4, <2>5 DEF IInv
<1>2. CASE id # count
  <2> DEFINE next == [refresh[r] EXCEPT !.at = "GetTask", !.count = count, !.id = id, !.list = list]
  <2>1. refresh' = [refresh EXCEPT ![r] = next] /\ UNCHANGED <<tasks, fetched>>
    BY <1>2 DEF Proceed
  <2>2. refresh \in [Refreshes -> RefreshType]
    BY DEF IInv, CalTypeOK, RefreshType
  <2>3. count \in Nat /\ id \in 0..MaxTasks /\ id < count
    BY <1>2, CalendarAssumption
  <2>4. /\ next \in RefreshType /\ next.at = "GetTask" /\ next.count = count /\ next.id = id
        /\ next.list = list /\ next.quiet = refresh[r].quiet
    BY <2>2, <2>3 DEF RefreshType
  <2> HIDE DEF next
  <2>5. refresh' \in [Refreshes -> RefreshType] /\ refresh'[r] = next
        /\ \A q \in Refreshes \ {r} : refresh'[q] = refresh[q]
    BY <2>1, <2>2, <2>4
  <2>6. CalTypeOK'
    BY <1>0, <2>1, <2>3, <2>4, <2>5 DEF IInv, CalTypeOK, RefreshType, Working
  <2>7. \A q \in Refreshes : ReadSoFar(q)'
    BY <1>0, <2>4, <2>5 DEF IInv, ReadSoFar
  <2> QED
    BY <2>6, <2>7 DEF IInv
<1> QED
  BY <1>1, <1>2

\* What a refresh has read when the next task is answered, or is not.
LEMMA ReadsOn ==
  ASSUME IInv, NEW r \in Refreshes, refresh[r].at = "GetTask", NEW list,
         \/ list = refresh[r].list
         \/ /\ refresh[r].id < Len(schedule)
            /\ list = Append(refresh[r].list, schedule[refresh[r].id + 1])
  PROVE  /\ refresh[r].count \in 0..MaxTasks
         /\ refresh[r].id + 1 \in 0..refresh[r].count
         /\ list \in Schedules /\ Len(list) <= refresh[r].id + 1
         /\ refresh[r].quiet => /\ refresh[r].count = Len(schedule)
                                /\ IsPartOf(list, schedule, refresh[r].id + 1)
<1>1. /\ refresh[r].count \in 0..MaxTasks /\ refresh[r].id \in 0..MaxTasks
      /\ refresh[r].list \in Schedules /\ refresh[r].id < refresh[r].count
      /\ Len(refresh[r].list) <= refresh[r].id
      /\ refresh[r].quiet => /\ refresh[r].count = Len(schedule)
                             /\ IsPartOf(refresh[r].list, schedule, refresh[r].id)
  BY DEF IInv, CalTypeOK, ReadSoFar, Working
<1>2. /\ refresh[r].list \in Seq(Tasks) /\ schedule \in Seq(Tasks)
      /\ Len(refresh[r].list) \in Nat /\ Len(schedule) \in Nat
  BY <1>1, SchedulesAre DEF IInv, CalTypeOK
<1>3. CASE list = refresh[r].list
  <2>1. refresh[r].quiet => IsPartOf(list, schedule, refresh[r].id + 1)
    BY <1>1, <1>2, <1>3, PartSkips
  <2>2. refresh[r].id + 1 \in 0..refresh[r].count /\ Len(list) <= refresh[r].id + 1
    BY <1>1, <1>2, <1>3, CalendarAssumption
  <2>3. list \in Schedules
    BY <1>1, <1>3
  <2> QED
    BY <1>1, <2>1, <2>2, <2>3
<1>4. CASE /\ refresh[r].id < Len(schedule)
           /\ list = Append(refresh[r].list, schedule[refresh[r].id + 1])
  <2>1. schedule[refresh[r].id + 1] \in Tasks
    BY <1>1, <1>2, <1>4
  <2>2. list \in Seq(Tasks) /\ Len(list) = Len(refresh[r].list) + 1
    BY <1>2, <1>4, <2>1
  <2>3. Len(list) <= MaxTasks /\ Len(list) <= refresh[r].id + 1
    BY <1>1, <1>2, <2>2, CalendarAssumption
  <2>4. refresh[r].quiet => IsPartOf(list, schedule, refresh[r].id + 1)
    BY <1>1, <1>2, <1>4, <2>1, PartGrows
  <2>5. list \in Schedules
    BY <2>2, <2>3, SchedulesAre
  <2>6. refresh[r].id + 1 \in 0..refresh[r].count
    BY <1>1, CalendarAssumption
  <2> QED
    BY <1>1, <2>3, <2>4, <2>5, <2>6
<1> QED
  BY <1>3, <1>4

\* An edit changes no refresh but that it is not quiet any more.
LEMMA EditStep == ASSUME IInv, NEW s \in Schedules, Edit(s) PROVE IInv'
<1>1. schedule' = s /\ UNCHANGED <<tasks, fetched>>
  BY DEF Edit
<1>2. ASSUME NEW q \in Refreshes
      PROVE  /\ refresh'[q] \in RefreshType /\ refresh'[q].at = refresh[q].at
             /\ refresh'[q].id = refresh[q].id /\ refresh'[q].count = refresh[q].count
             /\ refresh'[q].list = refresh[q].list
             /\ refresh[q].at # "idle" => ~refresh'[q].quiet
  <2>1. refresh[q] \in RefreshType
    BY DEF IInv, CalTypeOK, RefreshType
  <2>2. refresh'[q] = IF q \in Working THEN [refresh[q] EXCEPT !.quiet = FALSE] ELSE refresh[q]
    BY DEF Edit
  <2> QED
    BY <2>1, <2>2 DEF Working, RefreshType
<1>3. refresh' \in [Refreshes -> RefreshType]
  BY <1>2 DEF Edit
<1>4. CalTypeOK'
  BY <1>1, <1>2, <1>3 DEF IInv, CalTypeOK, RefreshType, Working
<1>5. \A q \in Refreshes : ReadSoFar(q)'
  BY <1>2 DEF IInv, ReadSoFar
<1> QED
  BY <1>4, <1>5 DEF IInv

--------------------------------------------------------------------------------
(* The invariant.                                                           *)

\* No refresh is on its way and nothing is cached.
LEMMA CalInitInv == Init => IInv
<1> SUFFICES ASSUME Init PROVE IInv
  OBVIOUS
<1>1. refresh = [r \in Refreshes |-> Idle] /\ Idle \in RefreshType /\ Idle.at = "idle"
  BY FreshType DEF Init, Idle
<1>2. tasks \in Schedules
  BY FreshType DEF Init, Idle, RefreshType
<1>3. CalTypeOK
  BY <1>1, <1>2 DEF Init, CalTypeOK, RefreshType, Working
<1>4. \A r \in Refreshes : ReadSoFar(r)
  BY <1>1 DEF ReadSoFar
<1> QED
  BY <1>3, <1>4 DEF IInv

\* The number of tasks is told.
LEMMA CountedStep == ASSUME IInv, NEW r \in Refreshes, Counted(r) PROVE IInv'
<1>1. schedule \in Seq(Tasks) /\ Len(schedule) \in 0..MaxTasks
  BY SchedulesAre, CalendarAssumption DEF IInv, CalTypeOK
<1>2. 0 \in 0..Len(schedule)
  BY <1>1
<1>3. <<>> \in Schedules /\ Len(<<>>) <= 0
  BY FreshType DEF Idle, RefreshType
<1>4. IsPartOf(<<>>, schedule, 0)
  BY NothingIsPart
<1> QED
  BY <1>1, <1>2, <1>3, <1>4, ProceedStep DEF Counted

\* Every step keeps the inductive invariant.
LEMMA CalNextInv == IInv /\ [Next]_vars => IInv'
<1> SUFFICES ASSUME IInv, [Next]_vars PROVE IInv'
  OBVIOUS
<1>1. ASSUME NEW r \in Refreshes, Begin(r) \/ BeginIfStale(r) \/ NotCounted(r) \/ Raised(r) PROVE IInv'
  BY <1>1, FreshStep DEF Begin, BeginIfStale, NotCounted, Raised, Abandon
<1>2. ASSUME NEW r \in Refreshes, Counted(r) PROVE IInv'
  BY <1>2, CountedStep
<1>3. ASSUME NEW r \in Refreshes, GotTask(r) \/ SkippedTask(r) PROVE IInv'
  <2>1. PICK list : /\ Proceed(r, refresh[r].count, refresh[r].id + 1, list)
                    /\ \/ list = refresh[r].list
                       \/ /\ refresh[r].id < Len(schedule)
                          /\ list = Append(refresh[r].list, schedule[refresh[r].id + 1])
    BY <1>3 DEF GotTask, SkippedTask
  <2>2. refresh[r].at = "GetTask"
    BY <1>3 DEF GotTask, SkippedTask
  <2> QED
    BY <2>1, <2>2, ReadsOn, ProceedStep
<1>4. ASSUME NEW s \in Schedules, Edit(s) PROVE IInv'
  BY <1>4, EditStep
<1>5. CASE GrowStale
  BY <1>5 DEF GrowStale, IInv, CalTypeOK, ReadSoFar, Working
<1>6. CASE UNCHANGED vars
  BY <1>6 DEF vars, IInv, CalTypeOK, ReadSoFar, Working
<1> QED
  BY <1>1, <1>2, <1>3, <1>4, <1>5, <1>6 DEF Next

--------------------------------------------------------------------------------
(* Theorems.                                                                *)

\* The inductive invariant holds in every reachable state.
THEOREM CalInvariance == Spec => []IInv
  BY CalInitInv, CalNextInv, PTL DEF Spec

\* A refresh asks for tasks it was told there are, and caches a schedule of the mower's size
\* at most.
THEOREM CalTypeCorrect == Spec => []CalTypeOK
<1>1. IInv => CalTypeOK
  BY DEF IInv
<1> QED
  BY <1>1, CalInvariance, PTL

\* When a quiet refresh changes the cache, it has asked for every task, and caches those
\* that were answered, in the mower's order.
LEMMA StoresTheSchedule ==
  ASSUME IInv, Next, NEW r \in Working, refresh'[r] = Idle, tasks' # tasks, refresh[r].quiet
  PROVE  /\ schedule = <<>> \/ refresh[r].id + 1 = Len(schedule)
         /\ IsPartOf(tasks', schedule, Len(schedule))
<1>0. r \in Refreshes /\ refresh[r].at # "idle" /\ refresh \in [Refreshes -> RefreshType]
  BY DEF IInv, CalTypeOK, RefreshType, Working
<1>1. PICK q, count, id, list :
        /\ q \in Refreshes
        /\ Proceed(q, count, id, list) /\ id = count
        /\ \/ Counted(q) /\ count = Len(schedule) /\ id = 0 /\ list = <<>>
           \/ /\ refresh[q].at = "GetTask" /\ count = refresh[q].count /\ id = refresh[q].id + 1
              /\ \/ list = refresh[q].list
                 \/ /\ refresh[q].id < Len(schedule)
                    /\ list = Append(refresh[q].list, schedule[refresh[q].id + 1])
  <2>1. PICK q \in Refreshes : Counted(q) \/ GotTask(q) \/ SkippedTask(q)
    BY DEF Next, Begin, BeginIfStale, NotCounted, Raised, Abandon, Edit, GrowStale
  <2>2. CASE Counted(q)
    BY <2>2 DEF Counted, Proceed
  <2>3. CASE GotTask(q)
    BY <2>3 DEF GotTask, Proceed
  <2>4. CASE SkippedTask(q)
    BY <2>4 DEF SkippedTask, Proceed
  <2> QED
    BY <2>1, <2>2, <2>3, <2>4
<1>2. tasks' = list /\ refresh' = [refresh EXCEPT ![q] = Idle]
  BY <1>1 DEF Proceed, Store
<1>3. q = r
  BY <1>0, <1>2 DEF Idle
<1>4. CASE count = Len(schedule) /\ id = 0 /\ list = <<>>
  <2>1. schedule \in Seq(Tasks) /\ Len(schedule) = 0
    BY <1>1, <1>4, SchedulesAre DEF IInv, CalTypeOK
  <2> QED
    BY <1>2, <1>4, <2>1, NothingIsPart
<1>5. CASE /\ refresh[q].at = "GetTask" /\ count = refresh[q].count /\ id = refresh[q].id + 1
           /\ \/ list = refresh[q].list
              \/ /\ refresh[q].id < Len(schedule)
                 /\ list = Append(refresh[q].list, schedule[refresh[q].id + 1])
  <2>1. refresh[q].count = Len(schedule) /\ IsPartOf(list, schedule, refresh[q].id + 1)
    BY <1>1, <1>3, <1>5, ReadsOn
  <2> QED
    BY <1>1, <1>2, <1>3, <1>5, <2>1
<1> QED
  BY <1>1, <1>4, <1>5

\* A refresh that no edit falls into caches the schedule, less the tasks that were not
\* answered, whatever other refreshes do meanwhile.
THEOREM RefreshCaches == Spec => CachesTheSchedule
<1>1. IInv /\ [Next]_vars =>
        [\A r \in Working : refresh'[r] = Idle /\ tasks' # tasks /\ refresh[r].quiet
           => /\ schedule = <<>> \/ refresh[r].id + 1 = Len(schedule)
              /\ IsPartOf(tasks', schedule, Len(schedule))]_vars
  BY StoresTheSchedule
<1> QED
  BY <1>1, CalInvariance, PTL DEF Spec, CachesTheSchedule

--------------------------------------------------------------------------------
(* Days, and least elements.                                                *)

\* Day(t) is the day t falls on.
LEMMA DayBounds ==
  ASSUME NEW t \in Nat
  PROVE  /\ Day(t) \in Nat /\ Day(t) * DayLength \in Nat
         /\ Day(t) * DayLength <= t /\ t < Day(t) * DayLength + DayLength
  BY CalendarAssumption DEF Day

\* Days begin in their order.
LEMMA DaysInOrder ==
  ASSUME NEW c \in Nat, NEW d \in Nat
  PROVE  /\ c * DayLength \in Nat /\ d * DayLength \in Nat
         /\ c <= d => c * DayLength <= d * DayLength
         /\ c < d => c * DayLength + DayLength <= d * DayLength
  BY CalendarAssumption

\* A day that has begun is not after today.
LEMMA DayHasBegun ==
  ASSUME NEW d \in Nat, NEW t \in Nat, d * DayLength <= t
  PROVE  d <= Day(t)
<1>1. Day(t) \in Nat /\ t < Day(t) * DayLength + DayLength
  BY DayBounds
<1>2. Day(t) < d => Day(t) * DayLength + DayLength <= d * DayLength
  BY <1>1, DaysInOrder
<1>3. Day(t) * DayLength \in Nat /\ d * DayLength \in Nat /\ DayLength \in Nat
  BY <1>1, DaysInOrder, CalendarAssumption
<1> QED
  BY <1>1, <1>2, <1>3

\* The same weekday a week earlier.
LEMMA WeekBefore ==
  ASSUME NEW d \in Nat, d >= 7
  PROVE  /\ d - 7 \in Nat /\ Weekday(d - 7) = Weekday(d)
         /\ (d - 7) * DayLength = d * DayLength - 7 * DayLength
  BY CalendarAssumption DEF Weekday

\* A set of numbers has a least one, and Min is it.
LEMMA MinIsLeast ==
  ASSUME NEW S \in SUBSET Nat, S # {}
  PROVE  Min(S) \in S /\ \A k \in S : Min(S) <= k
<1> DEFINE R == OpToRel(<, Nat)
<1>1. IsWellFoundedOn(R, Nat)
  BY NatLessThanWellFounded
<1>2. \A m, k \in Nat : k < m => <<k, m>> \in R
  BY DEF OpToRel
<1> HIDE DEF R
<1>3. PICK m \in S : \A k \in S : ~(<<k, m>> \in R)
  BY <1>1, WFMin
<1>4. ASSUME NEW k \in S PROVE m <= k
  <2>1. m \in Nat /\ k \in Nat
    OBVIOUS
  <2>2. ~(k < m)
    BY <1>2, <1>3, <2>1
  <2> QED
    BY <2>1, <2>2
<1> QED
  BY <1>4 DEF Min

\* The later of two instants.
LEMMA MaxOfTwo ==
  ASSUME NEW a \in Nat, NEW b \in Nat
  PROVE  Max({a, b}) \in {a, b} /\ Max({a, b}) >= a /\ Max({a, b}) >= b
<1>1. \E x \in {a, b} : \A y \in {a, b} : x >= y
  <2>1. CASE a >= b
    BY <2>1
  <2>2. CASE b >= a
    BY <2>2
  <2> QED
    BY <2>1, <2>2
<1> QED
  BY <1>1 DEF Max

--------------------------------------------------------------------------------
(* A task on a day.                                                         *)

\* The task mows on day d at some time.
OnThatDay(task, d) == d \in Nat /\ Weekday(d) \in task.days

\* What a task makes of a day is an event of its own duration on the day it begins on.
LEMMA OnDayIs ==
  ASSUME NEW task \in Tasks, NEW d \in Nat
  PROVE  /\ OnDay(task, d) \in [start : Nat, end : Nat]
         /\ OnDay(task, d) # NoEvent
         /\ OnDay(task, d).start = d * DayLength + task.start
         /\ OnDay(task, d).end = d * DayLength + task.start + task.duration
         /\ d * DayLength \in Nat /\ task.start \in Nat /\ task.start < DayLength
         /\ DayLength \in Nat /\ task.duration \in Nat
<1>1. /\ task.start \in Nat /\ task.start < DayLength /\ task.duration \in Nat
      /\ DayLength \in Nat
  BY CalendarAssumption
<1>2. d * DayLength \in Nat
  BY DaysInOrder
<1>3. OnDay(task, d) = [start |-> d * DayLength + task.start,
                        end |-> d * DayLength + task.start + task.duration]
  BY DEF OnDay
<1>4. OnDay(task, d) \in [start : Nat, end : Nat]
  BY <1>1, <1>2, <1>3
<1> QED
  BY <1>1, <1>2, <1>3, <1>4, NoEventAssumption

\* There is mowing at an instant if and only if an event of a useful task is on.
LEMMA MowingIs ==
  ASSUME NEW ts \in Schedules, NEW i \in Nat, NEW d0 \in Nat
  PROVE  Mowing(ts, i, d0) <=>
           \E j \in Useful(ts), d \in Nat :
             /\ d0 <= d /\ OnThatDay(ts[j], d)
             /\ OnDay(ts[j], d).start <= i /\ i < OnDay(ts[j], d).end
<1>1. \A j \in DOMAIN ts : ts[j] \in Tasks
  BY SchedulesAre
<1>2. ASSUME Mowing(ts, i, d0)
      PROVE  \E j \in Useful(ts), d \in Nat :
               /\ d0 <= d /\ OnThatDay(ts[j], d)
               /\ OnDay(ts[j], d).start <= i /\ i < OnDay(ts[j], d).end
  <2>1. Day(i) \in Nat
    BY DayBounds
  <2>2. PICK j \in DOMAIN ts, d \in d0..Day(i) :
          /\ Weekday(d) \in ts[j].days
          /\ i - d * DayLength \in ts[j].start..ts[j].start + ts[j].duration - 1
    BY <1>2 DEF Mowing
  <2>3. d \in Nat /\ d0 <= d
    BY <2>1
  <2>4. /\ OnDay(ts[j], d).start = d * DayLength + ts[j].start
        /\ OnDay(ts[j], d).end = d * DayLength + ts[j].start + ts[j].duration
        /\ d * DayLength \in Nat /\ ts[j].start \in Nat /\ ts[j].duration \in Nat
    BY <1>1, <2>3, OnDayIs
  <2>5. OnDay(ts[j], d).start <= i /\ i < OnDay(ts[j], d).end /\ ts[j].duration > 0
    BY <2>2, <2>4
  <2>6. j \in Useful(ts)
    BY <2>2, <2>5 DEF Useful
  <2> QED
    BY <2>2, <2>3, <2>5, <2>6 DEF OnThatDay
<1>3. ASSUME NEW j \in Useful(ts), NEW d \in Nat, d0 <= d, OnThatDay(ts[j], d),
             OnDay(ts[j], d).start <= i, i < OnDay(ts[j], d).end
      PROVE  Mowing(ts, i, d0)
  <2>1. j \in DOMAIN ts
    BY DEF Useful
  <2>2. /\ OnDay(ts[j], d).start = d * DayLength + ts[j].start
        /\ OnDay(ts[j], d).end = d * DayLength + ts[j].start + ts[j].duration
        /\ d * DayLength \in Nat /\ ts[j].start \in Nat /\ ts[j].duration \in Nat
    BY <1>1, <2>1, OnDayIs
  <2>3. d * DayLength <= i /\ i - d * DayLength \in ts[j].start..ts[j].start + ts[j].duration - 1
    BY <1>3, <2>2
  <2>4. Day(i) \in Nat /\ d <= Day(i)
    BY <2>3, DayHasBegun, DayBounds
  <2>5. d \in d0..Day(i)
    BY <1>3, <2>4
  <2> QED
    BY <1>3, <2>1, <2>3, <2>5 DEF Mowing, OnThatDay
<1> QED
  BY <1>2, <1>3

--------------------------------------------------------------------------------
(* The event that is on or comes next.                                      *)

\* On day d, today or later, the task has an event that has not ended at t, and that
\* begins within eight days.
Coming(task, t, d) == /\ OnThatDay(task, d) /\ Day(t) <= d
                      /\ OnDay(task, d).end > t
                      /\ OnDay(task, d).start < t + 8 * DayLength

\* The days among which the search chooses.
Found(task, t) == {d \in Lookahead(t) : /\ Weekday(d) \in task.days
                                        /\ OnDay(task, d).end > t
                                        /\ OnDay(task, d).start < t + 8 * DayLength}

\* The search looks at eight days, and an event may begin on a ninth: but then there is
\* one of the same task a week earlier, and that has not ended.
LEMMA InReach ==
  ASSUME NEW task \in Tasks, NEW t \in Nat, NEW d \in Nat, Coming(task, t, d)
  PROVE  \E c \in Found(task, t) : c <= d
<1>1. /\ Day(t) \in Nat /\ Day(t) * DayLength \in Nat /\ DayLength \in Nat \ {0}
      /\ Day(t) * DayLength <= t /\ t < Day(t) * DayLength + DayLength
  BY DayBounds, CalendarAssumption
<1>2. Day(t) <= d /\ Weekday(d) \in task.days
  BY DEF Coming, OnThatDay
<1>3. CASE d <= Day(t) + 7
  <2>1. d \in Lookahead(t)
    BY <1>1, <1>2, <1>3 DEF Lookahead
  <2>2. d \in Found(task, t)
    BY <2>1, <1>2 DEF Found, Coming
  <2> QED
    BY <2>2
<1>4. CASE d = Day(t) + 8
  <2> DEFINE c == d - 7
  <2>1. /\ c \in Nat /\ Weekday(c) = Weekday(d) /\ c = Day(t) + 1
        /\ c * DayLength = d * DayLength - 7 * DayLength
    BY <1>1, <1>4, WeekBefore
  <2>2. Day(t) * DayLength + DayLength <= c * DayLength
    BY <1>1, <2>1, DaysInOrder
  <2>3. c \in Lookahead(t) /\ c <= d
    BY <1>1, <1>4, <2>1 DEF Lookahead
  <2>4. d * DayLength \in Nat /\ c * DayLength \in Nat
    BY <2>1, DaysInOrder
  <2> HIDE DEF c
  <2>5. /\ OnDay(task, c).start = c * DayLength + task.start
        /\ OnDay(task, c).end = c * DayLength + task.start + task.duration
        /\ OnDay(task, d).start = d * DayLength + task.start
        /\ task.start \in Nat /\ task.duration \in Nat
    BY <2>1, OnDayIs
  <2>6. OnDay(task, c).end > t
    BY <1>1, <2>2, <2>4, <2>5
  <2>7. OnDay(task, c).start < t + 8 * DayLength
    <3>1. OnDay(task, d).start < t + 8 * DayLength
      BY DEF Coming
    <3> QED
      BY <1>1, <2>1, <2>4, <2>5, <3>1
  <2>8. c \in Found(task, t)
    BY <1>2, <2>1, <2>3, <2>6, <2>7 DEF Found
  <2> QED
    BY <2>3, <2>8
<1>5. CASE d >= Day(t) + 9
  <2>1. (Day(t) + 9) * DayLength <= d * DayLength
    BY <1>1, <1>5, DaysInOrder
  <2>2. (Day(t) + 9) * DayLength = Day(t) * DayLength + 9 * DayLength
    BY <1>1
  <2>3. OnDay(task, d).start = d * DayLength + task.start /\ task.start \in Nat
        /\ d * DayLength \in Nat
    BY OnDayIs
  <2>4. OnDay(task, d).start < t + 8 * DayLength
    BY DEF Coming
  <2> QED
    BY <1>1, <2>1, <2>2, <2>3, <2>4
<1> QED
  BY <1>1, <1>3, <1>4, <1>5

\* _next_occurrence finds an event if there is one in the next eight days, and then the first.
LEMMA Occurrence ==
  ASSUME NEW task \in Tasks, NEW t \in Nat
  PROVE  /\ NextOccurrence(task, t) = NoEvent => \A d \in Nat : ~Coming(task, t, d)
         /\ NextOccurrence(task, t) # NoEvent =>
              \E c \in Nat : /\ Coming(task, t, c) /\ NextOccurrence(task, t) = OnDay(task, c)
                             /\ \A d \in Nat : Coming(task, t, d) =>
                                  OnDay(task, c).start <= OnDay(task, d).start
<1>1. NextOccurrence(task, t) = IF Found(task, t) = {} THEN NoEvent
                                                       ELSE OnDay(task, Min(Found(task, t)))
  BY DEF NextOccurrence, Found
<1>2. Day(t) \in Nat
  BY DayBounds
<1>3. \A c \in Found(task, t) : c \in Nat /\ Coming(task, t, c)
  BY <1>2 DEF Found, Lookahead, Coming, OnThatDay
<1>4. CASE Found(task, t) = {}
  BY <1>1, <1>4, InReach
<1>5. CASE Found(task, t) # {}
  <2> DEFINE c == Min(Found(task, t))
  <2>1. c \in Found(task, t) /\ \A d \in Found(task, t) : c <= d
    BY <1>3, <1>5, MinIsLeast
  <2> HIDE DEF c
  <2>2. c \in Nat /\ Coming(task, t, c) /\ OnDay(task, c) # NoEvent
    BY <1>3, <2>1, OnDayIs
  <2>3. ASSUME NEW d \in Nat, Coming(task, t, d)
        PROVE  OnDay(task, c).start <= OnDay(task, d).start
    <3>1. PICK b \in Found(task, t) : b <= d
      BY <2>3, InReach
    <3>2. c <= d /\ b \in Nat
      BY <1>3, <2>1, <2>2, <3>1
    <3>3. c * DayLength <= d * DayLength /\ c * DayLength \in Nat /\ d * DayLength \in Nat
      BY <2>2, <3>2, DaysInOrder
    <3>4. /\ OnDay(task, c).start = c * DayLength + task.start
          /\ OnDay(task, d).start = d * DayLength + task.start /\ task.start \in Nat
      BY <2>2, OnDayIs
    <3> QED
      BY <3>3, <3>4
  <2>4. NextOccurrence(task, t) = OnDay(task, c)
    BY <1>1, <1>5 DEF c
  <2> QED
    BY <2>2, <2>3, <2>4
<1> QED
  BY <1>4, <1>5

\* The tasks that are not passed over are tasks of the schedule.
LEMMA UsefulAre ==
  ASSUME NEW ts \in Schedules
  PROVE  Useful(ts) \in SUBSET Nat /\ \A i \in Useful(ts) : ts[i] \in Tasks
<1>1. ts \in Seq(Tasks)
  BY SchedulesAre
<1>2. \A i \in DOMAIN ts : i \in Nat /\ ts[i] \in Tasks
  BY <1>1
<1> QED
  BY <1>2 DEF Useful

\* _get_next_event finds an event if a task has one in the next eight days, and then one
\* before which none begins.
LEMMA NextEventIs ==
  ASSUME NEW ts \in Schedules, NEW t \in Nat
  PROVE  /\ NextEvent(ts, t) = NoEvent =>
              \A j \in Useful(ts), d \in Nat : ~Coming(ts[j], t, d)
         /\ NextEvent(ts, t) # NoEvent =>
              \E i \in Useful(ts), c \in Nat :
                /\ Coming(ts[i], t, c) /\ NextEvent(ts, t) = OnDay(ts[i], c)
                /\ \A j \in Useful(ts), d \in Nat : Coming(ts[j], t, d) =>
                     OnDay(ts[i], c).start <= OnDay(ts[j], d).start
<1> DEFINE next  == [i \in Useful(ts) |-> NextOccurrence(ts[i], t)]
           found == {i \in Useful(ts) : next[i] # NoEvent}
           First(i) == \A j \in found : \/ next[i].start < next[j].start
                                        \/ next[i].start = next[j].start /\ i <= j
           best  == CHOOSE i \in found : First(i)
<1>1. NextEvent(ts, t) = IF found = {} THEN NoEvent ELSE next[best]
  BY DEF NextEvent
<1>2. \A i \in Useful(ts) : i \in Nat /\ ts[i] \in Tasks /\ next[i] = NextOccurrence(ts[i], t)
  BY UsefulAre
<1>3. \A i \in Useful(ts) : i \in found <=> next[i] # NoEvent
  OBVIOUS
<1>4. found \subseteq Useful(ts)
  OBVIOUS
<1> HIDE DEF next, found, First
<1>5. \A j \in Useful(ts), d \in Nat : Coming(ts[j], t, d) => j \in found
  BY <1>2, <1>3, Occurrence
<1>6. CASE found = {}
  BY <1>1, <1>5, <1>6
<1>7. CASE found # {}
  <2>1. \A i \in found : next[i].start \in Nat /\ next[i] # NoEvent
    <3>1. ASSUME NEW i \in found PROVE next[i].start \in Nat /\ next[i] # NoEvent
      <4>1. PICK c \in Nat : next[i] = OnDay(ts[i], c)
        BY <1>2, <1>3, <1>4, Occurrence
      <4> QED
        BY <1>2, <1>4, <4>1, OnDayIs
    <3> QED
      BY <3>1
  <2>2. PICK i \in found : First(i)
    <3> DEFINE starts == {next[i].start : i \in found}
               m      == Min(starts)
               those  == {i \in found : next[i].start = m}
    <3>1. m \in starts /\ \A k \in starts : m <= k
      <4>1. starts \in SUBSET Nat /\ starts # {}
        BY <1>7, <2>1
      <4> HIDE DEF starts
      <4> QED
        BY <4>1, MinIsLeast
    <3> HIDE DEF m
    <3>2. those \in SUBSET Nat /\ those # {}
      BY <1>2, <1>4, <3>1
    <3>3. PICK i \in those : \A k \in those : i <= k
      <4> HIDE DEF those
      <4> QED
        BY <3>2, MinIsLeast
    <3>4. ASSUME NEW j \in found
          PROVE  \/ next[i].start < next[j].start
                 \/ next[i].start = next[j].start /\ i <= j
      <4>1. next[i].start = m /\ m <= next[j].start /\ m \in Nat /\ next[j].start \in Nat
        BY <2>1, <3>1, <3>3
      <4>2. next[j].start = m => i <= j
        BY <3>3
      <4> QED
        BY <4>1, <4>2
    <3> QED
      BY <3>3, <3>4 DEF First
  <2>3. best \in found /\ First(best)
    BY <2>2
  <2> HIDE DEF best
  <2>4. PICK c \in Nat : /\ Coming(ts[best], t, c) /\ next[best] = OnDay(ts[best], c)
                         /\ \A d \in Nat : Coming(ts[best], t, d) =>
                              OnDay(ts[best], c).start <= OnDay(ts[best], d).start
    BY <1>2, <1>4, <2>1, <2>3, Occurrence
  <2>5. ASSUME NEW j \in Useful(ts), NEW d \in Nat, Coming(ts[j], t, d)
        PROVE  OnDay(ts[best], c).start <= OnDay(ts[j], d).start
    <3>1. j \in found
      BY <1>5, <2>5
    <3>2. next[best].start <= next[j].start
      BY <2>1, <2>3, <3>1 DEF First
    <3>3. PICK b \in Nat : next[j] = OnDay(ts[j], b)
                           /\ OnDay(ts[j], b).start <= OnDay(ts[j], d).start
      BY <1>2, <2>1, <2>5, <3>1, Occurrence
    <3>4. OnDay(ts[j], d).start \in Nat
      BY <1>2, OnDayIs
    <3> QED
      BY <2>1, <2>3, <2>4, <3>1, <3>2, <3>3, <3>4
  <2>6. NextEvent(ts, t) = next[best] /\ best \in Useful(ts)
    BY <1>1, <1>4, <1>7, <2>3 DEF best
  <2> QED
    BY <2>1, <2>3, <2>4, <2>5, <2>6
<1> QED
  BY <1>6, <1>7

\* Every instant at which an event that may be found is on has mowing.
LEMMA EventMows ==
  ASSUME NEW ts \in Schedules, NEW i \in Useful(ts), NEW t \in Nat, NEW c \in Nat,
         Coming(ts[i], t, c), NEW k \in Nat,
         OnDay(ts[i], c).start <= k, k < OnDay(ts[i], c).end
  PROVE  Mowing(ts, k, Day(t))
<1>1. Day(t) \in Nat /\ Day(t) <= c /\ OnThatDay(ts[i], c)
  BY DayBounds DEF Coming
<1> QED
  BY <1>1, MowingIs

\* Conversely, mowing in the next eight days is an event that may be found.
LEMMA MowingIsComing ==
  ASSUME NEW ts \in Schedules, NEW t \in Nat, NEW k \in t..t + 8 * DayLength - 1,
         Mowing(ts, k, Day(t))
  PROVE  \E j \in Useful(ts), d \in Nat : Coming(ts[j], t, d) /\ OnDay(ts[j], d).start <= k
<1>1. k \in Nat /\ t <= k /\ k < t + 8 * DayLength /\ Day(t) \in Nat
  BY DayBounds, CalendarAssumption
<1>2. PICK j \in Useful(ts), d \in Nat :
        /\ Day(t) <= d /\ OnThatDay(ts[j], d)
        /\ OnDay(ts[j], d).start <= k /\ k < OnDay(ts[j], d).end
  BY <1>1, MowingIs
<1>3. OnDay(ts[j], d).start \in Nat /\ OnDay(ts[j], d).end \in Nat /\ DayLength \in Nat
  BY UsefulAre, OnDayIs, CalendarAssumption
<1>4. Coming(ts[j], t, d)
  BY <1>1, <1>2, <1>3 DEF Coming
<1> QED
  BY <1>2, <1>4

\* The search is right for any schedule.
LEMMA NextIsRight == ASSUME NEW ts \in Schedules PROVE ShowsNext(ts)
<1> SUFFICES ASSUME NEW t \in Instants
             PROVE  LET on == {i \in t..t + 8 * DayLength - 1 : Mowing(ts, i, Day(t))}
                        e  == NextEvent(ts, t)
                    IN  IF on = {} THEN e = NoEvent
                        ELSE /\ e # NoEvent
                             /\ Min(on) = Max({t, e.start}) /\ e.end > t
                             /\ \A i \in e.start..e.end - 1 : Mowing(ts, i, Day(t))
  BY DEF ShowsNext
<1> DEFINE on == {i \in t..t + 8 * DayLength - 1 : Mowing(ts, i, Day(t))}
           e  == NextEvent(ts, t)
<1>1. t \in Nat /\ DayLength \in Nat \ {0} /\ 8 * DayLength \in Nat
  BY CalendarAssumption
<1>2. on \in SUBSET Nat /\ on \subseteq t..t + 8 * DayLength - 1
  BY <1>1
<1>3. \A k \in on : Mowing(ts, k, Day(t))
  OBVIOUS
<1>4. \A k \in t..t + 8 * DayLength - 1 : Mowing(ts, k, Day(t)) => k \in on
  OBVIOUS
<1> HIDE DEF on, e
<1>5. CASE e = NoEvent
  <2>1. \A k \in on : FALSE
    BY <1>1, <1>2, <1>3, <1>5, MowingIsComing, NextEventIs DEF e
  <2> QED
    BY <1>5, <2>1 DEF on, e
<1>6. CASE e # NoEvent
  <2>1. PICK i \in Useful(ts), c \in Nat :
          /\ Coming(ts[i], t, c) /\ e = OnDay(ts[i], c)
          /\ \A j \in Useful(ts), d \in Nat : Coming(ts[j], t, d) =>
               OnDay(ts[i], c).start <= OnDay(ts[j], d).start
    BY <1>1, <1>6, NextEventIs DEF e
  <2>2. e.start \in Nat /\ e.end \in Nat /\ e.end > t /\ e.start < t + 8 * DayLength
    BY <2>1, UsefulAre, OnDayIs DEF Coming
  <2>3. \A k \in e.start..e.end - 1 : Mowing(ts, k, Day(t))
    <3>1. ASSUME NEW k \in e.start..e.end - 1 PROVE Mowing(ts, k, Day(t))
      <4>1. k \in Nat /\ e.start <= k /\ k < e.end
        BY <2>2
      <4> QED
        BY <1>1, <2>1, <4>1, EventMows
    <3> QED
      BY <3>1
  <2> DEFINE m == Max({t, e.start})
  <2>4. m \in {t, e.start} /\ m >= t /\ m >= e.start
    BY <1>1, <2>2, MaxOfTwo
  <2> HIDE DEF m
  <2>5. e.start < e.end
    <3>1. ts[i] \in Tasks /\ ts[i].duration > 0
      BY UsefulAre DEF Useful
    <3> QED
      BY <2>1, <3>1, OnDayIs
  <2>6. m \in on
    <3>1. m \in t..t + 8 * DayLength - 1 /\ m \in e.start..e.end - 1
      BY <1>1, <2>2, <2>4, <2>5
    <3> QED
      BY <1>4, <2>3, <3>1
  <2>7. ASSUME NEW k \in on PROVE m <= k
    <3>1. k \in Nat /\ t <= k
      BY <1>1, <1>2
    <3>2. PICK j \in Useful(ts), d \in Nat :
            Coming(ts[j], t, d) /\ OnDay(ts[j], d).start <= k
      BY <1>1, <1>2, <1>3, MowingIsComing
    <3>3. e.start <= OnDay(ts[j], d).start /\ OnDay(ts[j], d).start \in Nat
      BY <2>1, <3>2, UsefulAre, OnDayIs
    <3> QED
      BY <2>2, <2>4, <3>1, <3>2, <3>3
  <2>8. Min(on) = m
    <3>1. Min(on) \in on /\ Min(on) <= m
      BY <1>2, <2>6, MinIsLeast
    <3>2. m <= Min(on) /\ m \in Nat /\ Min(on) \in Nat
      BY <1>2, <2>6, <2>7, <3>1
    <3> QED
      BY <3>1, <3>2
  <2>9. on # {}
    BY <2>6
  <2> QED
    BY <1>6, <2>2, <2>3, <2>8, <2>9 DEF on, e, m
<1> QED
  BY <1>5, <1>6

\* The expansion is right for any schedule.
LEMMA ExpansionIsRight == ASSUME NEW ts \in Schedules PROVE ShowsAll(ts)
<1> SUFFICES ASSUME NEW from \in Instants, NEW to \in Instants, from < to,
                    NEW i \in from..to - 1
             PROVE  Mowing(ts, i, Day(from)) <=>
                      \E e \in Events(ts, from, to) : e.start <= i /\ i < e.end
  BY DEF ShowsAll
<1>1. /\ from \in Nat /\ to \in Nat /\ i \in Nat /\ from <= i /\ i < to
      /\ Day(from) \in Nat /\ Day(to) \in Nat
  BY CalendarAssumption, DayBounds
<1>2. ASSUME Mowing(ts, i, Day(from))
      PROVE  \E e \in Events(ts, from, to) : e.start <= i /\ i < e.end
  <2>1. PICK j \in Useful(ts), d \in Nat :
          /\ Day(from) <= d /\ OnThatDay(ts[j], d)
          /\ OnDay(ts[j], d).start <= i /\ i < OnDay(ts[j], d).end
    BY <1>1, <1>2, MowingIs
  <2>2. /\ OnDay(ts[j], d).start \in Nat /\ OnDay(ts[j], d).end \in Nat
        /\ OnDay(ts[j], d).start = d * DayLength + ts[j].start
        /\ d * DayLength \in Nat /\ ts[j].start \in Nat
    BY UsefulAre, OnDayIs
  <2>3. d \in Day(from)..Day(to)
    <3>1. d * DayLength <= to
      BY <1>1, <2>1, <2>2
    <3> QED
      BY <1>1, <2>1, <3>1, DayHasBegun
  <2>4. OnDay(ts[j], d).start < to /\ OnDay(ts[j], d).end > from
    BY <1>1, <2>1, <2>2
  <2>5. OnDay(ts[j], d) \in ExpandTask(ts[j], from, to)
    BY <2>1, <2>3, <2>4 DEF ExpandTask, OnThatDay
  <2> QED
    BY <2>1, <2>5 DEF Events
<1>3. ASSUME NEW e \in Events(ts, from, to), e.start <= i, i < e.end
      PROVE  Mowing(ts, i, Day(from))
  <2>1. PICK j \in Useful(ts) : e \in ExpandTask(ts[j], from, to)
    BY DEF Events
  <2>2. PICK d \in Day(from)..Day(to) : Weekday(d) \in ts[j].days /\ e = OnDay(ts[j], d)
    BY <2>1 DEF ExpandTask
  <2>3. d \in Nat /\ Day(from) <= d /\ OnThatDay(ts[j], d)
    BY <1>1, <2>2 DEF OnThatDay
  <2> QED
    BY <1>1, <1>3, <2>2, <2>3, MowingIs
<1> QED
  BY <1>2, <1>3

\* Whatever a refresh caches, and at any instant, the entity's event is the first: it is on
\* or comes next, and there is none only if there is no mowing in the next eight days.
THEOREM EventIsFirst == Spec => []NextIsFirst
<1>1. CalTypeOK => NextIsFirst
  BY NextIsRight DEF CalTypeOK, NextIsFirst
<1> QED
  BY <1>1, CalTypeCorrect, PTL

\* Whatever is cached, async_get_events answers for any period with the mowing of the period.
THEOREM PeriodIsCovered == Spec => []EventsCover
<1>1. CalTypeOK => EventsCover
  BY ExpansionIsRight DEF CalTypeOK, EventsCover
<1> QED
  BY <1>1, CalTypeCorrect, PTL
================================================================================
