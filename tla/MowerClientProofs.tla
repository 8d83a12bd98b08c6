--------------------------- MODULE MowerClientProofs ---------------------------
(****************************************************************************)
(* Machine-checked proofs about MowerClient, for every number of callers,   *)
(* ids and retries that the assumptions allow.                              *)
(*                                                                          *)
(* The safety properties are not inductive: that an answer is its own rests *)
(* on no late answer bearing the id of a running call, which rests on the   *)
(* ids of running calls being distinct, which rests on a running call being *)
(* registered whenever another one may look for a free id.                  *)
(****************************************************************************)
EXTENDS MowerClient, FiniteSetTheorems, TLAPS

USE DEF Tids, Simple, LinkInit, Lose, CloseWriter, Reopen

\* A task that is not in wait_for has nothing of a call on it.
Clean ==
  \A c \in Callers : pc[c] # "waiting" =>
    /\ fut[c] = "pending" /\ interrupt[c] = "none" /\ answer[c] = "none"
    /\ tid[c] = Simple /\ attempt[c] = 0 /\ replies[c] = 0

\* A call is answered at most once per attempt.
RepliesBounded == \A c \in Callers : replies[c] <= attempt[c]

\* The ids of running extended calls differ.
DistinctTids ==
  \A c, d \in Callers :
    pc[c] = "waiting" /\ pc[d] = "waiting" /\ tid[c] # Simple /\ tid[c] = tid[d] => c = d

\* While the link is up, every call in wait_for is registered; on a lost link, the
\* ones that nothing has woken.
IsRegistered ==
  \A c \in Callers :
    pc[c] = "waiting" /\ (link = "up" \/ Awaiting(c)) => Registered(tid[c]) = c

HoldsLock == \A c \in Callers : pc[c] = "waiting" /\ tid[c] = Simple => holder = c

\* No late answer bears the id of a running extended call.
NotLate == \A c \in Callers : pc[c] = "waiting" /\ tid[c] # Simple => tid[c] \notin late

IInv == /\ TypeOK /\ Clean /\ RepliesBounded /\ DistinctTids /\ IsRegistered
        /\ HoldsLock /\ NotLate /\ NothingLeftBehind /\ OwnAnswer

--------------------------------------------------------------------------------
(* The counter.                                                             *)

\* The next id is an id.
LEMMA SuccType == ASSUME NEW t \in Tids PROVE Succ(t) \in Tids
  BY MaxTidAssumption DEF Succ

\* The search goes over ids.
LEMMA AheadType == ASSUME NEW t \in Tids, NEW d \in 0..(MaxTid - 1)
                   PROVE  Ahead(t, d) \in Tids
  BY MaxTidAssumption DEF Ahead

\* Giving out the id t the counter goes by t, unless it comes back to where it was.
LEMMA PassedIsCovered ==
  ASSUME NEW n \in Tids, NEW d \in 0..(MaxTid - 1), NEW t \in Tids,
         t = Ahead(n, d), Succ(t) # n
  PROVE  t \in Passed(n, Succ(t))
  BY MaxTidAssumption DEF Ahead, Succ, Passed

\* The counter comes back to where it was only after a look at every other id.
LEMMA FullLap ==
  ASSUME NEW n \in Tids, NEW d \in 0..(MaxTid - 1), NEW t \in Tids,
         t = Ahead(n, d), Succ(t) = n
  PROVE  \A u \in Tids \ {t} : \E e \in 0..(d - 1) : u = Ahead(n, e)
<1> SUFFICES ASSUME NEW u \in Tids \ {t} PROVE \E e \in 0..(d - 1) : u = Ahead(n, e)
  OBVIOUS
<1>1. d = MaxTid - 1
  BY MaxTidAssumption DEF Ahead, Succ
<1> DEFINE e == IF u >= n THEN u - n ELSE u + MaxTid - n
<1>2. e \in 0..(MaxTid - 1) /\ u = Ahead(n, e)
  BY MaxTidAssumption DEF Ahead
<1>3. e # d
  BY <1>2 
<1>4. e \in 0..(d - 1)
  BY <1>1, <1>2, <1>3, MaxTidAssumption
<1> QED
  BY <1>2, <1>4

\* With a caller idle, some id is free besides any given one.
LEMMA OtherFree ==
  ASSUME IInv, NEW c \in Callers, pc[c] = "idle", NEW t \in Tids,
         \A u \in Tids \ {t} : pending[u] # NoCaller
  PROVE  FALSE
<1> DEFINE S == Tids \ {t}
           T == Callers \ {c}
           f == [u \in S |-> pending[u]]
<1>1. IsFiniteSet(Tids) /\ Cardinality(Tids) = MaxTid
  BY FS_Interval, MaxTidAssumption
<1>2. IsFiniteSet(S) /\ Cardinality(S) = MaxTid - 1
  BY <1>1, FS_RemoveElement
<1>3. IsFiniteSet(T) /\ Cardinality(T) = Cardinality(Callers) - 1
  BY CallersAssumption, FS_RemoveElement
<1>4. Cardinality(Callers) \in Nat
  BY CallersAssumption, FS_CardinalityType
<1>5. Cardinality(T) < Cardinality(S)
  BY <1>2, <1>3, <1>4, MaxTidAssumption
<1>6. ASSUME NEW u \in S
      PROVE  pending[u] \in T /\ tid[pending[u]] = u
  <2>1. u \in Tids /\ pending[u] # NoCaller
    OBVIOUS
  <2>2. pending[u] \in Callers
    BY <2>1 DEF IInv, TypeOK
  <2>3. pc[pending[u]] = "waiting" /\ tid[pending[u]] = u
    BY <2>1 DEF IInv, NothingLeftBehind
  <2> QED
    BY <2>2, <2>3
<1>7. f \in [S -> T]
  BY <1>6
<1> HIDE DEF S, T
<1>8. \E x, y \in S : x # y /\ f[x] = f[y]
  <2> HIDE DEF f
  <2> QED
    BY ONLY <1>2, <1>3, <1>5, <1>7, FS_PigeonHole
<1> QED
  BY <1>6, <1>8

\* The id given out is one the counter goes by: no late answer bears it afterwards.
LEMMA FreshTidPassed ==
  ASSUME IInv, NEW c \in Callers, pc[c] = "idle", NEW t \in Tids, IsFirstFree(t)
  PROVE  t \in Passed(next_tid, Succ(t))
<1>1. PICK d \in 0..(MaxTid - 1) :
        /\ t = Ahead(next_tid, d)
        /\ \A e \in 0..(d - 1) : pending[Ahead(next_tid, e)] # NoCaller
  BY DEF IsFirstFree
<1>2. next_tid \in Tids
  BY DEF IInv, TypeOK
<1>3. Succ(t) # next_tid
  <2> SUFFICES ASSUME Succ(t) = next_tid PROVE FALSE
    OBVIOUS
  <2>1. \A u \in Tids \ {t} : \E e \in 0..(d - 1) : u = Ahead(next_tid, e)
    BY <1>1, <1>2, FullLap
  <2>2. \A u \in Tids \ {t} : pending[u] # NoCaller
    BY <1>1, <2>1
  <2> QED
    BY <2>2, OtherFree
<1> QED
  BY <1>1, <1>2, <1>3, PassedIsCovered
--------------------------------------------------------------------------------
(* The invariant is inductive: one lemma per kind of step.                  *)

\* The invariant holds when the object is constructed.
LEMMA InitInv == Init => IInv
<1> SUFFICES ASSUME Init PROVE IInv
  OBVIOUS
<1> USE DEF Init
<1>1. TypeOK
  <2>1. next_tid \in Tids /\ 0 \in 0..Retries
    BY RetriesAssumption, MaxTidAssumption, CallersAssumption, FS_CardinalityType
  <2>2. waiters \in Seq(Callers)
    OBVIOUS
  <2> QED
    BY <2>1, <2>2 DEF TypeOK
<1>2. Clean /\ RepliesBounded /\ DistinctTids /\ IsRegistered /\ HoldsLock /\ NotLate
  BY DEF Clean, RepliesBounded, DistinctTids, IsRegistered, HoldsLock, NotLate
<1>3. NothingLeftBehind /\ OwnAnswer
  BY DEF NothingLeftBehind, OwnAnswer
<1> QED
  BY <1>1, <1>2, <1>3 DEF IInv

\* A call ends, in whatever way.
LEMMA FinishStep ==
  ASSUME IInv, NEW c \in Callers, NEW exc \in BOOLEAN, pc[c] = "waiting", Finish(c, exc)
  PROVE  IInv'
<1>0. TypeOK
  BY DEF IInv
<1>a. tid[c] \in Tids \cup {Simple}
  BY <1>0 DEF TypeOK
<1> USE DEF Finish, Unregister, Back
<1>1. TypeOK'
  <2>1. late' \in SUBSET (Tids \cup {Simple})
    BY <1>0, <1>a DEF TypeOK
  <2>2. pending' \in [Tids -> Callers \cup {NoCaller}]
    BY <1>0, <1>a DEF TypeOK
  <2>3. simpleFut' \in Callers \cup {NoCaller} /\ holder' \in Callers \cup {NoCaller}
    BY <1>0 DEF TypeOK
  <2>4. /\ attempt' \in [Callers -> 0..Retries] /\ replies' \in [Callers -> 0..Retries]
        /\ tid' \in [Callers -> Tids \cup {Simple}]
    BY <1>0, RetriesAssumption DEF TypeOK
  <2>5. /\ pc' \in [Callers -> {"idle", "queued", "waiting"}]
        /\ fut' \in [Callers -> {"pending", "result", "cancelled"}]
        /\ interrupt' \in [Callers -> {"none", "timeout", "cancel"}]
        /\ answer' \in [Callers -> {"none", "own", "foreign"}]
        /\ raised' \in [Callers -> BOOLEAN]
    BY <1>0 DEF TypeOK
  <2> QED
    BY <1>0, <2>1, <2>2, <2>3, <2>4, <2>5 DEF TypeOK
<1>b. /\ \A d \in Callers \ {c} : pc'[d] = pc[d] /\ tid'[d] = tid[d] /\ fut'[d] = fut[d]
                                  /\ interrupt'[d] = interrupt[d] /\ answer'[d] = answer[d]
                                  /\ attempt'[d] = attempt[d] /\ replies'[d] = replies[d]
      /\ pc'[c] = "idle" /\ tid'[c] = Simple /\ fut'[c] = "pending"
      /\ interrupt'[c] = "none" /\ answer'[c] = "none" /\ attempt'[c] = 0 /\ replies'[c] = 0
  BY <1>0 DEF TypeOK
<1>c. \A u \in Tids : pending'[u] = IF u = tid[c] THEN NoCaller ELSE pending[u]
  <2>1. CASE tid[c] = Simple
    BY <2>1
  <2>2. CASE tid[c] # Simple
    BY <1>0, <1>a, <2>2 DEF TypeOK
  <2> QED
    BY <2>1, <2>2
<1>2. Clean'
  BY <1>b DEF IInv, Clean
<1>3. RepliesBounded'
  BY <1>b DEF IInv, RepliesBounded
<1>4. DistinctTids'
  BY <1>b DEF IInv, DistinctTids
<1>5. IsRegistered'
  <2> SUFFICES ASSUME NEW d \in Callers, pc'[d] = "waiting", link' = "up" \/ Awaiting(d)'
               PROVE  Registered(tid[d])' = d
    BY <1>b DEF IsRegistered
  <2>1. d # c /\ pc[d] = "waiting" /\ (link = "up" \/ Awaiting(d)) /\ tid'[d] = tid[d]
    BY <1>b DEF Awaiting
  <2>2. Registered(tid[d]) = d
    BY <2>1 DEF IInv, IsRegistered
  <2>3. CASE tid[d] = Simple
    <3>1. tid[c] # Simple
      BY <2>1, <2>3 DEF IInv, HoldsLock
    <3> QED
      BY <2>1, <2>2, <2>3, <3>1 DEF Registered
  <2>4. CASE tid[d] # Simple
    <3>1. tid[d] # tid[c] /\ tid[d] \in Tids
      BY <1>0, <2>1, <2>4 DEF IInv, DistinctTids, TypeOK
    <3> QED
      BY <1>c, <2>1, <2>2, <2>4, <3>1 DEF Registered
  <2> QED
    BY <2>3, <2>4
<1>6. HoldsLock'
  BY <1>b DEF IInv, HoldsLock
<1>7. NotLate'
  BY <1>b DEF IInv, NotLate, DistinctTids
<1>8. NothingLeftBehind'
  <2>1. ASSUME NEW u \in Tids, pending'[u] # NoCaller
        PROVE  pc'[pending'[u]] = "waiting" /\ tid'[pending'[u]] = u
    <3>0. pending \in [Tids -> Callers \cup {NoCaller}]
      BY <1>0 DEF TypeOK
    <3>1. u # tid[c] /\ pending'[u] = pending[u] /\ pending[u] \in Callers
      BY <1>c, <2>1, <3>0
    <3>2. pc[pending[u]] = "waiting" /\ tid[pending[u]] = u
      BY <2>1, <3>1 DEF IInv, NothingLeftBehind
    <3> QED
      BY <1>b, <3>1, <3>2
  <2>2. ASSUME NEW d \in {simpleFut', holder'} \ {NoCaller}
        PROVE  pc'[d] = "waiting" /\ tid'[d] = Simple
    <3>1. d \in {simpleFut, holder} \ {NoCaller} /\ d \in Callers /\ tid[c] # Simple
      BY <1>0, <2>2 DEF TypeOK
    <3>2. pc[d] = "waiting" /\ tid[d] = Simple
      BY <3>1 DEF IInv, NothingLeftBehind
    <3> QED
      BY <1>b, <3>1, <3>2
  <2> QED
    BY <2>1, <2>2 DEF NothingLeftBehind
<1>9. OwnAnswer'
  BY <1>b DEF IInv, OwnAnswer
<1> QED
  BY <1>1, <1>2, <1>3, <1>4, <1>5, <1>6, <1>7, <1>8, <1>9 DEF IInv

\* An attempt with an id and a lock that the call may use: its own ones, or free ones.
LEMMA AttemptStep ==
  ASSUME IInv, NEW c \in Callers, NEW t \in Tids \cup {Simple}, NEW n \in 1..Retries,
         Attempt(c, t, n), n = attempt[c] + 1,
         UNCHANGED link, next_tid' \in Tids, waiters' \in Seq(Callers),
         holder' \in Callers \cup {NoCaller},
         t = Simple => holder' = c /\ holder \in {c, NoCaller},
         t # Simple => holder' = holder,
         late' \in SUBSET late, t # Simple => t \notin late',
         pc[c] = "waiting" => tid[c] = t,
         pc[c] # "waiting" /\ t # Simple => pending[t] = NoCaller /\ link = "up"
  PROVE  IInv'
<1>0. TypeOK
  BY DEF IInv
<1> USE DEF Attempt
<1>1. TypeOK'
  <2>1. replies' \in [Callers -> 0..Retries]
    <3>1. replies[c] <= attempt[c] /\ replies[c] \in Nat /\ attempt[c] \in Nat
      BY <1>0, RetriesAssumption DEF IInv, RepliesBounded, TypeOK
    <3>2. replies[c] + 1 \in 0..Retries
      BY SMTT(30), <3>1, RetriesAssumption
    <3> QED
      BY <1>0, <3>2 DEF TypeOK
  <2>2. pending' \in [Tids -> Callers \cup {NoCaller}]
    BY <1>0 DEF TypeOK
  <2>3. simpleFut' \in Callers \cup {NoCaller} /\ late' \in SUBSET (Tids \cup {Simple})
    BY <1>0 DEF TypeOK
  <2>4. attempt' \in [Callers -> 0..Retries] /\ tid' \in [Callers -> Tids \cup {Simple}]
    BY <1>0, RetriesAssumption DEF TypeOK
  <2>5. /\ pc' \in [Callers -> {"idle", "queued", "waiting"}]
        /\ fut' \in [Callers -> {"pending", "result", "cancelled"}]
        /\ interrupt' \in [Callers -> {"none", "timeout", "cancel"}]
        /\ answer' \in [Callers -> {"none", "own", "foreign"}]
        /\ raised' \in [Callers -> BOOLEAN]
    BY <1>0 DEF TypeOK
  <2> QED
    BY <1>0, <2>1, <2>2, <2>3, <2>4, <2>5 DEF TypeOK
<1>b. /\ \A d \in Callers \ {c} : pc'[d] = pc[d] /\ tid'[d] = tid[d] /\ fut'[d] = fut[d]
                                  /\ interrupt'[d] = interrupt[d] /\ answer'[d] = answer[d]
                                  /\ attempt'[d] = attempt[d] /\ replies'[d] = replies[d]
      /\ pc'[c] = "waiting" /\ tid'[c] = t /\ fut'[c] = "pending"
      /\ interrupt'[c] = "none" /\ answer'[c] = "none" /\ attempt'[c] = n
  BY <1>0 DEF TypeOK
<1>c. \A u \in Tids : pending'[u] = IF u = t THEN c ELSE pending[u]
  <2>1. CASE t = Simple
    BY <2>1
  <2>2. CASE t # Simple
    BY <1>0, <2>2 DEF TypeOK
  <2> QED
    BY <2>1, <2>2
<1>2. Clean'
  BY <1>b DEF IInv, Clean
<1>3. RepliesBounded'
  <2>1. replies[c] <= attempt[c] /\ replies[c] \in Nat /\ attempt[c] \in Nat
    BY <1>0, RetriesAssumption DEF IInv, RepliesBounded, TypeOK
  <2>2. replies'[c] \in {replies[c], replies[c] + 1}
    BY <1>0 DEF TypeOK
  <2>3. replies'[c] <= n
    BY <2>1, <2>2
  <2> QED
    BY <1>b, <2>3 DEF IInv, RepliesBounded
<1>4. ASSUME NEW d \in Callers \ {c}, pc[d] = "waiting", tid[d] # Simple
      PROVE  tid[d] # t
  <2>1. CASE pc[c] = "waiting"
    BY <1>4, <2>1 DEF IInv, DistinctTids
  <2>2. CASE pc[c] # "waiting" /\ t # Simple
    <3>1. pending[tid[d]] = d
      BY <1>4, <2>2 DEF IInv, IsRegistered, Registered
    <3> QED
      BY <2>2, <3>1, CallersAssumption
  <2> QED
    BY <1>4, <2>1, <2>2
<1>5. ASSUME NEW d \in Callers \ {c}, pc[d] = "waiting", tid[d] = Simple
      PROVE  holder = d /\ t # Simple
  BY <1>5, CallersAssumption DEF IInv, HoldsLock
<1>6. DistinctTids'
  BY <1>b, <1>4 DEF IInv, DistinctTids
<1>7. IsRegistered'
  <2> SUFFICES ASSUME NEW d \in Callers, pc'[d] = "waiting", link' = "up" \/ Awaiting(d)'
               PROVE  Registered(tid[d])' = d
    BY DEF IsRegistered
  <2>1. CASE d = c
    BY <1>b, <1>c, <2>1 DEF Registered
  <2>2. CASE d # c
    <3>1. pc[d] = "waiting" /\ (link = "up" \/ Awaiting(d)) /\ tid'[d] = tid[d]
      BY <1>b, <2>2 DEF Awaiting
    <3>2. Registered(tid[d]) = d
      BY <3>1 DEF IInv, IsRegistered
    <3>3. tid[d] \in Tids \cup {Simple}
      BY <1>0 DEF TypeOK
    <3> QED
      BY <1>c, <1>4, <1>5, <2>2, <3>1, <3>2, <3>3 DEF Registered
  <2> QED
    BY <2>1, <2>2
<1>8. HoldsLock'
  BY <1>b, <1>5 DEF IInv, HoldsLock
<1>9. NotLate'
  BY <1>b DEF IInv, NotLate
<1>10. NothingLeftBehind'
  <2>1. ASSUME NEW u \in Tids, pending'[u] # NoCaller
        PROVE  pc'[pending'[u]] = "waiting" /\ tid'[pending'[u]] = u
    <3>1. CASE u = t
      BY <1>b, <1>c, <3>1
    <3>2. CASE u # t
      <4>1. pending'[u] = pending[u] /\ pending[u] \in Callers
        BY <1>0, <1>c, <2>1, <3>2 DEF TypeOK
      <4>2. pc[pending[u]] = "waiting" /\ tid[pending[u]] = u
        BY <2>1, <4>1 DEF IInv, NothingLeftBehind
      <4>3. pending[u] # c
        BY <3>2, <4>2
      <4> QED
        BY <1>b, <4>1, <4>2, <4>3
    <3> QED
      BY <3>1, <3>2
  <2>2. ASSUME NEW d \in {simpleFut', holder'} \ {NoCaller}
        PROVE  pc'[d] = "waiting" /\ tid'[d] = Simple
    <3>1. CASE t = Simple
      BY <1>b, <2>2, <3>1
    <3>2. CASE t # Simple
      <4>1. d \in {simpleFut, holder} \ {NoCaller} /\ d \in Callers
        BY <1>0, <2>2, <3>2 DEF TypeOK
      <4>2. pc[d] = "waiting" /\ tid[d] = Simple
        BY <4>1 DEF IInv, NothingLeftBehind
      <4>3. d # c
        BY <3>2, <4>2
      <4> QED
        BY <1>b, <4>1, <4>2, <4>3
    <3> QED
      BY <3>1, <3>2
  <2> QED
    BY <2>1, <2>2 DEF NothingLeftBehind
<1>11. OwnAnswer'
  BY <1>b DEF IInv, OwnAnswer
<1> QED
  BY <1>1, <1>2, <1>3, <1>6, <1>7, <1>8, <1>9, <1>10, <1>11 DEF IInv
\* Resetting the call of a task that is not in wait_for changes nothing of it.
LEMMA CleanBack ==
  ASSUME IInv, NEW c \in Callers, NEW exc, pc[c] # "waiting", Back(c, exc)
  PROVE  UNCHANGED <<tid, attempt, fut, interrupt, answer>>
<1>1. TypeOK /\ Clean
  BY DEF IInv
<1>2. tid' = tid /\ attempt' = attempt
  BY <1>1 DEF TypeOK, Clean, Back
<1>3. fut' = fut /\ interrupt' = interrupt /\ answer' = answer
  BY <1>1 DEF TypeOK, Clean, Back
<1> QED
  BY <1>2, <1>3

\* A step that changes none of these, and neither starts nor ends a wait, keeps
\* NothingLeftBehind.
LEMMA StillThere ==
  ASSUME IInv, UNCHANGED <<pending, simpleFut, holder, tid>>,
         \A d \in Callers : pc'[d] = "waiting" <=> pc[d] = "waiting"
  PROVE  NothingLeftBehind'
<1>1. TypeOK /\ NothingLeftBehind
  BY DEF IInv
<1>2. \A t \in Tids : pending[t] # NoCaller => pending[t] \in Callers
  BY <1>1 DEF TypeOK
<1>3. {simpleFut, holder} \ {NoCaller} \subseteq Callers
  BY <1>1 DEF TypeOK
<1> QED
  BY <1>1, <1>2, <1>3 DEF NothingLeftBehind

\* The steps of a task that is not in wait_for.
LEMMA IdleStep ==
  ASSUME IInv, NEW c \in Callers,
         SendOffline(c) \/ SendExtended(c) \/ SendSimple(c) \/ QueueSimple(c) \/ Acquire(c)
  PROVE  IInv'
<1>0. TypeOK
  BY DEF IInv
<1>1. 1 \in 1..Retries
  BY RetriesAssumption
<1>2. pc[c] # "waiting" => attempt[c] = 0
  BY DEF IInv, Clean
<1>3. CASE SendOffline(c)
  <2>1. TypeOK'
    BY <1>0, <1>3 DEF SendOffline, TypeOK, linkVars, lockVars
  <2> QED
    BY <1>3, <2>1 DEF SendOffline, linkVars, lockVars, IInv, Clean, RepliesBounded, DistinctTids,
       IsRegistered, Awaiting, Registered, HoldsLock, NotLate, NothingLeftBehind, OwnAnswer
<1>4. CASE SendExtended(c)
  <2>1. PICK t \in Tids : IsFirstFree(t) /\ next_tid' = Succ(t) /\ Attempt(c, t, 1)
    BY <1>4 DEF SendExtended
  <2>2. /\ pc[c] = "idle" /\ link = "up" /\ late' = late \ Passed(next_tid, next_tid')
        /\ UNCHANGED <<link, holder, waiters>>
    BY <1>4 DEF SendExtended, linkVars, lockVars
  <2>3. t \notin late'
    BY <2>1, <2>2, FreshTidPassed
  <2>4. next_tid' \in Tids
    BY <2>1, SuccType
  <2>5. pending[t] = NoCaller /\ t # Simple
    BY <2>1 DEF IsFirstFree
  <2>6. /\ waiters' \in Seq(Callers) /\ holder' \in Callers \cup {NoCaller}
        /\ late' \in SUBSET late /\ 1 = attempt[c] + 1
    BY <1>0, <1>2, <2>2 DEF TypeOK
  <2> QED
    BY <1>1, <2>1, <2>2, <2>3, <2>4, <2>5, <2>6, AttemptStep
<1>5. CASE SendSimple(c)
  <2>1. /\ pc[c] = "idle" /\ holder = NoCaller /\ holder' = c /\ Attempt(c, Simple, 1)
        /\ UNCHANGED <<link, next_tid, waiters, late>>
    BY <1>5 DEF SendSimple, LockFree, linkVars
  <2>2. /\ waiters' \in Seq(Callers) /\ next_tid' \in Tids
        /\ late' \in SUBSET late /\ 1 = attempt[c] + 1
    BY <1>0, <1>2, <2>1 DEF TypeOK
  <2> QED
    BY <1>1, <2>1, <2>2, AttemptStep
<1>6. CASE QueueSimple(c)
  <2>1. TypeOK'
    BY <1>0, <1>6 DEF QueueSimple, TypeOK, linkVars
  <2>2. \A d \in Callers : pc'[d] = "waiting" <=> pc[d] = "waiting"
    BY <1>0, <1>6 DEF QueueSimple, TypeOK
  <2>3. UNCHANGED <<link, pending, simpleFut, holder, tid, attempt, fut, interrupt, answer,
                    replies, late>>
    BY <1>6 DEF QueueSimple, linkVars
  <2>4. NothingLeftBehind'
    BY <1>0, <2>2, <2>3, StillThere
  <2> QED
    BY <2>1, <2>2, <2>3, <2>4 DEF IInv, Clean, RepliesBounded, DistinctTids,
       IsRegistered, Awaiting, Registered, HoldsLock, NotLate, OwnAnswer
<1>7. CASE Acquire(c)
  <2>1. /\ pc[c] = "queued" /\ holder = NoCaller /\ waiters # <<>> /\ waiters' = Tail(waiters)
        /\ UNCHANGED <<link, next_tid, late>>
    BY <1>7 DEF Acquire, linkVars
  <2>2. waiters' \in Seq(Callers)
    BY <1>0, <2>1 DEF TypeOK
  <2>3. CASE link # "down"
    <3>1. holder' = c /\ Attempt(c, Simple, 1)
      BY <1>7, <2>3 DEF Acquire
    <3>2. next_tid' \in Tids /\ late' \in SUBSET late /\ 1 = attempt[c] + 1
      BY <1>0, <1>2, <2>1 DEF TypeOK
    <3> QED
      BY <1>1, <2>1, <2>2, <3>1, <3>2, AttemptStep
  <2>4. CASE link = "down"
    <3>1. Back(c, TRUE) /\ simpleFut' = NoCaller /\ UNCHANGED <<holder, pending, replies>>
      BY <1>7, <2>4 DEF Acquire
    <3>2. UNCHANGED <<tid, attempt, fut, interrupt, answer>>
      BY <1>0, <2>1, <3>1, CleanBack
    <3>3. /\ TypeOK'
          /\ \A d \in Callers : pc'[d] = "waiting" <=> pc[d] = "waiting"
      BY <1>0, <2>1, <2>2, <3>1, <3>2 DEF TypeOK, Back
    <3>4. simpleFut = NoCaller
      <4> SUFFICES ASSUME simpleFut # NoCaller PROVE FALSE
        OBVIOUS
      <4>1. simpleFut \in Callers /\ pc[simpleFut] = "waiting" /\ tid[simpleFut] = Simple
        BY <1>0 DEF IInv, NothingLeftBehind, TypeOK
      <4> QED
        BY <2>1, <4>1, CallersAssumption DEF IInv, HoldsLock
    <3>5. NothingLeftBehind'
      BY <1>0, <2>1, <3>1, <3>2, <3>3, <3>4, StillThere
    <3> QED
      BY <2>1, <3>1, <3>2, <3>3, <3>4, <3>5 DEF IInv, Clean, RepliesBounded, DistinctTids,
         IsRegistered, Awaiting, Registered, HoldsLock, NotLate, OwnAnswer
  <2> QED
    BY <2>3, <2>4
<1> QED
  BY <1>3, <1>4, <1>5, <1>6, <1>7

\* The future found under id t gets a result; with t not Simple it is the one of the
\* call that made the request.
LEMMA DispatchStep ==
  ASSUME IInv, NEW t \in Tids \cup {Simple}, NEW from \in Callers \cup {NoCaller},
         Dispatch(t, from),
         t # Simple => Registered(t) \in {from, NoCaller},
         replies' \in [Callers -> 0..Retries],
         \A c \in Callers : replies'[c] <= replies[c],
         late' \in SUBSET late,
         UNCHANGED <<link, next_tid, pending, simpleFut, holder, waiters,
                     pc, tid, attempt, interrupt, raised>>
  PROVE  IInv'
<1>0. TypeOK
  BY DEF IInv
<1>1. TypeOK'
  BY <1>0 DEF TypeOK, Dispatch
<1>2. \A c \in Callers :
        \/ fut'[c] = fut[c] /\ answer'[c] = answer[c]
        \/ /\ c = Registered(t) /\ Awaiting(c) /\ fut'[c] = "result"
           /\ answer'[c] = IF c = from THEN "own" ELSE "foreign"
  BY <1>0 DEF Dispatch, TypeOK
<1>3. \A c \in Callers : Awaiting(c)' => Awaiting(c)
  BY <1>2 DEF Awaiting
<1>4. Clean'
  <2> SUFFICES ASSUME NEW c \in Callers, pc[c] # "waiting"
               PROVE  fut'[c] = "pending" /\ answer'[c] = "none" /\ replies'[c] = 0
    BY DEF IInv, Clean
  <2>1. fut'[c] = fut[c] /\ answer'[c] = answer[c]
    BY <1>2 DEF Awaiting
  <2>2. replies'[c] = 0
    <3>1. replies[c] = 0 /\ replies'[c] \in 0..Retries /\ replies'[c] <= replies[c]
      BY DEF IInv, Clean
    <3> QED
      BY <3>1
  <2> QED
    BY <2>1, <2>2 DEF IInv, Clean
<1>5. RepliesBounded'
  <2> SUFFICES ASSUME NEW c \in Callers PROVE replies'[c] <= attempt[c]
    BY DEF RepliesBounded
  <2>1. /\ replies'[c] \in 0..Retries /\ replies[c] \in 0..Retries /\ attempt[c] \in 0..Retries
        /\ replies'[c] <= replies[c] /\ replies[c] <= attempt[c]
    BY <1>0 DEF IInv, RepliesBounded, TypeOK
  <2> QED
    BY <2>1, RetriesAssumption
<1>6. DistinctTids' /\ HoldsLock' /\ NotLate' /\ NothingLeftBehind'
  BY DEF IInv, DistinctTids, HoldsLock, NotLate, NothingLeftBehind
<1>7. IsRegistered'
  BY <1>3 DEF IInv, IsRegistered, Registered
<1>8. OwnAnswer'
  <2> SUFFICES ASSUME NEW c \in Callers, fut'[c] = "result", tid[c] # Simple
               PROVE  answer'[c] = "own"
    BY DEF OwnAnswer
  <2>1. CASE fut'[c] = fut[c] /\ answer'[c] = answer[c]
    BY <2>1 DEF IInv, OwnAnswer
  <2>2. CASE c = Registered(t) /\ answer'[c] = IF c = from THEN "own" ELSE "foreign"
    <3>1. t # Simple
      BY <1>0, <2>2, CallersAssumption DEF IInv, NothingLeftBehind, Registered
    <3> QED
      BY <2>2, <3>1, CallersAssumption
  <2> QED
    BY <1>2, <2>1, <2>2
<1> QED
  BY <1>1, <1>4, <1>5, <1>6, <1>7, <1>8 DEF IInv

\* The answer to a running call is dispatched.
LEMMA DeliverStep == ASSUME IInv, NEW c \in Callers, Deliver(c) PROVE IInv'
<1>0. TypeOK
  BY DEF IInv
<1>1. replies[c] \in 0..Retries /\ replies[c] > 0
  BY <1>0 DEF TypeOK, Deliver
<1>2. pc[c] = "waiting" /\ tid[c] \in Tids \cup {Simple}
  BY <1>0, <1>1 DEF IInv, Clean, TypeOK
<1>3. replies' \in [Callers -> 0..Retries] /\ \A d \in Callers : replies'[d] <= replies[d]
  BY <1>0, <1>1, RetriesAssumption DEF Deliver, TypeOK
<1>4. tid[c] # Simple => Registered(tid[c]) \in {c, NoCaller}
  BY <1>0, <1>2 DEF IInv, NothingLeftBehind, DistinctTids, Registered, TypeOK
<1> QED
  BY <1>2, <1>3, <1>4, DispatchStep DEF Deliver, linkVars, lockVars

\* A late answer is dispatched, or dropped.
LEMMA DeliverLateStep ==
  ASSUME IInv, NEW t \in Tids \cup {Simple}, DeliverLate(t) PROVE IInv'
<1>0. TypeOK
  BY DEF IInv
<1>1. ASSUME t # Simple PROVE Registered(t) = NoCaller
  <2> SUFFICES ASSUME pending[t] # NoCaller PROVE FALSE
    BY <1>1 DEF Registered
  <2>1. t \in Tids /\ pending[t] \in Callers
    BY <1>0, <1>1 DEF TypeOK
  <2>2. pc[pending[t]] = "waiting" /\ tid[pending[t]] = t
    BY <2>1 DEF IInv, NothingLeftBehind
  <2> QED
    BY <1>1, <2>1, <2>2 DEF IInv, NotLate, DeliverLate
<1>2. replies' \in [Callers -> 0..Retries] /\ \A d \in Callers : replies'[d] <= replies[d]
  BY <1>0, RetriesAssumption DEF DeliverLate, TypeOK
<1> QED
  BY <1>1, <1>2, DispatchStep DEF DeliverLate, linkVars, lockVars

\* A timer or a cancellation leaves the registrations alone.
LEMMA InterruptStep == ASSUME IInv, NEW c \in Callers, Expire(c) \/ Cancel(c) PROVE IInv'
<1>0. TypeOK
  BY DEF IInv
<1>1. CASE pc[c] = "waiting"
  <2>1. UNCHANGED <<link, next_tid, pending, simpleFut, holder, waiters, pc, tid, attempt,
                    answer, raised, replies, late>>
    BY <1>1 DEF Expire, Cancel, linkVars, lockVars
  <2>2. /\ \A d \in Callers : fut'[d] = "result" => fut[d] = "result"
        /\ \A d \in Callers \ {c} : fut'[d] = fut[d] /\ interrupt'[d] = interrupt[d]
        /\ interrupt'[c] # "none"
    BY <1>0, <1>1 DEF Expire, Cancel, TypeOK
  <2>3. TypeOK'
    <3>1. fut' \in [Callers -> {"pending", "result", "cancelled"}]
      BY <1>0, <1>1 DEF Expire, Cancel, TypeOK
    <3>2. interrupt' \in [Callers -> {"none", "timeout", "cancel"}]
      BY <1>0, <1>1 DEF Expire, Cancel, TypeOK
    <3> QED
      BY <1>0, <2>1, <3>1, <3>2 DEF TypeOK
  <2>4. \A d \in Callers : Awaiting(d)' => Awaiting(d)
    BY <2>1, <2>2 DEF Awaiting
  <2>5. Clean'
    BY <1>1, <2>1, <2>2 DEF IInv, Clean
  <2>6. IsRegistered'
    BY <2>1, <2>4 DEF IInv, IsRegistered, Registered
  <2>7. OwnAnswer'
    BY <2>1, <2>2 DEF IInv, OwnAnswer
  <2> QED
    BY <2>1, <2>3, <2>5, <2>6, <2>7 DEF IInv, RepliesBounded, DistinctTids, HoldsLock,
       NotLate, NothingLeftBehind
<1>2. CASE pc[c] = "queued"
  <2>1. /\ Back(c, FALSE)
        /\ UNCHANGED <<link, next_tid, pending, simpleFut, holder, replies, late>>
    BY <1>2 DEF Expire, Cancel, linkVars
  <2>2. waiters' \in Seq(Callers)
    <3>1. PICK i \in 1..Len(waiters) :
            waiters' = SubSeq(waiters, 1, i - 1) \o SubSeq(waiters, i + 1, Len(waiters))
      BY <1>2 DEF Expire, Cancel
    <3>2. waiters \in Seq(Callers)
      BY <1>0 DEF TypeOK
    <3> QED
      BY <3>1, <3>2
  <2>3. UNCHANGED <<tid, attempt, fut, interrupt, answer>>
    BY <1>0, <1>2, <2>1, CleanBack
  <2>4. /\ TypeOK'
        /\ \A d \in Callers : pc'[d] = "waiting" <=> pc[d] = "waiting"
    BY <1>0, <1>2, <2>1, <2>2, <2>3 DEF TypeOK, Back
  <2>5. NothingLeftBehind'
    BY <1>0, <2>1, <2>3, <2>4, StillThere
  <2> QED
    BY <2>1, <2>3, <2>4, <2>5 DEF IInv, Clean, RepliesBounded, DistinctTids, IsRegistered,
       Awaiting, Registered, HoldsLock, NotLate, OwnAnswer
<1> QED
  BY <1>1, <1>2 DEF Expire, Cancel
\* The task resumes in wait_for.
LEMMA ResumeStep == ASSUME IInv, NEW c \in Callers, Resume(c) PROVE IInv'
<1>0. TypeOK
  BY DEF IInv
<1>1. CASE Retry(c)
  <2>1. /\ pc[c] = "waiting" /\ attempt[c] < Retries /\ Attempt(c, tid[c], attempt[c] + 1)
        /\ UNCHANGED <<link, next_tid, holder, waiters, late>>
    BY <1>1 DEF Retry, linkVars, lockVars
  <2>2. tid[c] \in Tids \cup {Simple} /\ attempt[c] \in 0..Retries
    BY <1>0 DEF TypeOK
  <2>3. attempt[c] + 1 \in 1..Retries
    BY <2>1, <2>2, RetriesAssumption
  <2>4. /\ next_tid' \in Tids /\ waiters' \in Seq(Callers)
        /\ holder' \in Callers \cup {NoCaller} /\ late' \in SUBSET late
    BY <1>0, <2>1 DEF TypeOK
  <2>5. tid[c] = Simple => holder' = c /\ holder \in {c, NoCaller}
    BY <2>1 DEF IInv, HoldsLock
  <2>6. tid[c] # Simple => tid[c] \notin late'
    BY <2>1 DEF IInv, NotLate
  <2> QED
    BY <2>1, <2>2, <2>3, <2>4, <2>5, <2>6, AttemptStep
<1>2. CASE TakeAnswer(c) \/ GiveUpOnLoss(c) \/ RetryOffline(c) \/ GiveUpOnTimeout(c)
           \/ Cancelled(c)
  BY <1>2, FinishStep
     DEF TakeAnswer, GiveUpOnLoss, RetryOffline, GiveUpOnTimeout, Cancelled, Ready
<1> QED
  BY <1>1, <1>2 DEF Resume

\* _cancel_pending wakes every call in wait_for that nothing has woken yet.
LEMMA CancelPendingWakes ==
  ASSUME IInv, CancelPending, UNCHANGED <<pc, interrupt>>
  PROVE  \A c \in Callers : ~Awaiting(c)'
<1>0. TypeOK
  BY DEF IInv
<1> SUFFICES ASSUME NEW c \in Callers, Awaiting(c)' PROVE FALSE
  OBVIOUS
<1>1. pc[c] = "waiting" /\ interrupt[c] = "none" /\ fut'[c] = "pending"
  BY DEF Awaiting
<1>2. fut[c] = "pending"
  BY <1>1 DEF CancelPending
<1>3. Awaiting(c)
  BY <1>1, <1>2 DEF Awaiting
<1>4. tid[c] \in Tids \cup {Simple} /\ Registered(tid[c]) = c
  BY <1>0, <1>1, <1>3 DEF IInv, IsRegistered, TypeOK
<1>5. simpleFut = c \/ \E t \in Tids : pending[t] = c
  BY <1>4 DEF Registered
<1>6. fut'[c] = "cancelled"
  BY <1>3, <1>5 DEF CancelPending
<1> QED
  BY <1>1, <1>6

\* All registered futures are cancelled and forgotten.
LEMMA CancelPendingStep ==
  ASSUME IInv, CancelPending, link' \in {"closing", "down"},
         UNCHANGED <<next_tid, lockVars, pc, tid, attempt, interrupt, answer, raised,
                     replies, late>>
  PROVE  IInv'
<1>0. TypeOK
  BY DEF IInv
<1> USE DEF lockVars
<1>1. \A c \in Callers : ~Awaiting(c)'
  BY CancelPendingWakes
<1>2. \A c \in Callers : fut'[c] \in {fut[c], "cancelled"} /\ (pc[c] # "waiting" => fut'[c] = fut[c])
  BY DEF CancelPending, Awaiting
<1>3. TypeOK'
  BY <1>0 DEF TypeOK, CancelPending
<1>4. Clean'
  BY <1>2 DEF IInv, Clean
<1>5. IsRegistered'
  BY <1>1 DEF IsRegistered
<1>6. NothingLeftBehind'
  BY DEF IInv, NothingLeftBehind, CancelPending
<1>7. OwnAnswer'
  BY <1>2 DEF IInv, OwnAnswer
<1> QED
  BY <1>3, <1>4, <1>5, <1>6, <1>7
     DEF IInv, RepliesBounded, DistinctTids, HoldsLock, NotLate

\* The writer is closed, or a new connection opened.
LEMMA LinkStep ==
  ASSUME IInv, ConnectionLost \/ LostAgain \/ WriterClosed \/ Reconnected
  PROVE  IInv'
<1>0. TypeOK
  BY DEF IInv
<1>1. CASE ConnectionLost
  BY <1>1, CancelPendingStep DEF ConnectionLost
<1>2. CASE LostAgain
  BY <1>0, <1>2, CancelPendingStep DEF LostAgain, TypeOK, linkVars
<1>3. CASE WriterClosed \/ Reconnected
  <2>1. /\ UNCHANGED <<next_tid, pending, simpleFut, lockVars, callVars, replies, late>>
        /\ link' \in {"down", "up"}
    BY <1>3 DEF WriterClosed, Reconnected
  <2> USE DEF lockVars, callVars
  <2>2. TypeOK'
    BY <1>0, <2>1 DEF TypeOK
  <2>3. IsRegistered'
    <3>1. \A c \in Callers : pc[c] = "waiting" => Awaiting(c)
      BY <1>3 DEF WriterClosed, Reconnected, Settled, Ready
    <3> QED
      BY <2>1, <3>1 DEF IInv, IsRegistered, Registered
  <2> QED
    BY <2>1, <2>2, <2>3 DEF IInv, Clean, RepliesBounded, DistinctTids, HoldsLock, NotLate,
       NothingLeftBehind, OwnAnswer
<1> QED
  BY <1>1, <1>2, <1>3

\* Nothing happens.
LEMMA StutterStep == ASSUME IInv, UNCHANGED vars PROVE IInv'
  BY DEF IInv, vars, lockVars, callVars, TypeOK, Clean, RepliesBounded, DistinctTids, IsRegistered,
     Awaiting, Registered, HoldsLock, NotLate, NothingLeftBehind, OwnAnswer

\* Every step preserves the invariant.
LEMMA NextInv == IInv /\ [Next]_vars => IInv'
<1> SUFFICES ASSUME IInv, [Next]_vars PROVE IInv'
  OBVIOUS
<1>1. CASE UNCHANGED vars
  BY <1>1, StutterStep
<1>2. ASSUME NEW c \in Callers, CallerStep(c) PROVE IInv'
  BY <1>2, IdleStep, DeliverStep, InterruptStep, ResumeStep DEF CallerStep
<1>3. ASSUME NEW t \in Tids \cup {Simple}, DeliverLate(t) PROVE IInv'
  BY <1>3, DeliverLateStep
<1>4. CASE ConnectionLost \/ LostAgain \/ WriterClosed \/ Reconnected
  BY <1>4, LinkStep
<1> QED
  BY <1>1, <1>2, <1>3, <1>4 DEF Next

\* A non-empty set of naturals has a least element.
LEMMA LeastElement ==
  ASSUME NEW S \in SUBSET Nat, NEW n \in S
  PROVE  \E m \in S : \A k \in 0..(m - 1) : k \notin S
<1> DEFINE R == {p \in Nat \X Nat : p[1] < p[2]}
<1>1. IsWellFoundedOn(R, Nat)
  <2>1. R = OpToRel(<, Nat)
    BY DEF OpToRel
  <2> QED
    BY <2>1, NatLessThanWellFounded
<1>2. \E m \in S : \A k \in S : <<k, m>> \notin R
  <2> HIDE DEF R
  <2> QED
    BY <1>1, WFMin
<1>3. PICK m \in S : \A k \in S : <<k, m>> \notin R
  BY <1>2
<1>4. ASSUME NEW k \in 0..(m - 1), k \in S PROVE FALSE
  <2>1. k \in Nat /\ m \in Nat /\ k < m
    OBVIOUS
  <2>2. <<k, m>> \in R
    BY <2>1
  <2> QED
    BY <1>3, <1>4, <2>2
<1> QED
  BY <1>4

\* The search for a free id succeeds for every idle caller.
LEMMA SearchEnds ==
  ASSUME IInv, NEW c \in Callers, pc[c] = "idle"
  PROVE  \E t \in Tids : IsFirstFree(t)
<1>1. PICK u \in Tids : pending[u] = NoCaller
  <2> SUFFICES ASSUME \A u \in Tids : pending[u] # NoCaller PROVE FALSE
    OBVIOUS
  <2>1. next_tid \in Tids
    BY DEF IInv, TypeOK
  <2> QED
    BY <2>1, OtherFree
<1>2. next_tid \in Tids
  BY DEF IInv, TypeOK
<1> DEFINE S == {d \in 0..(MaxTid - 1) : pending[Ahead(next_tid, d)] = NoCaller}
           n == IF u >= next_tid THEN u - next_tid ELSE u + MaxTid - next_tid
<1>3. n \in S
  <2>1. n \in 0..(MaxTid - 1) /\ Ahead(next_tid, n) = u
    BY <1>2, MaxTidAssumption DEF Ahead
  <2> QED
    BY <1>1, <2>1
<1>4. PICK d \in S : \A k \in 0..(d - 1) : k \notin S
  <2>1. S \in SUBSET Nat
    OBVIOUS
  <2> HIDE DEF S, n
  <2> QED
    BY <1>3, <2>1, LeastElement
<1>5. Ahead(next_tid, d) \in Tids
  BY <1>2, AheadType
<1>6. \A e \in 0..(d - 1) : pending[Ahead(next_tid, e)] # NoCaller
  BY <1>4, MaxTidAssumption
<1> QED
  BY <1>5, <1>6 DEF IsFirstFree

--------------------------------------------------------------------------------
(* The theorems.                                                            *)

\* The inductive invariant holds in every reachable state of the client.
THEOREM Invariance == Spec => []IInv
<1>1. Init => IInv
  BY InitInv
<1>2. IInv /\ [Next]_vars => IInv'
  BY NextInv
<1> QED
  BY <1>1, <1>2, PTL DEF Spec

\* The variables keep their types: ids stay within 1..MaxTid and no call makes more
\* than Retries attempts.
THEOREM TypeCorrect == Spec => []TypeOK
<1>1. IInv => TypeOK
  BY DEF IInv
<1> QED
  BY <1>1, Invariance, PTL

\* An extended call takes only answers to its own requests (_send_extended).
THEOREM AnswersAreOwn == Spec => []OwnAnswer
<1>1. IInv => OwnAnswer
  BY DEF IInv
<1> QED
  BY <1>1, Invariance, PTL

\* Whatever way a call ends, it leaves no id, future or lock behind.
THEOREM NoLeftovers == Spec => []NothingLeftBehind
<1>1. IInv => NothingLeftBehind
  BY DEF IInv
<1> QED
  BY <1>1, Invariance, PTL

\* No call waits on a future that _dispatch_frame and _cancel_pending cannot find.
THEOREM WaitersAreFound == Spec => []FindsItsCall
<1>1. IInv => FindsItsCall
  BY DEF IInv, IsRegistered, FindsItsCall, Awaiting
<1> QED
  BY <1>1, Invariance, PTL

\* At most one simple request is under way, by the holder of the lock.
THEOREM SimpleIsExclusive == Spec => []OneSimple
<1>1. IInv => OneSimple
  BY DEF IInv, HoldsLock, OneSimple
<1> QED
  BY <1>1, Invariance, PTL

\* The loss of the connection wakes every call that waits for an answer.
THEOREM LossWakesAll == Spec => LossEndsWaiting
<1>1. IInv /\ [Next]_vars => [link = "up" /\ link' # "up" => \A c \in Callers : ~Awaiting(c)']_vars
  <2> SUFFICES ASSUME IInv, Next, link = "up", link' # "up", NEW c \in Callers
               PROVE  ~Awaiting(c)'
    OBVIOUS
  <2>1. ConnectionLost
    BY DEF Next, CallerStep, SendOffline, SendExtended, SendSimple, QueueSimple, Acquire,
       Deliver, Expire, Cancel, Resume, TakeAnswer, GiveUpOnLoss, Retry, RetryOffline,
       GiveUpOnTimeout, Cancelled, Finish, DeliverLate, LostAgain, WriterClosed, Reconnected,
       linkVars
  <2> QED
    BY <2>1, CancelPendingWakes DEF ConnectionLost
<1> QED
  BY <1>1, Invariance, PTL DEF Spec, LossEndsWaiting

\* Only the dispatch of an answer resolves a future.
LEMMA OnlyDispatchAnswers ==
  ASSUME IInv, Next, NEW c \in Callers, answer'[c] = "foreign", answer[c] # "foreign"
  PROVE  \/ \E d \in Callers : Deliver(d)
         \/ \E t \in Tids \cup {Simple} : DeliverLate(t)
<1>0. answer \in [Callers -> {"none", "own", "foreign"}]
  BY DEF IInv, TypeOK
<1> SUFFICES ASSUME NEW d \in Callers, CallerStep(d), ~Deliver(d) PROVE FALSE
  BY DEF Next, ConnectionLost, LostAgain, WriterClosed, Reconnected, callVars
<1>1. CASE SendOffline(d) \/ SendExtended(d) \/ SendSimple(d) \/ QueueSimple(d) \/ Acquire(d)
  BY <1>0, <1>1 DEF SendOffline, SendExtended, SendSimple, QueueSimple, Acquire, Attempt, Back
<1>2. CASE Expire(d) \/ Cancel(d)
  BY <1>0, <1>2 DEF Expire, Cancel, Back
<1>3. CASE Resume(d)
  BY <1>0, <1>3 DEF Resume, TakeAnswer, GiveUpOnLoss, Retry, RetryOffline, GiveUpOnTimeout,
     Cancelled, Finish, Attempt, Back
<1> QED
  BY <1>1, <1>2, <1>3 DEF CallerStep

\* A simple call is resolved by an answer that is not its own only while one to an
\* earlier simple call is under way (_simple_lock, _dispatch_frame).
THEOREM ForeignIsLate == Spec => ForeignOnlyWhenLate
<1>1. ASSUME IInv, Next, NEW c \in Callers, answer'[c] = "foreign", answer[c] # "foreign"
      PROVE  tid[c] = Simple /\ Simple \in late
  <2>0. TypeOK /\ Clean /\ NothingLeftBehind
    BY <1>1 DEF IInv
  <2>1. CASE \E d \in Callers : Deliver(d)
    <3>1. PICK d \in Callers : Deliver(d)
      BY <2>1
    <3>2. Registered(tid[d]) = c /\ c # d
      BY <1>1, <2>0, <3>1 DEF Deliver, Dispatch, TypeOK
    <3>3. pc[d] = "waiting" /\ tid[d] \in Tids \cup {Simple}
      BY <2>0, <3>1 DEF Deliver, Clean, TypeOK
    <3>4. tid[d] # Simple => Registered(tid[d]) \in {d, NoCaller}
      BY <1>1, <2>0, <3>3 DEF IInv, NothingLeftBehind, DistinctTids, Registered, TypeOK
    <3>5. tid[d] = Simple
      BY <3>2, <3>4, CallersAssumption
    <3>6. pc[c] = "waiting" /\ tid[c] = Simple
      BY <2>0, <3>2, <3>5, CallersAssumption DEF NothingLeftBehind, Registered
    <3> QED
      BY <1>1, <3>2, <3>3, <3>5, <3>6 DEF IInv, HoldsLock
  <2>2. CASE \E t \in Tids \cup {Simple} : DeliverLate(t)
    <3>1. PICK t \in Tids \cup {Simple} : DeliverLate(t)
      BY <2>2
    <3>2. Registered(t) = c /\ t \in late
      BY <1>1, <2>0, <3>1 DEF DeliverLate, Dispatch, TypeOK
    <3>3. pc[c] = "waiting" /\ tid[c] = t
      BY <2>0, <3>2, CallersAssumption DEF NothingLeftBehind, Registered, TypeOK
    <3> QED
      BY <1>1, <3>2, <3>3 DEF IInv, NotLate
  <2> QED
    BY <1>1, <2>1, <2>2, OnlyDispatchAnswers
<1>2. IInv /\ [Next]_vars =>
        [\A c \in Callers : answer'[c] = "foreign" /\ answer[c] # "foreign"
                            => tid[c] = Simple /\ Simple \in late]_vars
  BY <1>1
<1> QED
  BY <1>2, Invariance, PTL DEF Spec, ForeignOnlyWhenLate

\* The search for a free id ends whenever a call begins (_send_extended).
THEOREM SearchSucceeds == Spec => []FreeTidExists
<1>1. IInv => FreeTidExists
  BY SearchEnds DEF FreeTidExists
<1> QED
  BY <1>1, Invariance, PTL
================================================================================
