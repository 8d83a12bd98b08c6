-------------------------- MODULE AnswerStreamProofs ---------------------------
(****************************************************************************)
(* Theorems about AnswerStream, for any calls, commands and debris: it is   *)
(* an accumulator, so that what FrameAccumulatorProofs shows of one holds   *)
(* here; what is given to callers and handlers came in frames; what the     *)
(* builders of src/pyam3/protocol write the parsers read; and of a stream   *)
(* without debris every message is understood as it was meant.              *)
(****************************************************************************)
EXTENDS AnswerStream, FrameAccumulatorProofs, FiniteSetTheorems, WellFoundedInduction

--------------------------------------------------------------------------------
(* An accumulator.                                                          *)

\* What is sent through the accumulator is a stream that a connection may carry.
LEMMA StreamsAreCarried ==
  ASSUME NEW n \in 1..MaxItems, NEW items \in [1..n -> Items]
  PROVE  StreamOf(items) \in Streams
<1>1. items \in UNION {[1..m -> Items] : m \in 1..MaxItems}
  OBVIOUS
<1> QED
  BY <1>1, AnswerAssumption

\* A step here is a step of the accumulator, or none.
LEMMA AnswerStep == [AnswerNext]_answerVars => [Next]_vars
<1> SUFFICES ASSUME [AnswerNext]_answerVars PROVE [Next]_vars
  OBVIOUS
<1>1. ASSUME NEW n \in 1..MaxItems, NEW items \in [1..n -> Items], OpenWith(items)
      PROVE  Next
  BY <1>1, StreamsAreCarried DEF OpenWith, Next
<1>2. CASE ResetAll
  BY <1>2 DEF ResetAll, Next
<1>3. CASE Dispatch
  BY <1>3 DEF Dispatch, Next, Extract
<1>4. CASE Silent
  BY <1>4 DEF Silent, Next, Extract
<1>5. CASE UNCHANGED answerVars
  BY <1>5 DEF answerVars, vars
<1> QED
  BY <1>1, <1>2, <1>3, <1>4, <1>5 DEF AnswerNext

\* The way to a caller begins with an accumulator: every theorem about Spec is one about
\* AnswerSpec.
THEOREM IsAccumulator == AnswerSpec => Spec
<1>1. AnswerInit => Init
  BY DEF AnswerInit
<1> QED
  BY <1>1, AnswerStep, PTL DEF AnswerSpec, Spec

\* The accumulator on the way to the callers is the reader of the whole stream, keeps its
\* buffer short and holds nothing back.
THEOREM AnswersAreFramed ==
  AnswerSpec => ImplementsFraming /\ [](TypeOK /\ RestIsPartial)
  BY IsAccumulator, Refinement, TypeCorrect, LeavesPartial, PTL

--------------------------------------------------------------------------------
(* What is given of a frame.                                                *)

\* What there is to be given of r.
Heard(r) ==
  { [of |-> t, command |-> Asked[t].command, values |-> Answer(Asked[t].command, r)] : t \in Taker(r) }
Told(r) ==
  { [of |-> Event, command |-> c, values |-> EventData(c, r)] :
      c \in {d \in Commands : r[2] = 253 /\ LinkedAccepts(d, r)} }
Given(r) == {m \in Heard(r) \cup Told(r) : m.values # <<>>}

\* m was in r, which had the right check sum, and if m is an answer it was addressed to
\* the call that asked.
Sound(m, r) ==
  /\ IsWrapped(r) /\ SumRight(r)
  /\ IF m.of = Event
     THEN LinkedAccepts(m.command, r) /\ m.values = EventData(m.command, r)
     ELSE /\ m.of \in DOMAIN Asked /\ IsFor(r, m.of) /\ m.command = Asked[m.of].command
          /\ m.values = Answer(m.command, r)

\* A set is finite if a finite set is mapped onto it.
LEMMA ImageIsFinite ==
  ASSUME NEW S, IsFiniteSet(S), NEW T, NEW f \in [S -> T], \A y \in T : \E x \in S : f[x] = y
  PROVE  IsFiniteSet(T)
<1>1. f \in Surjection(S, T)
  BY DEF Surjection
<1> QED
  BY <1>1, FS_Surjection

\* A frame is addressed to one call at most, and none that has been answered.
LEMMA OneTaker ==
  ASSUME NEW r, NEW t \in Taker(r), NEW u \in Taker(r)
  PROVE  t = u /\ t \in DOMAIN Asked /\ t \notin done /\ t # Event /\ IsFor(r, t)
<1>1. /\ t \in DOMAIN Asked /\ u \in DOMAIN Asked /\ t \notin done
      /\ IsFor(r, t) /\ IsFor(r, u)
  BY DEF Taker
<1>2. t # Event
  BY <1>1, AnswerAssumption DEF Event
<1> QED
  BY <1>1, <1>2 DEF IsFor, Simple

\* There is something finite to be given of a frame.
LEMMA GivenIsFinite == ASSUME NEW r PROVE IsFiniteSet(Given(r))
<1>1. IsFiniteSet(Taker(r))
  <2>1. CASE Taker(r) = {}
    BY <2>1, FS_EmptySet
  <2>2. CASE Taker(r) # {}
    <3>1. PICK t \in Taker(r) : TRUE
      BY <2>2
    <3>2. Taker(r) = {t}
      BY <3>1, OneTaker
    <3> QED
      BY <3>2, FS_Singleton
  <2> QED
    BY <2>1, <2>2
<1>2. IsFiniteSet(Heard(r))
  <2> DEFINE f == [t \in Taker(r) |-> [of |-> t, command |-> Asked[t].command,
                                       values |-> Answer(Asked[t].command, r)]]
  <2>1. f \in [Taker(r) -> Heard(r)] /\ \A m \in Heard(r) : \E t \in Taker(r) : f[t] = m
    BY DEF Heard
  <2> HIDE DEF f
  <2> QED
    BY <1>1, <2>1, ImageIsFinite
<1>3. IsFiniteSet(Told(r))
  <2> DEFINE D == {d \in Commands : r[2] = 253 /\ LinkedAccepts(d, r)}
             f == [c \in D |-> [of |-> Event, command |-> c, values |-> EventData(c, r)]]
  <2>1. f \in [D -> Told(r)] /\ \A m \in Told(r) : \E c \in D : f[c] = m
    BY DEF Told
  <2>2. IsFiniteSet(D)
    BY AnswerAssumption, FS_Subset
  <2> HIDE DEF f, D
  <2> QED
    BY <2>1, <2>2, ImageIsFinite
<1>4. IsFiniteSet(Heard(r) \cup Told(r)) /\ Given(r) \in SUBSET (Heard(r) \cup Told(r))
  BY <1>2, <1>3, FS_Union DEF Given
<1> QED
  BY <1>4, FS_Subset

\* It is put in some order.
LEMMA UnderstoodIs ==
  ASSUME NEW r
  PROVE  /\ Understood(r) \in Seq(Given(r))
         /\ \A i, j \in 1..Len(Understood(r)) : Understood(r)[i] = Understood(r)[j] => i = j
<1> DEFINE n == Cardinality(Given(r))
<1>1. Understood(r) = SetToSeq(Given(r))
  BY DEF Understood, Given, Heard, Told
<1>2. n \in Nat /\ ExistsBijection(1..n, Given(r))
  BY GivenIsFinite, FS_CardinalityType
<1>3. \E f \in [1..n -> Given(r)] : IsInjective(f)
  BY <1>2 DEF ExistsBijection, Bijection, Injection
<1>4. Understood(r) \in [1..n -> Given(r)] /\ IsInjective(Understood(r))
  BY <1>1, <1>3 DEF SetToSeq
<1>5. Understood(r) \in Seq(Given(r)) /\ Len(Understood(r)) = n
  BY <1>2, <1>4
<1> QED
  BY <1>2, <1>4, <1>5 DEF IsInjective

\* What is given of a frame was in it.
LEMMA GivenIsSound == ASSUME NEW r, NEW m \in Given(r) PROVE Sound(m, r)
<1>1. CASE m \in Heard(r)
  <2>1. PICK t \in Taker(r) : m = [of |-> t, command |-> Asked[t].command,
                                   values |-> Answer(Asked[t].command, r)]
    BY <1>1 DEF Heard
  <2>2. t \in DOMAIN Asked /\ t # Event /\ IsFor(r, t)
    BY <2>1, OneTaker
  <2>3. m.of = t /\ m.command = Asked[t].command /\ m.values = Answer(m.command, r)
    BY <2>1
  <2>4. Answer(m.command, r) # <<>>
    BY <2>3 DEF Given
  <2>5. IsWrapped(r) /\ SumRight(r)
    BY <2>4 DEF Answer, SimpleAccepts, ExtendedAccepts
  <2> QED
    BY <2>2, <2>3, <2>5 DEF Sound
<1>2. CASE m \in Told(r)
  <2>1. PICK c \in Commands : /\ LinkedAccepts(c, r)
                              /\ m = [of |-> Event, command |-> c, values |-> EventData(c, r)]
    BY <1>2 DEF Told
  <2>2. m.of = Event /\ m.command = c /\ m.values = EventData(c, r)
    BY <2>1
  <2> QED
    BY <2>1, <2>2 DEF Sound, LinkedAccepts
<1> QED
  BY <1>1, <1>2 DEF Given

\* The answers given of one frame are one, to a call that had none.
LEMMA GivenOfOne ==
  ASSUME NEW r, NEW m \in Given(r), m.of # Event
  PROVE  m.of \in Taker(r) /\ m.of \notin done /\ \A k \in Given(r) : k.of = m.of => k = m
<1>1. ASSUME NEW k \in Given(r), k.of # Event
      PROVE  \E t \in Taker(r) : k = [of |-> t, command |-> Asked[t].command,
                                      values |-> Answer(Asked[t].command, r)]
  BY <1>1 DEF Given, Heard, Told
<1>2. PICK t \in Taker(r) : m = [of |-> t, command |-> Asked[t].command,
                                 values |-> Answer(Asked[t].command, r)]
  BY <1>1
<1>3. m.of = t
  BY <1>2
<1>4. ASSUME NEW k \in Given(r), k.of = m.of PROVE k = m
  <2>1. PICK u \in Taker(r) : k = [of |-> u, command |-> Asked[u].command,
                                   values |-> Answer(Asked[u].command, r)]
    BY <1>1, <1>4
  <2>2. u = t
    BY OneTaker
  <2> QED
    BY <1>2, <2>1, <2>2
<1> QED
  BY <1>2, <1>3, <1>4, OneTaker

--------------------------------------------------------------------------------
(* The inductive invariant.                                                 *)

\* What there may be to give.
Message ==
  [of : DOMAIN Asked, command : {Asked[t].command : t \in DOMAIN Asked},
   values : {Answer(Asked[t].command, r) : t \in DOMAIN Asked, r \in Seq(Byte)}]
  \cup
  [of : {Event}, command : Commands, values : {EventData(c, r) : c \in Commands, r \in Seq(Byte)}]

\* All that was given was in a frame.
GivenIsReceived == \A i \in 1..Len(got) : \E k \in 1..Len(frames) : Sound(got[i], frames[k])

\* A call that was given an answer is done, and was given one.
GivenIsDone ==
  /\ \A i \in 1..Len(got) : got[i].of # Event => got[i].of \in done
  /\ \A i, j \in 1..Len(got) : got[i].of = got[j].of /\ got[i].of # Event => i = j

AnswerInv == IInv /\ got \in Seq(Message) /\ GivenIsReceived /\ GivenIsDone

\* What is given of a frame is a message.
LEMMA GivenAreMessages == ASSUME NEW r \in Seq(Byte) PROVE Given(r) \subseteq Message
<1>1. ASSUME NEW m \in Heard(r) PROVE m \in Message
  <2>1. PICK t \in Taker(r) : m = [of |-> t, command |-> Asked[t].command,
                                   values |-> Answer(Asked[t].command, r)]
    BY DEF Heard
  <2>2. t \in DOMAIN Asked
    BY OneTaker
  <2> QED
    BY <2>1, <2>2 DEF Message
<1>2. ASSUME NEW m \in Told(r) PROVE m \in Message
  BY DEF Told, Message
<1> QED
  BY <1>1, <1>2 DEF Given

\* A frame that is dispatched is given to the call it is for, or to the handlers.
LEMMA DispatchStep ==
  ASSUME AnswerInv, Dispatch
  PROVE  got' \in Seq(Message) /\ GivenIsReceived' /\ GivenIsDone'
<1> DEFINE r == SubSeq(buf, 1, FrameLength(buf))
           u == Understood(r)
<1>1. /\ IsWhole(buf) /\ frames' = Append(frames, r)
      /\ frames \in Seq(Seq(Byte)) /\ got \in Seq(Message) /\ TypeOK
  BY DEF Dispatch, TakeFrame, AnswerInv, IInv, TypeOK
<1>2. r \in Seq(Byte)
  <2>1. FrameLength(buf) \in 0..Len(buf)
    BY <1>1, TakenIsThere
  <2> QED
    BY <1>1, <2>1, HeadOfBuf
<1> HIDE DEF r
<1>3. /\ Len(frames) \in Nat /\ Len(frames') = Len(frames) + 1 /\ frames'[Len(frames')] = r
      /\ \A k \in 1..Len(frames) : frames'[k] = frames[k]
  BY <1>1, <1>2
<1>4. done' = done \cup Taker(r) /\ got' = got \o u
  BY <1>3 DEF Dispatch
<1>5. u \in Seq(Given(r)) /\ \A i, j \in 1..Len(u) : u[i] = u[j] => i = j
  BY UnderstoodIs
<1>6. u \in Seq(Message)
  BY <1>2, <1>5, GivenAreMessages, SeqMonotonic
<1> HIDE DEF u
<1>7. /\ got' \in Seq(Message) /\ Len(got') = Len(got) + Len(u) /\ Len(got) \in Nat /\ Len(u) \in Nat
      /\ \A i \in 1..Len(got) + Len(u) : got'[i] = IF i <= Len(got) THEN got[i] ELSE u[i - Len(got)]
  BY <1>1, <1>4, <1>6, ConcatProperties, LenProperties
<1>8. \A i \in 1..Len(u) : u[i] \in Given(r)
  BY <1>5, ElementOfSeq
<1>9. ASSUME NEW i \in 1..Len(got')
      PROVE  \/ i \in 1..Len(got) /\ got'[i] = got[i]
             \/ i - Len(got) \in 1..Len(u) /\ got'[i] = u[i - Len(got)] /\ got'[i] \in Given(r)
  BY <1>7, <1>8
<1>10. GivenIsReceived'
  <2>1. ASSUME NEW i \in 1..Len(got') PROVE \E k \in 1..Len(frames') : Sound(got'[i], frames'[k])
    <3>1. CASE i \in 1..Len(got) /\ got'[i] = got[i]
      <4>1. PICK k \in 1..Len(frames) : Sound(got[i], frames[k])
        BY <3>1 DEF AnswerInv, GivenIsReceived
      <4>2. k \in 1..Len(frames') /\ frames'[k] = frames[k]
        BY <1>3
      <4> QED
        BY <3>1, <4>1, <4>2
    <3>2. CASE got'[i] \in Given(r)
      <4>1. Len(frames') \in 1..Len(frames')
        BY <1>3
      <4> QED
        BY <1>3, <3>2, <4>1, GivenIsSound
    <3> QED
      BY <1>9, <3>1, <3>2
  <2> QED
    BY <2>1 DEF GivenIsReceived, Sound
<1>11. ASSUME NEW i \in 1..Len(got'), got'[i].of # Event PROVE got'[i].of \in done'
  <2>1. CASE i \in 1..Len(got) /\ got'[i] = got[i]
    BY <1>4, <1>11, <2>1 DEF AnswerInv, GivenIsDone
  <2>2. CASE got'[i] \in Given(r)
    BY <1>4, <1>11, <2>2, GivenOfOne
  <2> QED
    BY <1>9, <2>1, <2>2
<1>12. ASSUME NEW i \in 1..Len(got'), NEW j \in 1..Len(got'),
              got'[i].of = got'[j].of, got'[i].of # Event
       PROVE  i = j
  <2>1. \A k \in 1..Len(got) : got[k].of # Event => got[k].of \in done
    BY DEF AnswerInv, GivenIsDone
  <2>2. \A m \in Given(r) : m.of # Event => m.of \notin done
    BY GivenOfOne
  <2>3. CASE i \in 1..Len(got) /\ got'[i] = got[i] /\ j \in 1..Len(got) /\ got'[j] = got[j]
    BY <1>12, <2>3 DEF AnswerInv, GivenIsDone
  <2>4. CASE i \in 1..Len(got) /\ got'[i] = got[i] /\ got'[j] \in Given(r)
    BY <1>12, <2>1, <2>2, <2>4
  <2>5. CASE got'[i] \in Given(r) /\ j \in 1..Len(got) /\ got'[j] = got[j]
    BY <1>12, <2>1, <2>2, <2>5
  <2>6. CASE /\ i - Len(got) \in 1..Len(u) /\ got'[i] = u[i - Len(got)] /\ got'[i] \in Given(r)
             /\ j - Len(got) \in 1..Len(u) /\ got'[j] = u[j - Len(got)] /\ got'[j] \in Given(r)
    <3>1. got'[j] = got'[i]
      BY <1>12, <2>6, GivenOfOne
    <3>2. i - Len(got) = j - Len(got)
      BY <1>5, <2>6, <3>1
    <3> QED
      BY <1>7, <3>2
  <2> QED
    BY <1>9, <2>3, <2>4, <2>5, <2>6
<1> QED
  BY <1>7, <1>10, <1>11, <1>12 DEF GivenIsDone

\* Nothing is given at the start.
LEMMA AnswerInitInv == AnswerInit => AnswerInv
<1> SUFFICES ASSUME AnswerInit PROVE AnswerInv
  OBVIOUS
<1>1. IInv
  BY InitInv DEF AnswerInit
<1>2. got \in Seq(Message) /\ Len(got) = 0
  BY EmptySeq DEF AnswerInit
<1> QED
  BY <1>1, <1>2 DEF AnswerInv, GivenIsReceived, GivenIsDone

\* Every step keeps the invariant.
LEMMA AnswerNextInv == AnswerInv /\ [AnswerNext]_answerVars => AnswerInv'
<1> SUFFICES ASSUME AnswerInv, [AnswerNext]_answerVars PROVE AnswerInv'
  OBVIOUS
<1>1. IInv'
  BY AnswerStep, NextInv DEF AnswerInv
<1>2. ASSUME UNCHANGED <<frames, done, got>> PROVE AnswerInv'
  BY <1>1, <1>2 DEF AnswerInv, GivenIsReceived, GivenIsDone, Sound
<1>3. ASSUME NEW items, OpenWith(items) PROVE UNCHANGED <<frames, done, got>>
  BY <1>3 DEF OpenWith, Open
<1>4. CASE ResetAll
  <2>1. got' \in Seq(Message) /\ Len(got') = 0
    BY <1>4, EmptySeq DEF ResetAll
  <2> QED
    BY <1>1, <2>1 DEF AnswerInv, GivenIsReceived, GivenIsDone
<1>5. CASE Dispatch
  BY <1>1, <1>5, DispatchStep DEF AnswerInv
<1>6. CASE Silent
  BY <1>2, <1>6 DEF Silent, Feed, ClearAll, Discard, TakeHeartbeat, Resync, Wait
<1>7. CASE UNCHANGED answerVars
  BY <1>2, <1>7 DEF answerVars, vars
<1> QED
  BY <1>2, <1>3, <1>4, <1>5, <1>6, <1>7 DEF AnswerNext

--------------------------------------------------------------------------------
(* Recursion, and sequences put one after the other.                        *)

\* Induction, with the property as the set of the numbers that have it.
LEMMA Induction ==
  ASSUME NEW P \in SUBSET Nat, 0 \in P, \A n \in P : n + 1 \in P
  PROVE  P = Nat
<1> SUFFICES ASSUME Nat \ P # {} PROVE FALSE
  OBVIOUS
<1> DEFINE R == OpToRel(<, Nat)
<1>1. IsWellFoundedOn(R, Nat)
  BY NatLessThanWellFounded
<1>2. \A m, k \in Nat : k < m => <<k, m>> \in R
  BY DEF OpToRel
<1> HIDE DEF R
<1>3. PICK m \in Nat \ P : \A k \in Nat \ P : ~(<<k, m>> \in R)
  <2>1. Nat \ P \subseteq Nat
    OBVIOUS
  <2> QED BY <1>1, <2>1, WFMin
<1>4. m # 0 /\ m \in Nat
  OBVIOUS
<1>5. m - 1 \in Nat /\ m - 1 < m
  BY <1>4
<1>6. m - 1 \in P
  BY <1>2, <1>3, <1>4, <1>5
<1>7. (m - 1) + 1 = m
  BY <1>4
<1> QED
  BY <1>6, <1>7

\* f begins with b and goes on with F.
Iterates(f, n, b, F) == f[0] = b /\ \A i \in 1..n : f[i] = F[i][f[i - 1]]

\* There is such a function.
LEMMA Recursion ==
  ASSUME NEW X, NEW n \in Nat, NEW b \in X, NEW F \in [1..n -> [X -> X]]
  PROVE  \E f \in [0..n -> X] : Iterates(f, n, b, F)
<1> DEFINE Upto(m) == \E f \in [0..m -> X] : f[0] = b /\ \A i \in 1..m : f[i] = F[i][f[i - 1]]
           P == {m \in Nat : m <= n => Upto(m)}
<1>1. 0 \in P
  <2> DEFINE g == [i \in 0..0 |-> b]
  <2>1. g \in [0..0 -> X] /\ g[0] = b /\ \A i \in 1..0 : g[i] = F[i][g[i - 1]]
    OBVIOUS
  <2>2. Upto(0)
    <3> HIDE DEF g
    <3> QED BY <2>1
  <2> QED
    BY <2>2
<1>2. ASSUME NEW m \in P PROVE m + 1 \in P
  <2> SUFFICES ASSUME m + 1 <= n PROVE Upto(m + 1)
    OBVIOUS
  <2>1. PICK f \in [0..m -> X] : f[0] = b /\ \A i \in 1..m : f[i] = F[i][f[i - 1]]
    OBVIOUS
  <2> DEFINE g == [i \in 0..m + 1 |-> IF i <= m THEN f[i] ELSE F[m + 1][f[m]]]
  <2>2. f[m] \in X /\ m + 1 \in 1..n
    OBVIOUS
  <2>3. F[m + 1][f[m]] \in X
    BY <2>2
  <2>4. g \in [0..m + 1 -> X]
    BY <2>3
  <2>5. g[0] = b
    BY <2>1
  <2>6. ASSUME NEW i \in 1..m + 1 PROVE g[i] = F[i][g[i - 1]]
    <3>1. i - 1 \in 0..m /\ g[i - 1] = f[i - 1]
      OBVIOUS
    <3>2. CASE i <= m
      BY <2>1, <3>1, <3>2
    <3>3. CASE i = m + 1
      BY <3>1, <3>3
    <3> QED
      BY <3>2, <3>3
  <2> HIDE DEF g
  <2> QED
    BY <2>4, <2>5, <2>6
<1>3. P = Nat
  <2> HIDE DEF P
  <2>1. P \in SUBSET Nat
    BY DEF P
  <2> QED
    BY <1>1, <1>2, <2>1, Induction
<1> QED
  BY <1>3 DEF Iterates

\* Two sequences, one after the other.
LEMMA Joined ==
  ASSUME NEW S, NEW s \in Seq(S), NEW t \in Seq(S)
  PROVE  /\ s \o t \in Seq(S) /\ Len(s) \in Nat /\ Len(t) \in Nat /\ Len(s \o t) = Len(s) + Len(t)
         /\ \A i \in 1..Len(s) : (s \o t)[i] = s[i]
         /\ \A i \in 1..Len(t) : (s \o t)[Len(s) + i] = t[i]
<1>1. Len(s) \in Nat /\ Len(t) \in Nat
  BY LenProperties
<1> DEFINE u == s \o t
<1>2. /\ u \in Seq(S) /\ Len(u) = Len(s) + Len(t)
      /\ \A i \in 1..Len(s) + Len(t) : u[i] = IF i <= Len(s) THEN s[i] ELSE t[i - Len(s)]
  BY ConcatProperties
<1> HIDE DEF u
<1>3. ASSUME NEW i \in 1..Len(s) PROVE u[i] = s[i]
  <2>1. i \in 1..Len(s) + Len(t) /\ i <= Len(s)
    BY <1>1
  <2> QED
    BY <1>2, <2>1
<1>4. ASSUME NEW i \in 1..Len(t) PROVE u[Len(s) + i] = t[i]
  <2>1. Len(s) + i \in 1..Len(s) + Len(t) /\ ~(Len(s) + i <= Len(s)) /\ (Len(s) + i) - Len(s) = i
    BY <1>1
  <2> QED
    BY <1>2, <2>1
<1> QED
  BY <1>1, <1>2, <1>3, <1>4 DEF u

\* f grows to the whole of n sequences, one at a time.
Growth(f, S, seqs, n) ==
  /\ f \in [0..n -> Seq(S)] /\ f[0] = <<>> /\ f[n] = FlattenSeq(seqs)
  /\ \A i \in 1..n : f[i] = f[i - 1] \o seqs[i]

\* FlattenSeq puts them together one at a time.
LEMMA FlattenGrows ==
  ASSUME NEW S, NEW seqs \in Seq(Seq(S)), NEW n, n = Len(seqs)
  PROVE  \E f : Growth(f, S, seqs, n)
<1> DEFINE F == [i \in 1..n |-> [x \in Seq(S) |-> x \o seqs[i]]]
<1>1. n \in Nat
  BY LenProperties
<1>2. \A i \in 1..n : seqs[i] \in Seq(S)
  BY ElementOfSeq
<1>3. F \in [1..n -> [Seq(S) -> Seq(S)]] /\ <<>> \in Seq(S)
  BY <1>2
<1>4. \E f \in [0..n -> Seq(S)] : Iterates(f, n, <<>>, F)
  <2> HIDE DEF F
  <2> QED
    BY <1>1, <1>3, Recursion
<1>5. PICK f \in [0..n -> Seq(S)] : f[0] = <<>> /\ \A i \in 1..n : f[i] = f[i - 1] \o seqs[i]
  <2>1. PICK f \in [0..n -> Seq(S)] : f[0] = <<>> /\ \A i \in 1..n : f[i] = F[i][f[i - 1]]
    BY <1>4 DEF Iterates
  <2>2. ASSUME NEW i \in 1..n PROVE f[i] = f[i - 1] \o seqs[i]
    <3>1. i - 1 \in 0..n /\ f[i - 1] \in Seq(S)
      BY <1>1
    <3> QED
      BY <2>1, <3>1
  <2> QED
    BY <2>1, <2>2
<1>6. ASSUME n = 0 PROVE FlattenSeq(seqs) = f[n]
  <2>1. FlattenSeq(seqs) = seqs /\ seqs = <<>>
    BY <1>6, EmptySeq DEF FlattenSeq
  <2> QED
    BY <1>5, <1>6, <2>1
<1>7. ASSUME n > 0 PROVE FlattenSeq(seqs) = f[n]
  <2> DEFINE flat == CHOOSE h : h = [i \in 1..n |-> IF i = 1 THEN seqs[i] ELSE h[i - 1] \o seqs[i]]
             g == [i \in 1..n |-> f[i]]
  <2>1. f[1] = seqs[1]
    <3>1. 1 \in 1..n /\ 1 - 1 = 0
      BY <1>1, <1>7
    <3>2. f[1] = <<>> \o seqs[1] /\ seqs[1] \in Seq(S)
      BY <1>2, <1>5, <3>1
    <3> QED
      BY <3>2, ConcatEmptySeq
  <2>2. \A i \in 1..n : g[i] = IF i = 1 THEN seqs[i] ELSE g[i - 1] \o seqs[i]
    <3>1. ASSUME NEW i \in 1..n, i # 1 PROVE g[i] = g[i - 1] \o seqs[i]
      <4>1. i - 1 \in 1..n
        BY <1>1, <3>1
      <4>2. g[i - 1] = f[i - 1] /\ g[i] = f[i]
        BY <4>1
      <4> QED
        BY <1>5, <4>2
    <3> QED
      BY <2>1, <3>1
  <2>3. flat = [i \in 1..n |-> IF i = 1 THEN seqs[i] ELSE flat[i - 1] \o seqs[i]]
    <3>1. g = [i \in 1..n |-> IF i = 1 THEN seqs[i] ELSE g[i - 1] \o seqs[i]]
      BY <2>2
    <3> HIDE DEF g
    <3> QED
      BY <3>1
  <2>4. FlattenSeq(seqs) = flat[n]
    BY <1>7 DEF FlattenSeq
  <2> HIDE DEF flat
  <2>5. ASSUME NEW i \in 1..n PROVE flat[i] = IF i = 1 THEN seqs[i] ELSE flat[i - 1] \o seqs[i]
    BY <2>3
  <2> DEFINE P == {m \in Nat : m + 1 <= n => flat[m + 1] = f[m + 1]}
  <2>6. 0 \in P
    <3>1. 1 \in 1..n /\ 0 + 1 = 1
      BY <1>1, <1>7
    <3>2. flat[1] = f[1]
      BY <2>1, <2>5, <3>1
    <3> QED
      BY <3>1, <3>2
  <2>7. ASSUME NEW m \in P PROVE m + 1 \in P
    <3>1. SUFFICES ASSUME (m + 1) + 1 <= n PROVE flat[(m + 1) + 1] = f[(m + 1) + 1]
      OBVIOUS
    <3> DEFINE i == (m + 1) + 1
    <3>2. i \in 1..n /\ i # 1 /\ i - 1 = m + 1 /\ m + 1 <= n
      BY <1>1, <3>1
    <3>3. flat[i - 1] = f[i - 1]
      BY <3>2
    <3> HIDE DEF i
    <3>4. flat[i] = flat[i - 1] \o seqs[i] /\ f[i] = f[i - 1] \o seqs[i]
      BY <1>5, <2>5, <3>2
    <3>5. flat[i] = f[i]
      BY <3>3, <3>4
    <3> QED
      BY <3>5 DEF i
  <2>8. flat[n] = f[n]
    <3>1. P \in SUBSET Nat
      OBVIOUS
    <3>2. P = Nat
      <4> HIDE DEF P
      <4> QED
        BY <2>6, <2>7, <3>1, Induction
    <3>3. n - 1 \in Nat /\ (n - 1) + 1 = n
      BY <1>1, <1>7
    <3>4. n - 1 \in P
      BY <3>2, <3>3
    <3>5. (n - 1) + 1 <= n => flat[(n - 1) + 1] = f[(n - 1) + 1]
      BY <3>4
    <3> QED
      BY <1>1, <3>3, <3>5
  <2> QED
    BY <2>4, <2>8
<1>8. FlattenSeq(seqs) = f[n]
  BY <1>1, <1>6, <1>7
<1> QED
  BY <1>5, <1>8 DEF Growth

\* at tells where each of the sequences ends when they are put one after the other.
Laid(at, seqs) ==
  /\ at \in [0..Len(seqs) -> Nat] /\ at[0] = 0
  /\ \A i \in 1..Len(seqs) : at[i] = at[i - 1] + Len(seqs[i])

\* A place in one of them is a place in the whole.
LEMMA Within ==
  ASSUME NEW a \in Nat, NEW l \in Nat, NEW b, NEW c \in Nat, b = a + l, b <= c, NEW j \in 1..l
  PROVE  a + j \in 1..c
OBVIOUS

\* They are found there.
LEMMA Flattened ==
  ASSUME NEW S, NEW seqs \in Seq(Seq(S)), NEW at, Laid(at, seqs)
  PROVE  /\ FlattenSeq(seqs) \in Seq(S) /\ Len(FlattenSeq(seqs)) = at[Len(seqs)]
         /\ \A i \in 1..Len(seqs) :
              /\ at[i] <= at[Len(seqs)]
              /\ \A j \in 1..Len(seqs[i]) : FlattenSeq(seqs)[at[i - 1] + j] = seqs[i][j]
<1>1. PICK n \in Nat : n = Len(seqs)
  BY LenProperties
<1>2. \A i \in 1..n : seqs[i] \in Seq(S) /\ Len(seqs[i]) \in Nat
  BY <1>1, ElementOfSeq, LenProperties
<1> PICK f : Growth(f, S, seqs, n)
  BY <1>1, FlattenGrows
<1>3. /\ f \in [0..n -> Seq(S)] /\ f[0] = <<>> /\ f[n] = FlattenSeq(seqs)
      /\ \A i \in 1..n : f[i] = f[i - 1] \o seqs[i]
  BY DEF Growth
<1>4. at \in [0..n -> Nat] /\ at[0] = 0 /\ \A i \in 1..n : at[i] = at[i - 1] + Len(seqs[i])
  BY <1>1 DEF Laid
<1> DEFINE Upto(m) == /\ Len(f[m]) = at[m]
                      /\ \A i \in 1..m : /\ at[i] <= at[m]
                                         /\ \A j \in 1..Len(seqs[i]) : f[m][at[i - 1] + j] = seqs[i][j]
           P == {m \in Nat : m <= n => Upto(m)}
<1>5. Upto(0)
  BY <1>3, <1>4, EmptySeq
<1>6. ASSUME NEW m \in Nat, m + 1 <= n, Upto(m) PROVE Upto(m + 1)
  <2>1. m + 1 \in 1..n /\ (m + 1) - 1 = m /\ m \in 0..n /\ m + 1 \in 0..n
    BY <1>6
  <2>2. f[m + 1] = f[m] \o seqs[m + 1] /\ f[m] \in Seq(S) /\ seqs[m + 1] \in Seq(S)
    BY <1>2, <1>3, <2>1
  <2> DEFINE s == f[m]
             t == seqs[m + 1]
             u == f[m + 1]
  <2>3. /\ Len(u) = Len(s) + Len(t) /\ Len(s) = at[m] /\ Len(s) \in Nat /\ Len(t) \in Nat
        /\ \A k \in 1..Len(s) : u[k] = s[k]
        /\ \A k \in 1..Len(t) : u[Len(s) + k] = t[k]
    <3>1. s \in Seq(S) /\ t \in Seq(S) /\ u = s \o t /\ Len(s) = at[m]
      BY <1>6, <2>2
    <3> HIDE DEF s, t, u
    <3>2. /\ Len(s \o t) = Len(s) + Len(t) /\ Len(s) \in Nat /\ Len(t) \in Nat
          /\ \A k \in 1..Len(s) : (s \o t)[k] = s[k]
          /\ \A k \in 1..Len(t) : (s \o t)[Len(s) + k] = t[k]
      <4>1. s \in Seq(S) /\ t \in Seq(S)
        BY <3>1
      <4> QED
        BY <4>1, Joined
    <3> QED
      BY <3>1, <3>2, Zenon
  <2>4. at[m + 1] = at[m] + Len(t) /\ at[m] \in Nat
    BY <1>4, <2>1
  <2>5. ASSUME NEW i \in 1..m
        PROVE  at[i] <= at[m + 1] /\ \A j \in 1..Len(seqs[i]) : u[at[i - 1] + j] = seqs[i][j]
    <3>1. i \in 1..n /\ i - 1 \in 0..n /\ i \in 0..n
      BY <2>1
    <3>2. at[i] = at[i - 1] + Len(seqs[i]) /\ at[i - 1] \in Nat /\ at[i] \in Nat /\ Len(seqs[i]) \in Nat
      BY <1>2, <1>4, <3>1
    <3>3. at[i] <= at[m] /\ \A j \in 1..Len(seqs[i]) : s[at[i - 1] + j] = seqs[i][j]
      BY <1>6
    <3>4. at[i] <= at[m + 1]
      <4>1. at[i] <= at[m] /\ at[i] \in Nat /\ Len(t) \in Nat
        BY <2>3, <3>2, <3>3
      <4> HIDE DEF t
      <4> QED
        BY <2>4, <4>1
    <3>5. ASSUME NEW j \in 1..Len(seqs[i]) PROVE u[at[i - 1] + j] = seqs[i][j]
      <4>1. at[i - 1] + j \in 1..at[m]
        <5>1. at[i] <= at[m]
          BY <3>3
        <5>2. at[i] = at[i - 1] + Len(seqs[i]) /\ at[i - 1] \in Nat /\ Len(seqs[i]) \in Nat
          BY <3>2
        <5>3. at[m] \in Nat
          BY <2>4
        <5> QED
          BY <5>1, <5>2, <5>3, Within
      <4>2. u[at[i - 1] + j] = s[at[i - 1] + j]
        BY <2>3, <4>1
      <4> QED
        BY <3>3, <4>2
    <3> QED
      BY <3>4, <3>5
  <2>6. ASSUME NEW i \in 1..m + 1
        PROVE  at[i] <= at[m + 1] /\ \A j \in 1..Len(seqs[i]) : u[at[i - 1] + j] = seqs[i][j]
    <3>1. CASE i \in 1..m
      BY <2>5, <3>1
    <3>2. CASE i = m + 1
      <4>1. at[i - 1] = Len(s) /\ seqs[i] = t /\ at[i] = at[m + 1] /\ at[m + 1] \in Nat
        BY <2>1, <2>3, <2>4, <3>2
      <4> HIDE DEF s, t, u
      <4> QED
        BY <2>3, <4>1
    <3> QED
      BY <3>1, <3>2
  <2>7. Len(u) = at[m + 1]
    BY <2>3, <2>4
  <2> QED
    BY <2>6, <2>7
<1> HIDE DEF Upto
<1>7. P = Nat
  <2>1. P \in SUBSET Nat /\ 0 \in P
    BY <1>5
  <2>2. ASSUME NEW m \in P PROVE m + 1 \in P
    <3>1. SUFFICES ASSUME m + 1 <= n PROVE Upto(m + 1)
      OBVIOUS
    <3>2. m <= n
      BY <3>1
    <3> QED
      BY <1>6, <3>1, <3>2
  <2> HIDE DEF P
  <2> QED
    BY <2>1, <2>2, Induction
<1>8. Upto(n)
  <2>1. n \in P
    BY <1>7
  <2> QED
    BY <2>1
<1>9. FlattenSeq(seqs) \in Seq(S)
  BY <1>3
<1> QED
  BY <1>1, <1>3, <1>8, <1>9 DEF Upto

\* They are laid somewhere.
LEMMA LaidExists ==
  ASSUME NEW S, NEW seqs \in Seq(Seq(S))
  PROVE  \E at : Laid(at, seqs)
<1> PICK f : Growth(f, S, seqs, Len(seqs))
  BY FlattenGrows
<1>1. /\ f \in [0..Len(seqs) -> Seq(S)] /\ f[0] = <<>>
      /\ \A i \in 1..Len(seqs) : f[i] = f[i - 1] \o seqs[i]
  BY DEF Growth
<1> DEFINE at == [i \in 0..Len(seqs) |-> Len(f[i])]
<1>2. at \in [0..Len(seqs) -> Nat] /\ at[0] = 0
  BY <1>1, EmptySeq
<1>3. ASSUME NEW i \in 1..Len(seqs) PROVE at[i] = at[i - 1] + Len(seqs[i])
  <2>1. i \in 0..Len(seqs) /\ i - 1 \in 0..Len(seqs) /\ seqs[i] \in Seq(S)
    OBVIOUS
  <2>2. f[i - 1] \in Seq(S) /\ f[i] = f[i - 1] \o seqs[i]
    BY <1>1, <2>1
  <2>3. Len(f[i]) = Len(f[i - 1]) + Len(seqs[i])
    BY <2>1, <2>2
  <2> QED BY <2>1, <2>3
<1> HIDE DEF at
<1> QED
  BY <1>2, <1>3 DEF Laid

--------------------------------------------------------------------------------
(* Fields.                                                                  *)

\* A value is read back from its bytes.
LEMMA FieldIsRead ==
  ASSUME NEW type \in FieldType, NEW v \in Int, Fit(type, v), NEW b, b = LittleEndian(v, Width(type))
  PROVE  /\ Width(type) \in Nat /\ b \in Seq(Byte) /\ Len(b) = Width(type)
         /\ Decode(type, b) = v
<1>1. \A x \in Int : x % 256 \in Byte
  BY DEF Byte
<1>2. CASE type \in {"uint8", "bool"}
  <2>1. Width(type) = 1 /\ v \in 0..255 /\ type # "sint16"
    BY <1>2, SMT DEF Width, Fit
  <2>2. b = <<(v \div 1) % 256>>
    BY <2>1 DEF LittleEndian
  <2>3. b = <<v>>
    BY <2>1, <2>2
  <2>4. Number(b) = v
    BY <2>3 DEF Number
  <2>5. b \in Seq(Byte) /\ Len(b) = 1
    <3>1. v \in Byte
      BY <2>1 DEF Byte
    <3> QED
      BY <2>3, <3>1
  <2>6. Decode(type, b) = v
    BY <2>1, <2>4 DEF Decode
  <2> QED
    BY <2>1, <2>5, <2>6
<1>3. CASE type \in {"uint16", "sint16"}
  <2>1. Width(type) = 2
    BY <1>3 DEF Width
  <2>2. b = <<(v \div 1) % 256, (v \div 256) % 256>>
    BY <2>1 DEF LittleEndian
  <2> DEFINE x == v % 256
             y == (v \div 256) % 256
  <2>3. b = <<x, y>> /\ x \in Byte /\ y \in Byte
    BY <1>1, <2>2
  <2> HIDE DEF x, y
  <2>4. Number(b) = x + 256 * y
    BY <2>3 DEF Number
  <2>5. ASSUME type = "uint16" PROVE Decode(type, b) = v
    <3>1. v \in Nat /\ v < 65536
      BY <2>5, SMT DEF Fit
    <3>2. x + 256 * y = v
      BY <3>1, SMT DEF x, y
    <3> QED
      BY <2>4, <2>5, <3>2 DEF Decode
  <2>6. ASSUME type = "sint16" PROVE Decode(type, b) = v
    <3>1. v >= -32768 /\ v < 32768
      BY <2>6, SMT DEF Fit
    <3>2. x + 256 * y = IF v >= 0 THEN v ELSE v + 65536
      BY <3>1, SMT DEF x, y
    <3> QED
      BY <2>4, <2>6, <3>1, <3>2, SMT DEF Decode
  <2>7. b \in Seq(Byte) /\ Len(b) = 2
    BY <2>3
  <2>8. Decode(type, b) = v
    BY <1>3, <2>5, <2>6
  <2> QED
    BY <2>1, <2>7, <2>8
<1>4. CASE type \in {"uint32", "tUnixTime"}
  <2>1. Width(type) = 4 /\ v \in Nat /\ v \div 16777216 < 256 /\ type # "sint16"
    BY <1>4, SMT DEF Width, Fit
  <2>2. b = <<(v \div 1) % 256, (v \div 256) % 256, (v \div 65536) % 256, (v \div 16777216) % 256>>
    BY <2>1, SMT DEF LittleEndian
  <2> DEFINE x == v % 256
             y == (v \div 256) % 256
             z == (v \div 65536) % 256
             u == (v \div 16777216) % 256
  <2>3. b = <<x, y, z, u>> /\ x \in Byte /\ y \in Byte /\ z \in Byte /\ u \in Byte
    BY <1>1, <2>1, <2>2, SMT
  <2>4. x + 256 * y + 65536 * z + 16777216 * u = v
    BY <2>1, SMT
  <2> HIDE DEF x, y, z, u
  <2>5. Number(b) = x + 256 * y + 65536 * z + 16777216 * u
    BY <2>3, SMT DEF Number
  <2>6. Decode(type, b) = v
    BY <2>1, <2>4, <2>5, SMT DEF Decode
  <2>7. b \in Seq(Byte) /\ Len(b) = 4
    BY <2>3
  <2> QED
    BY <2>1, <2>6, <2>7, SMT
<1> QED
  BY <1>2, <1>3, <1>4 DEF FieldType

\* The fields end one after the other.
LEMMA EndsAre ==
  ASSUME NEW types \in Seq(FieldType), NEW n, n = Len(types)
  PROVE  /\ Ends(types) \in [0..n -> Nat] /\ Ends(types)[0] = 0
         /\ \A i \in 1..n : Ends(types)[i] = Ends(types)[i - 1] + Width(types[i])
<1> DEFINE E == Ends(types)
           F == [i \in 1..n |-> [x \in Nat |-> x + Width(types[i])]]
<1>1. n \in Nat
  BY LenProperties
<1>2. \A i \in 1..n : types[i] \in FieldType /\ Width(types[i]) \in Nat
  <2>1. \A i \in 1..n : types[i] \in FieldType
    BY ElementOfSeq
  <2>2. \A type \in FieldType : Width(type) \in Nat
    BY DEF FieldType, Width
  <2> QED
    BY <2>1, <2>2
<1>3. PICK f \in [0..n -> Nat] : f[0] = 0 /\ \A i \in 1..n : f[i] = f[i - 1] + Width(types[i])
  <2>1. F \in [1..n -> [Nat -> Nat]]
    BY <1>2
  <2>2. PICK f \in [0..n -> Nat] : f[0] = 0 /\ \A i \in 1..n : f[i] = F[i][f[i - 1]]
    <3> HIDE DEF F
    <3>1. PICK f \in [0..n -> Nat] : Iterates(f, n, 0, F)
      BY <1>1, <2>1, Recursion
    <3> QED
      BY <3>1 DEF Iterates
  <2>3. ASSUME NEW i \in 1..n PROVE f[i] = f[i - 1] + Width(types[i])
    <3>1. i - 1 \in 0..n /\ f[i - 1] \in Nat
      BY <1>1
    <3> QED
      BY <2>2, <3>1
  <2> QED
    BY <2>2, <2>3
<1>4. E = [i \in 0..n |-> IF i = 0 THEN 0 ELSE E[i - 1] + Width(types[i])]
  <2>1. f = [i \in 0..n |-> IF i = 0 THEN 0 ELSE f[i - 1] + Width(types[i])]
    <3>1. ASSUME NEW i \in 0..n PROVE f[i] = IF i = 0 THEN 0 ELSE f[i - 1] + Width(types[i])
      <4>1. i # 0 => i \in 1..n
        BY <1>1
      <4> QED
        BY <1>3, <4>1
    <3> QED
      BY <3>1
  <2>2. E = CHOOSE e : e = [i \in 0..n |-> IF i = 0 THEN 0 ELSE e[i - 1] + Width(types[i])]
    BY DEF Ends
  <2> HIDE DEF E
  <2> QED
    BY <2>1, <2>2
<1> HIDE DEF E
<1>5. E[0] = 0 /\ \A i \in 1..n : E[i] = E[i - 1] + Width(types[i])
  <2>1. 0 \in 0..n /\ \A i \in 1..n : i \in 0..n /\ i # 0
    BY <1>1
  <2> QED
    BY <1>4, <2>1
<1> DEFINE P == {m \in Nat : m <= n => E[m] \in Nat}
<1>6. P = Nat
  <2>1. P \in SUBSET Nat /\ 0 \in P
    BY <1>5
  <2>2. ASSUME NEW m \in P PROVE m + 1 \in P
    <3>1. SUFFICES ASSUME m + 1 <= n PROVE E[m + 1] \in Nat
      OBVIOUS
    <3>2. m + 1 \in 1..n /\ (m + 1) - 1 = m /\ E[m] \in Nat
      BY <1>1, <3>1
    <3> QED
      BY <1>2, <1>5, <3>2
  <2> HIDE DEF P
  <2> QED
    BY <2>1, <2>2, Induction
<1>7. \A i \in 0..n : E[i] \in Nat
  BY <1>1, <1>6
<1>8. E \in [0..n -> Nat]
  BY <1>4, <1>7
<1> QED
  BY <1>5, <1>8 DEF E

\* The bytes of each value.
Pieces(types, values) == [i \in 1..Len(types) |-> LittleEndian(values[i], Width(types[i]))]

\* They are laid where Ends says, each as wide as its type, and are read back one by one.
LEMMA PiecesAreLaid ==
  ASSUME NEW types, NEW values, AllFit(types, values), NEW p, p = Pieces(types, values)
  PROVE  /\ p \in Seq(Seq(Byte)) /\ Len(p) = Len(types) /\ Laid(Ends(types), p)
         /\ \A i \in 1..Len(types) : Len(p[i]) = Width(types[i]) /\ Decode(types[i], p[i]) = values[i]
<1>1. PICK n \in Nat : n = Len(types) /\ n = Len(values)
  BY LenProperties DEF AllFit
<1>2. ASSUME NEW i \in 1..n
      PROVE  p[i] \in Seq(Byte) /\ Len(p[i]) = Width(types[i]) /\ Decode(types[i], p[i]) = values[i]
  <2>1. types[i] \in FieldType /\ values[i] \in Int /\ Fit(types[i], values[i])
    BY <1>1, ElementOfSeq DEF AllFit
  <2>2. p[i] = LittleEndian(values[i], Width(types[i]))
    BY <1>1 DEF Pieces
  <2> QED
    BY <2>1, <2>2, FieldIsRead
<1>3. p \in Seq(Seq(Byte)) /\ Len(p) = n
  <2>1. DOMAIN p = 1..n /\ p = [i \in 1..n |-> p[i]]
    BY <1>1 DEF Pieces
  <2>2. p \in [1..n -> Seq(Byte)]
    BY <1>2, <2>1
  <2> QED
    BY <2>2
<1>4. types \in Seq(FieldType)
  BY DEF AllFit
<1>5. Laid(Ends(types), p)
  BY <1>1, <1>2, <1>3, <1>4, EndsAre DEF Laid
<1> QED
  BY <1>1, <1>2, <1>3, <1>5

\* What prepare_payload_data writes of any fields, parse_data reads back, value by value.
THEOREM FieldsAreRead ==
  ASSUME NEW types, NEW values, AllFit(types, values), NEW data, data = Encoded(types, values)
  PROVE  /\ data \in Seq(Byte) /\ Len(data) = Length(types) /\ Len(data) \in Nat
         /\ Fits(types, data) /\ Fields(types, data) = values
<1> DEFINE p == Pieces(types, values)
           E == Ends(types)
<1>1. data = FlattenSeq(p)
  BY DEF Encoded, Pieces
<1>2. /\ p \in Seq(Seq(Byte)) /\ Len(p) = Len(types) /\ Laid(E, p)
      /\ \A i \in 1..Len(types) : Len(p[i]) = Width(types[i]) /\ Decode(types[i], p[i]) = values[i]
  BY PiecesAreLaid
<1> HIDE DEF p
<1>3. /\ data \in Seq(Byte) /\ Len(data) = E[Len(p)]
      /\ \A i \in 1..Len(p) :
           E[i] <= E[Len(p)] /\ \A j \in 1..Len(p[i]) : data[E[i - 1] + j] = p[i][j]
  BY <1>1, <1>2, Flattened
<1>4. PICK n \in Nat : n = Len(types) /\ n = Len(values) /\ n = Len(p)
  BY <1>2, LenProperties DEF AllFit
<1>5. E \in [0..n -> Nat] /\ \A i \in 1..n : E[i] = E[i - 1] + Len(p[i])
  BY <1>2, <1>4 DEF Laid
<1> HIDE DEF E
<1>6. ASSUME NEW i \in 1..n PROVE SubSeq(data, E[i - 1] + 1, E[i]) = p[i]
  <2> DEFINE a == E[i - 1]
             b == E[i]
             q == SubSeq(data, a + 1, b)
  <2>1. i - 1 \in 0..n /\ i \in 0..n /\ a \in Nat /\ b \in Nat
    BY <1>5
  <2>2. p[i] \in Seq(Byte) /\ Len(p[i]) \in Nat
    BY <1>2, <1>4, ElementOfSeq, LenProperties
  <2>3. b = a + Len(p[i]) /\ b <= Len(data) /\ \A j \in 1..Len(p[i]) : data[a + j] = p[i][j]
    BY <1>3, <1>4, <1>5
  <2> HIDE DEF a, b
  <2>4. a <= b /\ b - a = Len(p[i])
    BY <2>1, <2>2, <2>3
  <2>5. q \in Seq(Byte) /\ Len(q) = b - a /\ \A j \in 1..(b - a) : q[j] = data[a + j]
    BY <1>3, <2>1, <2>3, <2>4, Window
  <2> HIDE DEF q
  <2>6. q = p[i]
    BY <2>2, <2>3, <2>4, <2>5, SeqEqual
  <2> QED
    BY <2>6 DEF q, a, b
<1>7. Fields(types, data) = [i \in 1..n |-> values[i]]
  <2>1. Fields(types, data) = [i \in 1..n |-> Decode(types[i], SubSeq(data, E[i - 1] + 1, E[i]))]
    BY <1>4 DEF Fields, E
  <2> QED
    BY <1>2, <1>4, <1>6, <2>1
<1>8. values = [i \in 1..n |-> values[i]]
  BY <1>4, LenProperties DEF AllFit
<1>9. Len(data) = Length(types)
  BY <1>3, <1>4 DEF Length, E
<1> QED
  BY <1>3, <1>7, <1>8, <1>9, LenProperties DEF Fits

--------------------------------------------------------------------------------
(* Frames.                                                                  *)

\* Bytes are numbers.
LEMMA BytesAreInts == ASSUME NEW s \in Seq(Byte) PROVE s \in Seq(Int)
<1>1. Byte \subseteq Int
  BY DEF Byte
<1> QED
  BY <1>1, SeqMonotonic

\* A number in two bytes.
LEMMA TwoBytes ==
  ASSUME NEW v \in Nat
  PROVE  \E x, y \in Int : LittleEndian(v, 2) = <<x, y>> /\ (v < 65536 => x + 256 * y = v)
<1> DEFINE x == v % 256
           y == (v \div 256) % 256
<1>1. LittleEndian(v, 2) = <<(v \div 1) % 256, (v \div 256) % 256>>
  BY SMT DEF LittleEndian
<1>2. x \in Int /\ y \in Int /\ v \div 1 = v
  OBVIOUS
<1>3. v < 65536 => x + 256 * y = v
  BY SMT
<1> QED
  BY <1>1, <1>2, <1>3

\* Two numbers, and any numbers, are appended.
LEMMA PairAppended ==
  ASSUME NEW s \in Seq(Int), NEW k, k = Len(s), NEW x \in Int, NEW y \in Int, NEW u, u = s \o <<x, y>>
  PROVE  /\ u \in Seq(Int) /\ k + 2 = Len(u) /\ \A i \in 1..k : u[i] = s[i]
         /\ u[k + 1] = x /\ u[k + 2] = y
<1> DEFINE t == <<x, y>>
<1>1. t \in Seq(Int) /\ Len(t) = 2 /\ t[1] = x /\ t[2] = y
  OBVIOUS
<1>2. u = s \o t
  OBVIOUS
<1> HIDE DEF t
<1>3. /\ s \o t \in Seq(Int) /\ Len(s \o t) = Len(s) + Len(t) /\ Len(s) \in Nat
      /\ \A i \in 1..Len(s) : (s \o t)[i] = s[i]
      /\ \A i \in 1..Len(t) : (s \o t)[Len(s) + i] = t[i]
  <2>1. s \in Seq(Int) /\ t \in Seq(Int)
    BY <1>1
  <2> QED
    BY <2>1, Joined
<1>4. 1 \in 1..Len(t) /\ 2 \in 1..Len(t)
  BY <1>1
<1>5. u[k + 1] = t[1] /\ u[k + 2] = t[2]
  BY <1>2, <1>3, <1>4
<1>6. \A i \in 1..k : u[i] = s[i]
  BY <1>2, <1>3
<1> QED
  BY <1>1, <1>2, <1>3, <1>5, <1>6

\* The parts of a frame are where its parser looks for them.
Parts(r, head, data) ==
  /\ Len(r) = Len(head) + Len(data) + 3 /\ IsWrapped(r) /\ SumRight(r) /\ r[1] = 2
  /\ \A i \in 1..Len(head) : r[i + 1] = head[i]
  /\ SubSeq(r, Len(head) + 2, Len(r) - 2) = data

\* A frame has the parts it was made of.
LEMMA WrappedIs ==
  ASSUME NEW head \in Seq(Int), NEW data \in Seq(Int), NEW r, r = Wrapped(head \o data)
  PROVE  Parts(r, head, data)
<1> DEFINE h == Len(head)
           l == Len(data)
           body == head \o data
           sum == Crc(body)
           S == Int \cup {sum}
           first == <<2>> \o body
<1>1. /\ body \in Seq(Int) /\ h \in Nat /\ l \in Nat /\ Len(body) = h + l
      /\ \A i \in 1..h : body[i] = head[i]
      /\ \A i \in 1..l : body[h + i] = data[i]
  BY Joined
<1> HIDE DEF h, l
<1>2. r = first \o <<sum, 3>>
  BY DEF Wrapped
<1> HIDE DEF body, sum
<1>3. body \in Seq(S) /\ <<2>> \in Seq(S) /\ <<sum, 3>> \in Seq(S) /\ data \in Seq(S)
  BY <1>1, SeqMonotonic
<1> HIDE DEF S
<1>4. /\ first \in Seq(S) /\ Len(first) = 1 + Len(body)
      /\ \A i \in 1..1 : first[i] = <<2>>[i]
      /\ \A i \in 1..Len(body) : first[1 + i] = body[i]
  <2>1. Len(<<2>>) = 1
    OBVIOUS
  <2> QED
    BY <1>3, <2>1, Joined
<1> HIDE DEF first
<1>5. /\ r \in Seq(S) /\ Len(r) = Len(first) + 2
      /\ \A i \in 1..Len(first) : r[i] = first[i]
      /\ \A i \in 1..2 : r[Len(first) + i] = <<sum, 3>>[i]
  <2>1. Len(<<sum, 3>>) = 2
    OBVIOUS
  <2> QED
    BY <1>2, <1>3, <1>4, <2>1, Joined
<1>6. Len(first) = h + l + 1 /\ Len(r) = h + l + 3
  BY <1>1, <1>4, <1>5
<1>7. r[1] = 2 /\ r[h + l + 2] = sum /\ r[h + l + 3] = 3
  <2>1. 1 \in 1..1 /\ 1 \in 1..Len(first)
    BY <1>1, <1>6
  <2>2. r[1] = <<2>>[1]
    BY <1>4, <1>5, <2>1
  <2>3. 1 \in 1..2 /\ 2 \in 1..2 /\ Len(first) + 1 = h + l + 2 /\ Len(first) + 2 = h + l + 3
    BY <1>1, <1>6
  <2>4. r[Len(first) + 1] = <<sum, 3>>[1] /\ r[Len(first) + 2] = <<sum, 3>>[2]
    BY <1>5, <2>3
  <2> QED
    BY <2>2, <2>3, <2>4
<1>8. ASSUME NEW i \in 1..(h + l) PROVE r[i + 1] = body[i]
  <2>1. i \in 1..Len(body) /\ 1 + i \in 1..Len(first) /\ 1 + i = i + 1
    BY <1>1, <1>6
  <2> QED
    BY <1>4, <1>5, <2>1
<1>9. ASSUME NEW i \in 1..h PROVE r[i + 1] = head[i]
  <2>1. i \in 1..(h + l)
    BY <1>1
  <2> QED
    BY <1>1, <1>8, <2>1
<1>10. SubSeq(r, 2, Len(r) - 2) = body
  <2> DEFINE q == SubSeq(r, 2, Len(r) - 2)
  <2>1. Len(r) - 2 = h + l + 1 /\ \A i \in 2..(h + l + 1) : r[i] \in S
    BY <1>1, <1>5, <1>6, ElementOfSeq
  <2>2. /\ q \in Seq(S) /\ Len(q) = IF 2 <= h + l + 1 THEN (h + l + 1) - 2 + 1 ELSE 0
        /\ \A i \in 1..((h + l + 1) - 2 + 1) : q[i] = r[2 + i - 1]
    BY <1>1, <2>1, SubSeqProperties
  <2> HIDE DEF q
  <2>3. Len(q) = h + l /\ \A i \in 1..(h + l) : q[i] = r[i + 1]
    <3>1. (h + l + 1) - 2 + 1 = h + l /\ \A i \in 1..(h + l) : 2 + i - 1 = i + 1
      BY <1>1
    <3> QED
      BY <1>1, <2>2, <3>1
  <2>4. q = body
    BY <1>1, <1>3, <1>8, <2>2, <2>3, SeqEqual
  <2> QED
    BY <2>4 DEF q
<1>11. SubSeq(r, h + 2, Len(r) - 2) = data
  <2> DEFINE q == SubSeq(r, h + 2, Len(r) - 2)
  <2>1. Len(r) - 2 = h + l + 1 /\ \A i \in (h + 2)..(h + l + 1) : r[i] \in S
    BY <1>1, <1>5, <1>6, ElementOfSeq
  <2>2. /\ q \in Seq(S) /\ Len(q) = IF h + 2 <= h + l + 1 THEN (h + l + 1) - (h + 2) + 1 ELSE 0
        /\ \A i \in 1..((h + l + 1) - (h + 2) + 1) : q[i] = r[(h + 2) + i - 1]
    BY <1>1, <2>1, SubSeqProperties
  <2> HIDE DEF q
  <2>3. Len(q) = l
    BY <1>1, <2>2
  <2>4. ASSUME NEW i \in 1..l PROVE q[i] = data[i]
    <3>1. (h + l + 1) - (h + 2) + 1 = l /\ (h + 2) + i - 1 = (h + i) + 1 /\ h + i \in 1..(h + l)
      BY <1>1
    <3> QED
      BY <1>1, <1>8, <2>2, <3>1
  <2>5. q = data
    BY <1>3, <2>2, <2>3, <2>4, SeqEqual DEF l
  <2> QED
    BY <2>5 DEF q
<1>12. IsWrapped(r)
  BY <1>6, <1>7 DEF IsWrapped
<1>13. SumRight(r)
  <2>1. Len(r) - 1 = h + l + 2
    BY <1>1, <1>6
  <2> QED
    BY <1>7, <1>10, <2>1 DEF SumRight, sum
<1> QED
  BY <1>6, <1>7, <1>9, <1>11, <1>12, <1>13 DEF Parts, h, l

\* A frame whose length field counts its bytes, and that is no heartbeat, is whole.
LEMMA LengthIsKnown ==
  ASSUME NEW r, r[2] \in LongMarkers => Len(r) >= 4 /\ r[3] + 256 * r[4] + 4 = Len(r),
         r[2] \notin LongMarkers => r[3] + 5 = Len(r), Len(r) \in Nat, Len(r) >= 4, Len(r) <= MaxFrame,
         r[2] \notin LongMarkers => r[4] = 0
  PROVE  IsWhole(r) /\ FrameLength(r) = Len(r)
<1>1. LengthKnown(r) /\ FrameLength(r) = Len(r)
  BY DEF LengthKnown, FrameLength
<1>2. ~IsHeartbeat(r)
  <2>1. SUFFICES ASSUME IsHeartbeat(r) PROVE FALSE
    OBVIOUS
  <2>2. r[2] = Heartbeat[2] /\ r[4] = Heartbeat[4]
    BY <2>1, FramesAssumption, MessageAssumption DEF IsHeartbeat
  <2> QED
    BY <2>2, FramesAssumption, MessageAssumption
<1> QED
  BY <1>1, <1>2, FramesAssumption DEF IsWhole

--------------------------------------------------------------------------------
(* Messages.                                                                *)

\* There is nothing to put together of one.
LEMMA FlattenOne == ASSUME NEW x PROVE FlattenSeq([i \in 1..1 |-> x]) = x
<1> DEFINE s == [i \in 1..1 |-> x]
           flat == CHOOSE h : h = [i \in 1..1 |-> IF i = 1 THEN s[i] ELSE h[i - 1] \o s[i]]
<1>1. Len(s) = 1 /\ s[1] = x
  OBVIOUS
<1>2. FlattenSeq(s) = flat[1]
  BY <1>1 DEF FlattenSeq
<1>3. flat = [i \in 1..1 |-> IF i = 1 THEN s[i] ELSE flat[i - 1] \o s[i]]
  <2>1. s = [i \in 1..1 |-> IF i = 1 THEN s[i] ELSE s[i - 1] \o s[i]]
    OBVIOUS
  <2> HIDE DEF s
  <2> QED
    BY <2>1
<1> HIDE DEF flat
<1> QED
  BY <1>1, <1>2, <1>3

\* What is sent is bytes.
LEMMA ItemIsBytes == ASSUME NEW x \in Items PROVE ItemBytes(x) \in Seq(Byte)
<1> DEFINE items == [i \in 1..1 |-> x]
<1>1. 1 \in 1..MaxItems /\ items \in [1..1 -> Items]
  BY MessageAssumption
<1>2. StreamOf(items) = FlattenSeq([i \in 1..1 |-> ItemBytes(x)])
  <2>1. DOMAIN items = 1..1 /\ \A i \in 1..1 : ItemBytes(items[i]) = ItemBytes(x)
    OBVIOUS
  <2> HIDE DEF items
  <2>2. [i \in DOMAIN items |-> ItemBytes(items[i])] = [i \in 1..1 |-> ItemBytes(x)]
    BY <2>1
  <2> QED
    BY <2>2 DEF StreamOf
<1>3. StreamOf(items) \in Streams
  <2> HIDE DEF items
  <2> QED
    BY <1>1, StreamsAreCarried
<1> HIDE DEF items
<1> QED
  BY <1>2, <1>3, FlattenOne, StreamsAssumption

\* A message of the mower, and its bytes.
LEMMA Spoke ==
  ASSUME NEW m \in Spoken, NEW c, c = m.command, NEW data, data = Encoded(c.response, m.values)
  PROVE  /\ m = [of |-> m.of, command |-> c, values |-> m.values]
         /\ c \in Commands /\ c.major \in Nat /\ c.major < 32768 /\ c.minor \in Nat /\ c.minor < 65536
         /\ data \in Seq(Byte) /\ data \in Seq(Int) /\ Len(data) \in Nat
         /\ Fits(c.response, data) /\ Fields(c.response, data) = m.values /\ m.values # <<>>
         /\ Bytes(m) \in Seq(Byte) /\ Len(Bytes(m)) <= MaxFrame /\ m.of \in Int
<1>1. m \in [of : Int, command : Commands, values : Seq(Int)] /\ CanSay(m)
  BY MessageAssumption
<1>2. /\ c.response # <<>> /\ AllFit(c.response, m.values) /\ Len(Bytes(m)) <= MaxFrame
      /\ {c.major, c.minor} \subseteq Nat /\ c.major < 32768 /\ c.minor < 65536
  BY <1>1 DEF CanSay
<1>3. /\ data \in Seq(Byte) /\ Len(data) \in Nat
      /\ Fits(c.response, data) /\ Fields(c.response, data) = m.values
  BY <1>2, FieldsAreRead
<1>4. m.values # <<>>
  <2>1. c.response \in Seq(FieldType) /\ m.values \in Seq(Int) /\ Len(m.values) = Len(c.response)
    BY <1>2 DEF AllFit
  <2> QED
    BY <1>2, <2>1, EmptySeq
<1>5. Bytes(m) \in Seq(Byte)
  <2> DEFINE item == [of |-> "message", says |-> m]
  <2>1. item \in Items /\ ItemBytes(item) = Bytes(m)
    BY DEF Items, ItemBytes
  <2> HIDE DEF item
  <2> QED
    BY <2>1, ItemIsBytes
<1>6. data \in Seq(Int)
  BY <1>3, BytesAreInts
<1> QED
  BY <1>1, <1>2, <1>3, <1>4, <1>5, <1>6

\* The head of an extended request or answer, a number after the other.
IsExtendedHead(head, x, y, a, b, c, d, e) ==
  /\ head \in Seq(Int) /\ Len(head) = 8 /\ head[1] = 129 /\ head[2] = x /\ head[3] = y
  /\ head[4] = a /\ head[5] = b /\ head[6] = c /\ head[7] = d /\ head[8] = e

\* That is what the builders put together.
LEMMA ExtendedHead ==
  ASSUME NEW x \in Int, NEW y \in Int, NEW a \in Int, NEW b \in Int, NEW c \in Int, NEW d \in Int, NEW e \in Int
  PROVE  IsExtendedHead(<<129>> \o <<x, y>> \o <<a, b, c, d, e>>, x, y, a, b, c, d, e)
<1> DEFINE head == <<129>> \o <<x, y>> \o <<a, b, c, d, e>>
           s == <<129>> \o <<x, y>>
           t == <<a, b, c, d, e>>
<1>1. /\ s \in Seq(Int) /\ 1 + 2 = Len(s) /\ \A i \in 1..1 : s[i] = <<129>>[i]
      /\ s[1 + 1] = x /\ s[1 + 2] = y
  <2>1. <<129>> \in Seq(Int) /\ 1 = Len(<<129>>)
    OBVIOUS
  <2> QED
    BY <2>1, PairAppended
<1>2. Len(s) = 3 /\ s[1] = 129 /\ s[2] = x /\ s[3] = y
  <2> HIDE DEF s
  <2> QED
    BY <1>1
<1>3. t \in Seq(Int) /\ Len(t) = 5 /\ t[1] = a /\ t[2] = b /\ t[3] = c /\ t[4] = d /\ t[5] = e
  OBVIOUS
<1>4. head = s \o t
  OBVIOUS
<1> HIDE DEF s, t, head
<1>5. /\ head \in Seq(Int) /\ Len(head) = Len(s) + Len(t)
      /\ \A i \in 1..Len(s) : head[i] = s[i]
      /\ \A i \in 1..Len(t) : head[Len(s) + i] = t[i]
  <2>1. s \in Seq(Int) /\ t \in Seq(Int)
    BY <1>1, <1>3
  <2>2. /\ s \o t \in Seq(Int) /\ Len(s \o t) = Len(s) + Len(t)
        /\ \A i \in 1..Len(s) : (s \o t)[i] = s[i]
        /\ \A i \in 1..Len(t) : (s \o t)[Len(s) + i] = t[i]
    BY <2>1, Joined
  <2> QED
    BY <1>4, <2>2
<1>6. head[1] = s[1] /\ head[2] = s[2] /\ head[3] = s[3]
  BY <1>2, <1>5
<1>7. head[3 + 1] = t[1] /\ head[3 + 2] = t[2] /\ head[3 + 3] = t[3] /\ head[3 + 4] = t[4] /\ head[3 + 5] = t[5]
  BY <1>2, <1>3, <1>5
<1> QED
  BY <1>2, <1>3, <1>5, <1>6, <1>7 DEF IsExtendedHead, head

\* What the mower finds in a request.
LEMMA RequestIs ==
  ASSUME NEW m \in Spoken, m.of # Event, NEW c, c = m.command,
         NEW q, q = Request(c, Asked[m.of].args, m.of)
  PROVE  IF IsSimple(c)
         THEN q[2] = c.major
         ELSE q[2] = 129 /\ q[5] = m.of /\ q[6] = 128 + ((c.major \div 256) % 128) /\ q[7] = c.major % 256
<1> DEFINE args == Asked[m.of].args
           load == Payload(c, args)
           n == Length(c.request)
<1>1. c.major \in Nat /\ c.minor \in Nat /\ m.of \in Int
  BY Spoke
<1>2. load \in Seq(Int) /\ n \in Nat
  <2>1. AllFit(c.request, args)
    BY MessageAssumption DEF CanSay
  <2>2. load \in Seq(Byte) /\ n \in Nat
    BY <2>1, FieldsAreRead DEF Payload
  <2> QED
    BY <2>2, BytesAreInts
<1> HIDE DEF args, load, n
<1>3. ASSUME IsSimple(c) PROVE q[2] = c.major
  <2> DEFINE head == <<c.major, n + 1, c.minor>>
  <2>1. q = Wrapped(head \o load)
    BY <1>3 DEF Request, SimpleRequest, load, n, args
  <2>2. head \in Seq(Int) /\ Len(head) = 3 /\ head[1] = c.major
    BY <1>1, <1>2
  <2> HIDE DEF head
  <2>3. Parts(q, head, load)
    BY <1>2, <2>1, <2>2, WrappedIs
  <2>4. q[1 + 1] = head[1]
    BY <2>2, <2>3 DEF Parts
  <2> QED
    BY <2>2, <2>4
<1>4. ASSUME ~IsSimple(c)
      PROVE  q[2] = 129 /\ q[5] = m.of /\ q[6] = 128 + ((c.major \div 256) % 128) /\ q[7] = c.major % 256
  <2> DEFINE hi == 128 + ((c.major \div 256) % 128)
             lo == c.major % 256
             head == <<129>> \o LittleEndian(7 + n, 2) \o <<m.of, hi, lo, 1 + n, c.minor>>
  <2>1. q = Wrapped(head \o load)
    BY <1>4 DEF Request, ExtendedRequest, load, n, args
  <2>2. PICK x, y \in Int : LittleEndian(7 + n, 2) = <<x, y>>
    <3>1. 7 + n \in Nat
      BY <1>2
    <3> QED
      BY <3>1, TwoBytes
  <2>3. hi \in Int /\ lo \in Int
    BY <1>1
  <2> HIDE DEF hi, lo
  <2>4. /\ head \in Seq(Int) /\ Len(head) = 8
        /\ head[1] = 129 /\ head[4] = m.of /\ head[5] = hi /\ head[6] = lo
    <3>1. head = <<129>> \o <<x, y>> \o <<m.of, hi, lo, 1 + n, c.minor>>
      BY <2>2
    <3>2. 1 + n \in Int /\ c.minor \in Int /\ m.of \in Int
      BY <1>1, <1>2
    <3> HIDE DEF head
    <3>3. IsExtendedHead(<<129>> \o <<x, y>> \o <<m.of, hi, lo, 1 + n, c.minor>>, x, y, m.of, hi, lo, 1 + n, c.minor)
      BY <2>3, <3>2, ExtendedHead
    <3>4. IsExtendedHead(head, x, y, m.of, hi, lo, 1 + n, c.minor)
      BY <3>1, <3>3, Zenon
    <3> QED
      BY <3>4 DEF IsExtendedHead
  <2> HIDE DEF head
  <2>5. Parts(q, head, load)
    BY <1>2, <2>1, <2>4, WrappedIs
  <2>6. q[1 + 1] = head[1] /\ q[4 + 1] = head[4] /\ q[5 + 1] = head[5] /\ q[6 + 1] = head[6]
    BY <2>4, <2>5 DEF Parts
  <2> QED
    BY <2>4, <2>6 DEF hi, lo
<1> QED
  BY <1>3, <1>4

\* r is a frame that is understood as m by those it is for, and by no one else.
Meant(r, m) ==
  /\ r[1] = STX /\ IsWhole(r) /\ FrameLength(r) = Len(r)
  /\ IF m.of = Event
     THEN /\ r[2] = 253 /\ \A t : ~IsFor(r, t)
          /\ \A d \in Commands : LinkedAccepts(d, r) <=> d = m.command
          /\ EventData(m.command, r) = m.values
     ELSE /\ r[2] # 253 /\ \A t : IsFor(r, t) <=> t = m.of
          /\ Answer(m.command, r) = m.values

\* An answer to a simple request.
LEMMA SimpleAnswerIs ==
  ASSUME NEW m \in Spoken, m.of # Event, IsSimple(m.command), NEW r, r = Bytes(m)
  PROVE  Meant(r, m)
<1> DEFINE c == m.command
           data == Encoded(c.response, m.values)
           L == Len(data)
           q == Request(c, Asked[m.of].args, m.of)
           head == <<q[2] + 1, 1 + L, 0>>
<1>1. /\ c.major \in Nat /\ data \in Seq(Int) /\ L \in Nat
      /\ Fits(c.response, data) /\ Fields(c.response, data) = m.values
      /\ r \in Seq(Byte) /\ Len(r) <= MaxFrame
  BY Spoke
<1>2. q[2] = c.major /\ c.major < 127
  BY RequestIs DEF IsSimple
<1>3. m.of = Simple
  BY MessageAssumption DEF CanSay
<1>4. r = Wrapped(head \o data)
  <2>1. q[2] # 129
    BY <1>1, <1>2
  <2> QED
    BY <2>1 DEF Bytes, ReplyTo
<1>5. head \in Seq(Int) /\ Len(head) = 3 /\ head[1] = c.major + 1 /\ head[2] = 1 + L /\ head[3] = 0
  BY <1>1, <1>2
<1> HIDE DEF c, data, L, q, head
<1>6. Parts(r, head, data)
  BY <1>1, <1>4, <1>5, WrappedIs
<1>7. r[1 + 1] = head[1] /\ r[2 + 1] = head[2] /\ r[3 + 1] = head[3]
  BY <1>5, <1>6 DEF Parts
<1>8. /\ r[1] = 2 /\ r[2] = c.major + 1 /\ r[3] = 1 + L /\ r[4] = 0 /\ Len(r) = L + 6
      /\ IsWrapped(r) /\ SumRight(r) /\ SubSeq(r, 5, Len(r) - 2) = data
  BY <1>1, <1>5, <1>6, <1>7 DEF Parts, L
<1>9. IsWhole(r) /\ FrameLength(r) = Len(r) /\ r[1] = STX
  <2>1. r[2] \notin LongMarkers /\ r[3] + 5 = Len(r) /\ Len(r) >= 4 /\ Len(r) \in Nat
    BY <1>1, <1>2, <1>8, MessageAssumption
  <2>2. /\ r[2] \in LongMarkers => Len(r) >= 4 /\ r[3] + 256 * r[4] + 4 = Len(r)
        /\ r[2] \notin LongMarkers => r[3] + 5 = Len(r) /\ r[4] = 0
        /\ Len(r) \in Nat /\ Len(r) >= 4 /\ Len(r) <= MaxFrame
    BY <1>1, <1>8, <2>1
  <2>3. IsWhole(r) /\ FrameLength(r) = Len(r)
    BY <2>2, LengthIsKnown
  <2> QED
    BY <1>8, <2>3, MessageAssumption
<1>10. r[2] # 253 /\ \A t : IsFor(r, t) <=> t = m.of
  BY <1>1, <1>2, <1>3, <1>8 DEF IsFor
<1>11. Answer(c, r) = m.values
  <2>1. r[3] - 1 = Len(r) - 6 /\ r[2] - 1 = c.major
    BY <1>1, <1>8
  <2>2. SimpleAccepts(c, r)
    BY <1>1, <1>8, <2>1 DEF SimpleAccepts
  <2>3. IsSimple(c)
    BY DEF c
  <2> QED
    BY <1>1, <1>8, <2>2, <2>3 DEF Answer
<1> QED
  BY <1>9, <1>10, <1>11 DEF Meant, c

\* The two bytes of a type, with the highest bit set.
LEMMA TypeNumber ==
  ASSUME NEW v \in Nat, v < 32768
  PROVE  /\ 128 + ((v \div 256) % 128) \in Int /\ v % 256 \in Int /\ 128 + ((v \div 256) % 128) >= 128
         /\ 256 * (128 + ((v \div 256) % 128)) + (v % 256) = 32768 + v
<1> DEFINE a == v \div 256
<1>1. a \in Nat /\ a < 128 /\ v % 256 \in Int /\ 256 * a + (v % 256) = v
  BY SMT
<1> HIDE DEF a
<1>2. a % 128 = a
  BY <1>1, SMT
<1>3. 128 + (a % 128) \in Int /\ 128 + (a % 128) >= 128 /\ 256 * (128 + (a % 128)) + (v % 256) = 32768 + v
  BY <1>1, <1>2, SMT
<1> QED
  BY <1>1, <1>3 DEF a

\* Without the highest bit.
LEMMA LowBits == ASSUME NEW v \in Nat, v < 32768 PROVE (32768 + v) % 32768 = v
BY SMT

\* An answer to an extended request.
LEMMA ExtendedAnswerIs ==
  ASSUME NEW m \in Spoken, m.of # Event, ~IsSimple(m.command), NEW r, r = Bytes(m)
  PROVE  Meant(r, m)
<1> DEFINE c == m.command
           data == Encoded(c.response, m.values)
           L == Len(data)
           q == Request(c, Asked[m.of].args, m.of)
           hi == 128 + ((c.major \div 256) % 128)
           lo == c.major % 256
           head == <<129>> \o LittleEndian(7 + L, 2) \o <<q[5], q[6], q[7] + 1, 1 + L, 0>>
<1>1. /\ c.major \in Nat /\ c.major < 32768 /\ data \in Seq(Int) /\ L \in Nat /\ m.of \in Int
      /\ Fits(c.response, data) /\ Fields(c.response, data) = m.values
      /\ r \in Seq(Byte) /\ Len(r) <= MaxFrame
  BY Spoke
<1>2. q[2] = 129 /\ q[5] = m.of /\ q[6] = hi /\ q[7] = lo
  BY RequestIs
<1>3. hi \in Int /\ lo \in Int /\ hi >= 128 /\ 256 * hi + lo = 32768 + c.major
  <2>1. PICK v \in Nat : v = c.major /\ v < 32768
    BY <1>1
  <2>2. /\ 128 + ((v \div 256) % 128) \in Int /\ v % 256 \in Int /\ 128 + ((v \div 256) % 128) >= 128
        /\ 256 * (128 + ((v \div 256) % 128)) + (v % 256) = 32768 + v
    BY <2>1, TypeNumber
  <2>3. hi = 128 + ((v \div 256) % 128) /\ lo = v % 256
    BY <2>1
  <2> HIDE DEF hi, lo
  <2> QED
    BY <2>1, <2>2, <2>3
<1>4. r = Wrapped(head \o data)
  BY <1>2 DEF Bytes, ReplyTo
<1> HIDE DEF c, data, L, q, hi, lo
<1>5. PICK x, y \in Int : LittleEndian(7 + L, 2) = <<x, y>> /\ (7 + L < 65536 => x + 256 * y = 7 + L)
  <2>1. 7 + L \in Nat
    BY <1>1
  <2> QED
    BY <2>1, TwoBytes
<1>6. /\ head \in Seq(Int) /\ Len(head) = 8 /\ head[1] = 129 /\ head[2] = x /\ head[3] = y
      /\ head[4] = m.of /\ head[5] = hi /\ head[6] = lo + 1 /\ head[7] = 1 + L /\ head[8] = 0
  <2>1. head = <<129>> \o <<x, y>> \o <<m.of, hi, lo + 1, 1 + L, 0>>
    <3> DEFINE s == <<q[5], q[6], q[7] + 1, 1 + L, 0>>
               t == <<m.of, hi, lo + 1, 1 + L, 0>>
    <3>1. s = t
      BY <1>2
    <3>2. head = <<129>> \o LittleEndian(7 + L, 2) \o s
      OBVIOUS
    <3> HIDE DEF s, t, head
    <3>3. head = <<129>> \o <<x, y>> \o t
      <4>1. LittleEndian(7 + L, 2) = <<x, y>>
        BY <1>5
      <4> QED
        BY <3>1, <3>2, <4>1, Zenon
    <3> QED
      BY <3>3 DEF t
  <2>2. lo + 1 \in Int /\ 1 + L \in Int /\ 0 \in Int
    BY <1>1, <1>3
  <2>3. m.of \in Int /\ hi \in Int
    BY <1>1, <1>3
  <2> HIDE DEF head
  <2>4. IsExtendedHead(<<129>> \o <<x, y>> \o <<m.of, hi, lo + 1, 1 + L, 0>>, x, y, m.of, hi, lo + 1, 1 + L, 0)
    BY <2>2, <2>3, ExtendedHead
  <2>5. IsExtendedHead(head, x, y, m.of, hi, lo + 1, 1 + L, 0)
    BY <2>1, <2>4, Zenon
  <2> QED
    BY <2>5 DEF IsExtendedHead
<1> HIDE DEF head
<1>7. Parts(r, head, data)
  BY <1>1, <1>4, <1>6, WrappedIs
<1>8. /\ r[1 + 1] = head[1] /\ r[2 + 1] = head[2] /\ r[3 + 1] = head[3] /\ r[4 + 1] = head[4]
      /\ r[5 + 1] = head[5] /\ r[6 + 1] = head[6] /\ r[8 + 1] = head[8]
  BY <1>6, <1>7 DEF Parts
<1>9. /\ r[1] = 2 /\ r[2] = 129 /\ r[3] = x /\ r[4] = y /\ r[5] = m.of /\ r[6] = hi /\ r[7] = lo + 1 /\ r[9] = 0
      /\ Len(r) = L + 11 /\ IsWrapped(r) /\ SumRight(r) /\ SubSeq(r, 10, Len(r) - 2) = data
  BY <1>1, <1>6, <1>7, <1>8 DEF Parts, L
<1>10. x + 256 * y = L + 7
  <2>1. 7 + L < 65536
    BY <1>1, <1>9, MessageAssumption, FramesAssumption
  <2> QED
    BY <1>1, <1>5, <2>1
<1>11. IsWhole(r) /\ FrameLength(r) = Len(r) /\ r[1] = STX
  <2>1. r[2] \in LongMarkers /\ r[3] + 256 * r[4] + 4 = Len(r) /\ Len(r) >= 4 /\ Len(r) \in Nat
    BY <1>1, <1>9, <1>10, MessageAssumption
  <2>2. /\ r[2] \in LongMarkers => Len(r) >= 4 /\ r[3] + 256 * r[4] + 4 = Len(r)
        /\ r[2] \notin LongMarkers => r[3] + 5 = Len(r) /\ r[4] = 0
        /\ Len(r) \in Nat /\ Len(r) >= 4 /\ Len(r) <= MaxFrame
    BY <1>1, <1>9, <2>1
  <2>3. IsWhole(r) /\ FrameLength(r) = Len(r)
    BY <2>2, LengthIsKnown
  <2> QED
    BY <1>9, <2>3, MessageAssumption
<1>12. r[2] # 253 /\ \A t : IsFor(r, t) <=> t = m.of
  BY <1>1, <1>9 DEF IsFor
<1>13. Answer(c, r) = m.values
  <2>1. r[3] + 256 * r[4] = Len(r) - 4 /\ Len(r) >= 9 /\ r[6] # 127
    BY <1>1, <1>3, <1>9, <1>10
  <2>2. MsgType(r[6], r[7]) - 1 = c.major
    <3>1. lo # 255
      <4>1. 7 \in 1..Len(r)
        BY <1>1, <1>9
      <4>2. r[7] \in Byte
        BY <1>1, <4>1, ElementOfSeq
      <4> QED
        BY <1>3, <1>9, <4>2 DEF Byte
    <3>2. 256 * hi + (lo + 1) = 32768 + (c.major + 1) /\ c.major + 1 < 32768
      <4>1. c.major # 32767
        BY <3>1 DEF lo
      <4> QED
        BY <1>1, <1>3, <4>1
    <3>3. (32768 + (c.major + 1)) % 32768 = c.major + 1
      <4>1. c.major + 1 \in Nat /\ c.major + 1 < 32768
        BY <1>1, <3>2
      <4> QED
        BY <4>1, LowBits
    <3> QED
      BY <1>1, <1>9, <3>2, <3>3 DEF MsgType
  <2>3. ExtendedAccepts(c, r)
    <3>1. Fits(c.response, SubSeq(r, 10, Len(r) - 2))
      <4>1. SubSeq(r, 10, Len(r) - 2) = data /\ Fits(c.response, data)
        BY <1>1, <1>9
      <4> QED
        BY <4>1, Zenon
    <3>2. r[2] = 129 /\ r[9] = 0 /\ IsWrapped(r) /\ SumRight(r)
      BY <1>9
    <3> QED
      BY <2>1, <2>2, <3>1, <3>2 DEF ExtendedAccepts
  <2>4. ~IsSimple(c)
    BY DEF c
  <2> QED
    <3>1. Fields(c.response, SubSeq(r, 10, Len(r) - 2)) = m.values
      <4>1. SubSeq(r, 10, Len(r) - 2) = data /\ Fields(c.response, data) = m.values
        BY <1>1, <1>9
      <4> QED
        BY <4>1, Zenon
    <3> QED
      BY <2>3, <2>4, <3>1 DEF Answer
<1> QED
  BY <1>11, <1>12, <1>13 DEF Meant, c

\* u is s and two numbers.
Appended(u, s, k, x, y) ==
  /\ u \in Seq(Int) /\ k + 2 = Len(u) /\ \A i \in 1..k : u[i] = s[i]
  /\ u[k + 1] = x /\ u[k + 2] = y

\* Two numbers are appended.
LEMMA IsAppended ==
  ASSUME NEW s \in Seq(Int), NEW x \in Int, NEW y \in Int
  PROVE  Appended(s \o <<x, y>>, s, Len(s), x, y)
BY PairAppended DEF Appended

\* The head of an event, a number after the other.
IsEventHead(head, x, y, a, b, c, d) ==
  /\ head \in Seq(Int) /\ Len(head) = 16 /\ head[1] = 253 /\ head[2] = x /\ head[3] = y /\ head[10] = 2
  /\ head[11] = a /\ head[12] = b /\ head[13] = c /\ head[14] = d

\* That is what the mower puts together.
LEMMA EventHead ==
  ASSUME NEW x \in Int, NEW y \in Int, NEW a \in Int, NEW b \in Int, NEW c \in Int, NEW d \in Int,
         NEW e \in Int, NEW f \in Int
  PROVE  IsEventHead(<<253>> \o <<x, y>> \o <<0, 0, 0, 0, 1, 254, 2>> \o <<a, b>> \o <<c, d>> \o <<e, f>>,
                     x, y, a, b, c, d)
<1> DEFINE s == <<253>> \o <<x, y>>
           t == <<0, 0, 0, 0, 1, 254, 2>>
           u == s \o t
           v == u \o <<a, b>>
           w == v \o <<c, d>>
           head == w \o <<e, f>>
<1>1. /\ s \in Seq(Int) /\ 1 + 2 = Len(s) /\ \A i \in 1..1 : s[i] = <<253>>[i]
      /\ s[1 + 1] = x /\ s[1 + 2] = y
  <2>1. <<253>> \in Seq(Int) /\ 1 = Len(<<253>>)
    OBVIOUS
  <2> QED
    BY <2>1, PairAppended
<1>2. t \in Seq(Int) /\ Len(t) = 7 /\ t[7] = 2
  OBVIOUS
<1> HIDE DEF s, t
<1>3. /\ u \in Seq(Int) /\ Len(u) = Len(s) + Len(t)
      /\ \A i \in 1..Len(s) : u[i] = s[i]
      /\ \A i \in 1..Len(t) : u[Len(s) + i] = t[i]
  <2>1. s \in Seq(Int) /\ t \in Seq(Int)
    BY <1>1, <1>2
  <2> QED
    BY <2>1, Joined
<1> HIDE DEF u
<1>4. Len(u) = 10 /\ u[1] = 253 /\ u[2] = x /\ u[3] = y /\ u[10] = 2
  <2>1. u[1] = s[1] /\ u[2] = s[2] /\ u[3] = s[3] /\ u[3 + 7] = t[7] /\ Len(u) = 10
    <3>1. Len(s) = 3 /\ Len(t) = 7
      BY <1>1, <1>2
    <3>2. 1 \in 1..Len(s) /\ 2 \in 1..Len(s) /\ 3 \in 1..Len(s) /\ 7 \in 1..Len(t)
      BY <3>1
    <3>3. u[1] = s[1] /\ u[2] = s[2] /\ u[3] = s[3] /\ u[Len(s) + 7] = t[7]
      BY <1>3, <3>2
    <3> QED
      BY <1>3, <3>1, <3>3
  <2>2. s[1] = 253 /\ s[2] = x /\ s[3] = y
    BY <1>1
  <2> QED
    BY <1>2, <2>1, <2>2
<1>5. /\ v \in Seq(Int) /\ 10 + 2 = Len(v) /\ \A i \in 1..10 : v[i] = u[i]
      /\ v[10 + 1] = a /\ v[10 + 2] = b
  <2>1. u \in Seq(Int) /\ 10 = Len(u)
    BY <1>3, <1>4
  <2>2. u \in Seq(Int)
    BY <2>1
  <2>3. Appended(u \o <<a, b>>, u, Len(u), a, b)
    BY <2>2, IsAppended
  <2>4. Appended(v, u, Len(u), a, b)
    BY <2>3
  <2>5. Len(u) = 10
    BY <2>1
  <2> HIDE DEF v
  <2> QED
    BY <2>4, <2>5 DEF Appended
<1> HIDE DEF v
<1>6. /\ w \in Seq(Int) /\ 12 + 2 = Len(w) /\ \A i \in 1..12 : w[i] = v[i]
      /\ w[12 + 1] = c /\ w[12 + 2] = d
  <2>1. v \in Seq(Int) /\ 12 = Len(v)
    BY <1>5
  <2>2. v \in Seq(Int)
    BY <2>1
  <2>3. Appended(v \o <<c, d>>, v, Len(v), c, d)
    BY <2>2, IsAppended
  <2>4. Appended(w, v, Len(v), c, d)
    BY <2>3
  <2>5. Len(v) = 12
    BY <2>1
  <2> HIDE DEF w
  <2> QED
    BY <2>4, <2>5 DEF Appended
<1> HIDE DEF w
<1>7. /\ head \in Seq(Int) /\ 14 + 2 = Len(head) /\ \A i \in 1..14 : head[i] = w[i]
      /\ head[14 + 1] = e /\ head[14 + 2] = f
  <2>1. w \in Seq(Int) /\ 14 = Len(w)
    BY <1>6
  <2>2. w \in Seq(Int)
    BY <2>1
  <2>3. Appended(w \o <<e, f>>, w, Len(w), e, f)
    BY <2>2, IsAppended
  <2>4. Appended(head, w, Len(w), e, f)
    BY <2>3
  <2>5. Len(w) = 14
    BY <2>1
  <2> HIDE DEF head
  <2> QED
    BY <2>4, <2>5 DEF Appended
<1>8. head = <<253>> \o <<x, y>> \o <<0, 0, 0, 0, 1, 254, 2>> \o <<a, b>> \o <<c, d>> \o <<e, f>>
  BY DEF s, t, u, v, w
<1> HIDE DEF head
<1>9. /\ head[1] = 253 /\ head[2] = x /\ head[3] = y /\ head[10] = 2
      /\ head[11] = a /\ head[12] = b /\ head[13] = c /\ head[14] = d /\ Len(head) = 16
  <2>1. /\ head[1] = w[1] /\ head[2] = w[2] /\ head[3] = w[3] /\ head[10] = w[10] /\ head[11] = w[11]
        /\ head[12] = w[12] /\ head[13] = w[13] /\ head[14] = w[14] /\ Len(head) = 16
    BY <1>7
  <2>2. /\ w[1] = v[1] /\ w[2] = v[2] /\ w[3] = v[3] /\ w[10] = v[10] /\ w[11] = v[11] /\ w[12] = v[12]
        /\ w[13] = c /\ w[14] = d
    BY <1>6
  <2>3. /\ v[1] = u[1] /\ v[2] = u[2] /\ v[3] = u[3] /\ v[10] = u[10] /\ v[11] = a /\ v[12] = b
    BY <1>5
  <2> QED
    BY <1>4, <2>1, <2>2, <2>3
<1>10. IsEventHead(head, x, y, a, b, c, d)
  BY <1>7, <1>9 DEF IsEventHead
<1> QED
  BY <1>8, <1>10, Zenon

\* An event.
LEMMA EventIs ==
  ASSUME NEW m \in Spoken, m.of = Event, NEW r, r = Bytes(m)
  PROVE  Meant(r, m)
<1> DEFINE c == m.command
           data == Encoded(c.response, m.values)
           L == Len(data)
           head == <<253>> \o LittleEndian(15 + L, 2) \o <<0, 0, 0, 0, 1, 254, 2>>
                   \o LittleEndian(c.major, 2) \o LittleEndian(c.minor, 2) \o LittleEndian(L, 2)
<1>1. /\ c.major \in Nat /\ c.major < 32768 /\ c.minor \in Nat /\ c.minor < 65536
      /\ data \in Seq(Int) /\ L \in Nat /\ c \in Commands
      /\ Fits(c.response, data) /\ Fields(c.response, data) = m.values
      /\ r \in Seq(Byte) /\ Len(r) <= MaxFrame
  BY Spoke
<1>2. c.event
  BY MessageAssumption DEF CanSay
<1>3. r = Wrapped(head \o data)
  BY DEF Bytes, EventFrame
<1> HIDE DEF c, data, L
<1> DEFINE Pair(v) == \E x, y \in Int : LittleEndian(v, 2) = <<x, y>> /\ (v < 65536 => x + 256 * y = v)
<1>4. Pair(15 + L) /\ Pair(c.major) /\ Pair(c.minor) /\ Pair(L)
  <2>1. 15 + L \in Nat
    BY <1>1
  <2>2. c.major \in Nat /\ c.minor \in Nat /\ L \in Nat
    BY <1>1
  <2>3. \A v \in Nat : Pair(v)
    BY TwoBytes
  <2> HIDE DEF Pair
  <2> QED
    BY <2>1, <2>2, <2>3
<1>5. PICK x, y \in Int : LittleEndian(15 + L, 2) = <<x, y>> /\ (15 + L < 65536 => x + 256 * y = 15 + L)
  BY <1>4
<1>6. PICK a, b \in Int : LittleEndian(c.major, 2) = <<a, b>> /\ (c.major < 65536 => a + 256 * b = c.major)
  BY <1>4
<1>7. PICK p, q \in Int : LittleEndian(c.minor, 2) = <<p, q>> /\ (c.minor < 65536 => p + 256 * q = c.minor)
  BY <1>4
<1>8. PICK e, f \in Int : LittleEndian(L, 2) = <<e, f>>
  BY <1>4
<1>9. a + 256 * b = c.major /\ p + 256 * q = c.minor
  BY <1>1, <1>6, <1>7
<1>10. IsEventHead(head, x, y, a, b, p, q)
  <2>1. /\ LittleEndian(15 + L, 2) = <<x, y>> /\ LittleEndian(c.major, 2) = <<a, b>>
        /\ LittleEndian(c.minor, 2) = <<p, q>> /\ LittleEndian(L, 2) = <<e, f>>
    BY <1>5, <1>6, <1>7, <1>8
  <2>2. head = <<253>> \o <<x, y>> \o <<0, 0, 0, 0, 1, 254, 2>> \o <<a, b>> \o <<p, q>> \o <<e, f>>
    BY <2>1
  <2> HIDE DEF head
  <2>3. IsEventHead(<<253>> \o <<x, y>> \o <<0, 0, 0, 0, 1, 254, 2>> \o <<a, b>> \o <<p, q>> \o <<e, f>>,
                    x, y, a, b, p, q)
    BY EventHead
  <2> QED
    BY <2>2, <2>3, Zenon
<1> HIDE DEF head
<1>11. /\ head \in Seq(Int) /\ Len(head) = 16 /\ head[1] = 253 /\ head[2] = x /\ head[3] = y /\ head[10] = 2
       /\ head[11] = a /\ head[12] = b /\ head[13] = p /\ head[14] = q
  BY <1>10 DEF IsEventHead
<1>12. Parts(r, head, data)
  BY <1>1, <1>3, <1>11, WrappedIs
<1>13. /\ r[1 + 1] = head[1] /\ r[2 + 1] = head[2] /\ r[3 + 1] = head[3] /\ r[10 + 1] = head[10]
       /\ r[11 + 1] = head[11] /\ r[12 + 1] = head[12] /\ r[13 + 1] = head[13] /\ r[14 + 1] = head[14]
  BY <1>11, <1>12 DEF Parts
<1>14. /\ r[1] = 2 /\ r[2] = 253 /\ r[3] = x /\ r[4] = y /\ r[11] = 2
       /\ r[12] = a /\ r[13] = b /\ r[14] = p /\ r[15] = q
       /\ Len(r) = L + 19 /\ IsWrapped(r) /\ SumRight(r) /\ SubSeq(r, 18, Len(r) - 2) = data
  BY <1>1, <1>11, <1>12, <1>13 DEF Parts, L
<1>15. x + 256 * y = L + 15
  <2>1. 15 + L < 65536
    BY <1>1, <1>14, MessageAssumption, FramesAssumption
  <2> QED
    BY <1>1, <1>5, <2>1
<1>16. IsWhole(r) /\ FrameLength(r) = Len(r) /\ r[1] = STX
  <2>1. r[2] \in LongMarkers /\ r[3] + 256 * r[4] + 4 = Len(r) /\ Len(r) >= 4 /\ Len(r) \in Nat
    BY <1>1, <1>14, <1>15, MessageAssumption
  <2>2. /\ r[2] \in LongMarkers => Len(r) >= 4 /\ r[3] + 256 * r[4] + 4 = Len(r)
        /\ r[2] \notin LongMarkers => r[3] + 5 = Len(r) /\ r[4] = 0
        /\ Len(r) \in Nat /\ Len(r) >= 4 /\ Len(r) <= MaxFrame
    BY <1>1, <1>14, <2>1
  <2>3. IsWhole(r) /\ FrameLength(r) = Len(r)
    BY <2>2, LengthIsKnown
  <2> QED
    BY <1>14, <2>3, MessageAssumption
<1>17. r[2] = 253 /\ \A t : ~IsFor(r, t)
  BY <1>14 DEF IsFor
<1>18. SubSeq(r, 18, Len(r) - 2) = data /\ Fits(c.response, data) /\ Fields(c.response, data) = m.values
  BY <1>1, <1>14
<1>19. EventData(c, r) = m.values
  BY <1>18, Zenon DEF EventData
<1>20. ASSUME NEW d \in Commands PROVE LinkedAccepts(d, r) <=> d = c
  <2>1. r[12] + 256 * r[13] = c.major /\ r[14] + 256 * r[15] = c.minor
    BY <1>9, <1>14
  <2>2. LinkedAccepts(d, r) => d = c
    <3>1. SUFFICES ASSUME LinkedAccepts(d, r) PROVE d = c
      OBVIOUS
    <3>2. d.major = c.major /\ d.minor = c.minor /\ d.event
      BY <2>1, <3>1 DEF LinkedAccepts, EventCommands
    <3> QED
      BY <1>1, <1>2, <3>2, MessageAssumption DEF c
  <2>3. LinkedAccepts(c, r)
    <3>1. c \in EventCommands(r[12] + 256 * r[13], r[14] + 256 * r[15])
      BY <1>1, <1>2, <2>1 DEF EventCommands, c
    <3>2. r[3] + 256 * r[4] = Len(r) - 4 /\ Len(r) >= 19
      BY <1>1, <1>14, <1>15
    <3>3. Fits(c.response, SubSeq(r, 18, Len(r) - 2))
      BY <1>18, Zenon
    <3> QED
      BY <1>14, <3>1, <3>2, <3>3 DEF LinkedAccepts
  <2> QED
    BY <2>2, <2>3
<1> QED
  BY <1>16, <1>17, <1>19, <1>20 DEF Meant, c

\* Every message of the mower is a frame, and is understood as it was meant by those it
\* is for: builders and parsers of src/pyam3/protocol agree on the layout.
THEOREM MeansItself ==
  ASSUME NEW m \in Spoken
  PROVE  Meant(Bytes(m), m)
BY SimpleAnswerIs, ExtendedAnswerIs, EventIs

--------------------------------------------------------------------------------
(* What is understood, and what is due.                                     *)

\* What is understood of a frame with one thing to be given, or nothing.
LEMMA OneUnderstood ==
  ASSUME NEW r
  PROVE  /\ Given(r) = {} => Understood(r) = <<>>
         /\ \A m : Given(r) = {m} => Understood(r) = <<m>>
<1> DEFINE u == Understood(r)
<1>1. u = SetToSeq(Given(r))
  BY DEF Understood, Given, Heard, Told
<1>2. Cardinality(Given(r)) \in Nat /\ ExistsBijection(1..Cardinality(Given(r)), Given(r))
  BY GivenIsFinite, FS_CardinalityType
<1>3. \E f \in [1..Cardinality(Given(r)) -> Given(r)] : IsInjective(f)
  BY <1>2 DEF ExistsBijection, Bijection, Injection
<1>4. u \in [1..Cardinality(Given(r)) -> Given(r)]
  BY <1>1, <1>3 DEF SetToSeq
<1> HIDE DEF u
<1>5. ASSUME Given(r) = {} PROVE u = <<>>
  <2>1. Cardinality(Given(r)) = 0
    BY <1>5, FS_EmptySet
  <2>2. u \in Seq(Given(r)) /\ Len(u) = 0
    BY <1>4, <2>1
  <2> QED
    BY <2>2, EmptySeq
<1>6. ASSUME NEW m, Given(r) = {m} PROVE u = <<m>>
  <2>1. Cardinality(Given(r)) = 1
    BY <1>6, FS_Singleton
  <2>2. u \in [1..1 -> {m}]
    BY <1>4, <1>6, <2>1
  <2> QED
    BY <2>2
<1> QED
  BY <1>5, <1>6 DEF u

\* A message of the mower is given to the call it answers, the first time, or to the
\* handlers, and nothing else is given of its frame.
LEMMA MeantIsUnderstood ==
  ASSUME NEW m \in Spoken, NEW r, Meant(r, m)
  PROVE  /\ Understood(r) = IF m.of = Event \/ m.of \notin done THEN <<m>> ELSE <<>>
         /\ Taker(r) = IF m.of = Event THEN {} ELSE {m.of} \ done
<1>1. /\ m = [of |-> m.of, command |-> m.command, values |-> m.values]
      /\ m.values # <<>> /\ m.command \in Commands
  BY Spoke
<1>2. CASE m.of = Event
  <2>1. /\ r[2] = 253 /\ \A t : ~IsFor(r, t)
        /\ \A d \in Commands : LinkedAccepts(d, r) <=> d = m.command
        /\ EventData(m.command, r) = m.values
    BY <1>2 DEF Meant
  <2>2. Taker(r) = {}
    BY <2>1 DEF Taker
  <2>3. Heard(r) = {}
    BY <2>2 DEF Heard
  <2>4. Told(r) = {m}
    <3>1. {d \in Commands : r[2] = 253 /\ LinkedAccepts(d, r)} = {m.command}
      BY <1>1, <2>1
    <3>2. Told(r) = {[of |-> Event, command |-> c, values |-> EventData(c, r)] : c \in {m.command}}
      BY <3>1 DEF Told
    <3>3. [of |-> Event, command |-> m.command, values |-> EventData(m.command, r)] = m
      BY <1>1, <1>2, <2>1
    <3> QED
      BY <3>2, <3>3
  <2>5. Given(r) = {m}
    BY <1>1, <2>3, <2>4 DEF Given
  <2>6. Understood(r) = <<m>>
    BY <2>5, OneUnderstood
  <2> QED
    BY <1>2, <2>2, <2>6
<1>3. CASE m.of # Event
  <2>1. /\ r[2] # 253 /\ \A t : IsFor(r, t) <=> t = m.of
        /\ Answer(m.command, r) = m.values
    BY <1>3 DEF Meant
  <2>2. m.of \in DOMAIN Asked /\ m.command = Asked[m.of].command
    BY <1>3, MessageAssumption DEF CanSay
  <2>3. Taker(r) = {m.of} \ done
    BY <2>1, <2>2 DEF Taker
  <2>4. Told(r) = {}
    BY <2>1 DEF Told
  <2>5. ASSUME m.of \in done PROVE Understood(r) = <<>>
    <3>1. Taker(r) = {}
      BY <2>3, <2>5
    <3>2. Heard(r) = {}
      BY <3>1 DEF Heard
    <3>3. Given(r) = {}
      BY <2>4, <3>2 DEF Given
    <3> QED
      BY <3>3, OneUnderstood
  <2>6. ASSUME m.of \notin done PROVE Understood(r) = <<m>>
    <3>1. Taker(r) = {m.of}
      BY <2>3, <2>6
    <3>2. Heard(r) = {[of |-> t, command |-> Asked[t].command, values |-> Answer(Asked[t].command, r)] : t \in {m.of}}
      BY <3>1 DEF Heard
    <3>3. [of |-> m.of, command |-> Asked[m.of].command, values |-> Answer(Asked[m.of].command, r)] = m
      BY <1>1, <2>1, <2>2
    <3>4. Heard(r) = {m}
      BY <3>2, <3>3
    <3>5. Given(r) = {m}
      BY <1>1, <2>4, <3>4 DEF Given
    <3> QED
      BY <3>5, OneUnderstood
  <2> QED
    BY <1>3, <2>3, <2>5, <2>6
<1> QED
  BY <1>2, <1>3

\* What is due grows by the messages that are due.
DueGrows(items, n) ==
  /\ DueOf(items) \in [0..n -> Seq(Spoken)] /\ DueOf(items)[0] = <<>>
  /\ \A k \in 1..n :
       IF IsDue(items, k)
       THEN items[k].says \in Spoken /\ DueOf(items)[k] = Append(DueOf(items)[k - 1], items[k].says)
       ELSE DueOf(items)[k] = DueOf(items)[k - 1]

\* The recursion of DueOf is one.
LEMMA DueIs ==
  ASSUME NEW items \in Seq(Items)
  PROVE  DueGrows(items, Len(items))
<1> DEFINE D == DueOf(items)
           n == Len(items)
           X == Seq(Spoken)
           F == [k \in 1..n |-> [x \in X |-> IF IsDue(items, k) THEN Append(x, items[k].says) ELSE x]]
<1>1. n \in Nat
  BY LenProperties
<1>2. ASSUME NEW k \in 1..n, IsDue(items, k) PROVE items[k].says \in Spoken
  <2>1. items[k] \in Items /\ items[k].of = "message"
    BY <1>2, ElementOfSeq DEF IsDue
  <2> QED
    BY <2>1 DEF Items
<1>3. PICK f \in [0..n -> X] :
        f[0] = <<>> /\ \A k \in 1..n : f[k] = IF IsDue(items, k) THEN Append(f[k - 1], items[k].says) ELSE f[k - 1]
  <2>1. \A k \in 1..n : \A x \in X : (IF IsDue(items, k) THEN Append(x, items[k].says) ELSE x) \in X
    <3>1. ASSUME NEW k \in 1..n, NEW x \in X, IsDue(items, k) PROVE Append(x, items[k].says) \in X
      <4>1. items[k].says \in Spoken
        BY <1>2, <3>1
      <4> QED
        BY <4>1, AppendProperties
    <3> QED
      BY <3>1
  <2>2. F \in [1..n -> [X -> X]] /\ <<>> \in X
    <3> HIDE DEF X
    <3>1. <<>> \in X
      BY EmptySeq DEF X
    <3> QED
      BY <2>1, <3>1
  <2>3. PICK f \in [0..n -> X] : f[0] = <<>> /\ \A k \in 1..n : f[k] = F[k][f[k - 1]]
    <3> HIDE DEF F, X
    <3>1. PICK f \in [0..n -> X] : Iterates(f, n, <<>>, F)
      BY <1>1, <2>2, Recursion
    <3> QED
      BY <3>1 DEF Iterates
  <2> HIDE DEF X
  <2>4. ASSUME NEW k \in 1..n
        PROVE  f[k] = IF IsDue(items, k) THEN Append(f[k - 1], items[k].says) ELSE f[k - 1]
    <3>1. k - 1 \in 0..n /\ f[k - 1] \in X
      BY <1>1
    <3> QED
      BY <2>3, <3>1
  <2> QED
    BY <2>3, <2>4
<1> HIDE DEF X, F
<1>4. D = [k \in 0..n |-> IF k = 0 THEN <<>>
                         ELSE IF IsDue(items, k) THEN Append(D[k - 1], items[k].says) ELSE D[k - 1]]
  <2>1. f = [k \in 0..n |-> IF k = 0 THEN <<>>
                          ELSE IF IsDue(items, k) THEN Append(f[k - 1], items[k].says) ELSE f[k - 1]]
    <3>1. ASSUME NEW k \in 0..n
          PROVE  f[k] = IF k = 0 THEN <<>>
                        ELSE IF IsDue(items, k) THEN Append(f[k - 1], items[k].says) ELSE f[k - 1]
      <4>1. k # 0 => k \in 1..n
        BY <1>1
      <4> QED
        BY <1>3, <4>1
    <3> QED
      BY <3>1
  <2>2. D = CHOOSE e : e = [k \in 0..n |-> IF k = 0 THEN <<>>
                                         ELSE IF IsDue(items, k) THEN Append(e[k - 1], items[k].says) ELSE e[k - 1]]
    BY DEF DueOf
  <2> HIDE DEF D
  <2> QED
    BY <2>1, <2>2
<1> HIDE DEF D
<1>5. /\ D[0] = <<>>
      /\ \A k \in 1..n : D[k] = IF IsDue(items, k) THEN Append(D[k - 1], items[k].says) ELSE D[k - 1]
  <2>1. 0 \in 0..n /\ \A k \in 1..n : k \in 0..n /\ k # 0
    BY <1>1
  <2> QED
    BY <1>4, <2>1
<1> DEFINE P == {m \in Nat : m <= n => D[m] = f[m]}
<1>6. P = Nat
  <2>1. P \in SUBSET Nat /\ 0 \in P
    BY <1>3, <1>5
  <2>2. ASSUME NEW m \in P PROVE m + 1 \in P
    <3>1. SUFFICES ASSUME m + 1 <= n PROVE D[m + 1] = f[m + 1]
      OBVIOUS
    <3>2. m + 1 \in 1..n /\ (m + 1) - 1 = m /\ D[m] = f[m]
      BY <1>1, <3>1
    <3> QED
      BY <1>3, <1>5, <3>2
  <2> HIDE DEF P
  <2> QED
    BY <2>1, <2>2, Induction
<1>7. \A k \in 0..n : D[k] = f[k]
  BY <1>1, <1>6
<1>8. D \in [0..n -> X]
  <2>1. \A k \in 0..n : D[k] \in X
    BY <1>3, <1>7
  <2> QED
    BY <1>4, <2>1
<1> QED
  BY <1>2, <1>5, <1>8 DEF D, X, DueGrows

\* s tells which items the messages q were, none of them twice.
SentAs(items, q, k) ==
  \E s \in [1..Len(q) -> 1..k] :
    /\ \A i, j \in 1..Len(q) : s[i] = s[j] => i = j
    /\ \A i \in 1..Len(q) : items[s[i]].of = "message" /\ items[s[i]].says = q[i]

\* What is due was sent, each of it as an item of its own.
LEMMA DueIsSent ==
  ASSUME NEW items \in Seq(Items), NEW k \in 0..Len(items)
  PROVE  SentAs(items, DueOf(items)[k], k)
<1> DEFINE D == DueOf(items)
           n == Len(items)
           P == {m \in Nat : m <= n => SentAs(items, D[m], m)}
<1>1. n \in Nat
  BY LenProperties
<1>2. /\ D \in [0..n -> Seq(Spoken)] /\ D[0] = <<>>
      /\ \A m \in 1..n : IF IsDue(items, m)
                         THEN items[m].says \in Spoken /\ D[m] = Append(D[m - 1], items[m].says)
                         ELSE D[m] = D[m - 1]
  BY DueIs DEF DueGrows
<1> HIDE DEF D, n
<1>3. SentAs(items, D[0], 0)
  <2> DEFINE s == [i \in 1..0 |-> i]
  <2>1. Len(D[0]) = 0
    BY <1>2, EmptySeq
  <2>2. s \in [1..Len(D[0]) -> 1..0] /\ \A i \in 1..Len(D[0]) : FALSE
    BY <2>1
  <2> HIDE DEF s
  <2> QED
    BY <2>2 DEF SentAs
<1>4. ASSUME NEW m \in Nat, m + 1 <= n, SentAs(items, D[m], m) PROVE SentAs(items, D[m + 1], m + 1)
  <2>1. m + 1 \in 1..n /\ (m + 1) - 1 = m /\ m \in 0..n
    BY <1>1, <1>4
  <2>2. PICK s \in [1..Len(D[m]) -> 1..m] :
          /\ \A i, j \in 1..Len(D[m]) : s[i] = s[j] => i = j
          /\ \A i \in 1..Len(D[m]) : items[s[i]].of = "message" /\ items[s[i]].says = D[m][i]
    BY <1>4 DEF SentAs
  <2>3. CASE ~IsDue(items, m + 1)
    <3>1. D[m + 1] = D[m]
      BY <1>2, <2>1, <2>3
    <3>2. s \in [1..Len(D[m]) -> 1..m + 1]
      BY <2>2
    <3> QED
      BY <2>2, <3>1, <3>2 DEF SentAs
  <2>4. CASE IsDue(items, m + 1)
    <3> DEFINE q == D[m + 1]
               l == Len(D[m])
               x == items[m + 1].says
               t == [i \in 1..Len(q) |-> IF i <= l THEN s[i] ELSE m + 1]
    <3>1. q = Append(D[m], x) /\ D[m] \in Seq(Spoken) /\ x \in Spoken
      BY <1>2, <2>1, <2>4
    <3>2. l \in Nat /\ Len(q) = l + 1 /\ q[l + 1] = x /\ \A i \in 1..l : q[i] = D[m][i]
      BY <3>1, AppendProperties, LenProperties
    <3>3. items[m + 1].of = "message"
      BY <2>4 DEF IsDue
    <3> HIDE DEF q, l, x
    <3>4. \A i \in 1..Len(q) : IF i <= l THEN i \in 1..l /\ t[i] = s[i] /\ s[i] \in 1..m ELSE i = l + 1 /\ t[i] = m + 1
      <4>1. s \in [1..l -> 1..m]
        BY <2>2 DEF l
      <4>2. ASSUME NEW i \in 1..Len(q), i <= l PROVE i \in 1..l /\ t[i] = s[i] /\ s[i] \in 1..m
        <5>1. i \in 1..l
          BY <3>2, <4>2
        <5> QED
          BY <4>1, <4>2, <5>1
      <4>3. ASSUME NEW i \in 1..Len(q), ~(i <= l) PROVE i = l + 1 /\ t[i] = m + 1
        BY <3>2, <4>3
      <4> HIDE DEF t
      <4> QED
        BY <4>2, <4>3
    <3>5. t \in [1..Len(q) -> 1..m + 1]
      <4>1. \A i \in 1..Len(q) : t[i] \in 1..m + 1
        BY <3>4
      <4> QED
        BY <4>1
    <3> HIDE DEF t
    <3>6. \A i, j \in 1..Len(q) : t[i] = t[j] => i = j
      <4>1. ASSUME NEW i \in 1..Len(q), NEW j \in 1..Len(q), t[i] = t[j] PROVE i = j
        <5>1. CASE i <= l /\ j <= l
          BY <2>2, <3>4, <4>1, <5>1 DEF l
        <5>2. CASE i <= l /\ ~(j <= l)
          BY <3>4, <4>1, <5>2
        <5>3. CASE ~(i <= l) /\ j <= l
          BY <3>4, <4>1, <5>3
        <5>4. CASE ~(i <= l) /\ ~(j <= l)
          BY <3>4, <4>1, <5>4
        <5> QED
          BY <5>1, <5>2, <5>3, <5>4
      <4> QED
        BY <4>1
    <3>7. ASSUME NEW i \in 1..Len(q) PROVE items[t[i]].of = "message" /\ items[t[i]].says = q[i]
      <4>1. CASE i <= l
        BY <2>2, <3>2, <3>4, <4>1 DEF l
      <4>2. CASE ~(i <= l)
        BY <3>2, <3>3, <3>4, <4>2 DEF x
      <4> QED
        BY <4>1, <4>2
    <3>8. SentAs(items, q, m + 1)
      BY <3>5, <3>6, <3>7 DEF SentAs
    <3> QED
      BY <3>8 DEF q
  <2> QED
    BY <2>3, <2>4
<1> HIDE DEF SentAs
<1>5. P = Nat
  <2>1. P \in SUBSET Nat /\ 0 \in P
    BY <1>3
  <2>2. ASSUME NEW m \in P PROVE m + 1 \in P
    <3>1. SUFFICES ASSUME m + 1 <= n PROVE SentAs(items, D[m + 1], m + 1)
      OBVIOUS
    <3>2. m <= n
      BY <1>1, <3>1
    <3> QED
      BY <1>4, <3>1, <3>2
  <2> HIDE DEF P
  <2> QED
    BY <2>1, <2>2, Induction
<1>6. k \in Nat /\ k <= n
  BY <1>1 DEF n
<1>7. SentAs(items, D[k], k)
  BY <1>5, <1>6
<1> QED
  BY <1>7 DEF D

\* What q starts with is a prefix of it.
LEMMA ExtensionHasPrefix ==
  ASSUME NEW S, NEW p \in Seq(S), NEW q \in Seq(S), Extends(q, p)
  PROVE  IsPrefix(p, q)
<1> DEFINE l == Len(p)
           u == SubSeq(p, 1, l)
           v == SubSeq(q, 1, l)
<1>1. l \in Nat /\ Len(q) \in Nat /\ l <= Len(q) /\ \A i \in 1..l : q[i] = p[i]
  BY LenProperties DEF Extends
<1>2. \A i \in 1..l : p[i] \in S /\ q[i] \in S
  BY <1>1, ElementOfSeq
<1> HIDE DEF l
<1>3. u \in Seq(S) /\ Len(u) = (IF 1 <= l THEN l - 1 + 1 ELSE 0) /\ \A i \in 1..(l - 1 + 1) : u[i] = p[1 + i - 1]
  BY <1>1, <1>2, SubSeqProperties
<1>4. v \in Seq(S) /\ Len(v) = (IF 1 <= l THEN l - 1 + 1 ELSE 0) /\ \A i \in 1..(l - 1 + 1) : v[i] = q[1 + i - 1]
  BY <1>1, <1>2, SubSeqProperties
<1> HIDE DEF u, v
<1>5. Len(u) = l /\ Len(v) = l /\ \A i \in 1..l : u[i] = v[i]
  <2>1. l - 1 + 1 = l /\ \A i \in 1..l : 1 + i - 1 = i
    BY <1>1
  <2> QED
    BY <1>1, <1>3, <1>4, <2>1
<1>6. u = v
  BY <1>3, <1>4, <1>5, SeqEqual
<1> QED
  BY <1>1, <1>6 DEF IsPrefix, u, v, l

\* What is due of the first items comes first.
LEMMA DueIsPrefix ==
  ASSUME NEW items \in Seq(Items), NEW k \in 0..Len(items)
  PROVE  IsPrefix(DueOf(items)[k], DueOf(items)[Len(items)])
<1> DEFINE D == DueOf(items)
           n == Len(items)
           P == {d \in Nat : k + d <= n => Extends(D[k + d], D[k])}
<1>1. n \in Nat /\ k \in Nat /\ k <= n
  BY LenProperties
<1>2. /\ D \in [0..n -> Seq(Spoken)]
      /\ \A m \in 1..n : IF IsDue(items, m)
                         THEN items[m].says \in Spoken /\ D[m] = Append(D[m - 1], items[m].says)
                         ELSE D[m] = D[m - 1]
  BY DueIs DEF DueGrows
<1> HIDE DEF D, n
<1>3. Extends(D[k + 0], D[k])
  <2>1. k + 0 = k /\ D[k] \in Seq(Spoken)
    BY <1>1, <1>2
  <2>2. Len(D[k]) \in Nat
    BY <2>1, LenProperties
  <2> QED
    BY <2>1, <2>2 DEF Extends
<1>4. ASSUME NEW d \in Nat, k + (d + 1) <= n, Extends(D[k + d], D[k]) PROVE Extends(D[k + (d + 1)], D[k])
  <2> DEFINE m == k + (d + 1)
  <2>1. m \in 1..n /\ m - 1 = k + d /\ k + d \in 0..n
    BY <1>1, <1>4
  <2>2. D[k] \in Seq(Spoken) /\ D[m - 1] \in Seq(Spoken) /\ Len(D[k]) \in Nat /\ Len(D[m - 1]) \in Nat
    BY <1>1, <1>2, <2>1, LenProperties
  <2> HIDE DEF m
  <2>3. Extends(D[m - 1], D[k])
    BY <1>4, <2>1
  <2>4. CASE IsDue(items, m)
    <3>1. D[m] = Append(D[m - 1], items[m].says) /\ items[m].says \in Spoken
      BY <1>2, <2>1, <2>4
    <3>2. Len(D[m]) = Len(D[m - 1]) + 1 /\ \A i \in 1..Len(D[m - 1]) : D[m][i] = D[m - 1][i]
      BY <2>2, <3>1, AppendProperties
    <3>3. Extends(D[m], D[k])
      BY <2>2, <2>3, <3>2 DEF Extends
    <3> QED
      BY <3>3 DEF m
  <2>5. CASE ~IsDue(items, m)
    <3>1. D[m] = D[m - 1]
      BY <1>2, <2>1, <2>5
    <3> QED
      BY <2>3, <3>1 DEF m
  <2> QED
    BY <2>4, <2>5
<1>5. P = Nat
  <2>1. P \in SUBSET Nat /\ 0 \in P
    BY <1>3
  <2>2. ASSUME NEW d \in P PROVE d + 1 \in P
    <3>1. SUFFICES ASSUME k + (d + 1) <= n PROVE Extends(D[k + (d + 1)], D[k])
      OBVIOUS
    <3>2. k + d <= n
      BY <1>1, <3>1
    <3> QED
      BY <1>4, <3>1, <3>2
  <2> HIDE DEF P
  <2> QED
    BY <2>1, <2>2, Induction
<1>6. Extends(D[n], D[k])
  <2>1. n - k \in Nat /\ k + (n - k) = n
    BY <1>1
  <2>2. n - k \in P
    BY <1>5, <2>1
  <2>3. k + (n - k) <= n => Extends(D[k + (n - k)], D[k])
    BY <2>2
  <2> QED
    BY <1>1, <2>1, <2>3
<1>7. D[n] \in Seq(Spoken) /\ D[k] \in Seq(Spoken)
  BY <1>1, <1>2
<1>8. IsPrefix(D[k], D[n])
  BY <1>6, <1>7, ExtensionHasPrefix
<1> QED
  BY <1>8 DEF D, n

--------------------------------------------------------------------------------
(* A clean stream.                                                          *)

\* The bytes of each item, and where each ends.
Parcels(items) == [i \in DOMAIN items |-> ItemBytes(items[i])]
At(items) == CHOOSE at : Laid(at, Parcels(items))

\* The items are found in the stream.
Delivered(items, at, s) ==
  /\ at \in [0..Len(items) -> Nat] /\ at[0] = 0 /\ Len(s) = at[Len(items)]
  /\ \A k \in 1..Len(items) :
       /\ at[k] = at[k - 1] + Len(ItemBytes(items[k])) /\ at[k] <= Len(s)
       /\ \A j \in 1..Len(ItemBytes(items[k])) : s[at[k - 1] + j] = ItemBytes(items[k])[j]

\* Each is where the layout of the parcels puts it.
LEMMA ItemsAreDelivered ==
  ASSUME NEW items \in Seq(Items)
  PROVE  Delivered(items, At(items), StreamOf(items))
<1> DEFINE n == Len(items)
           p == Parcels(items)
           at == At(items)
           s == StreamOf(items)
<1>1. n \in Nat
  BY LenProperties
<1>2. ASSUME NEW i \in 1..n PROVE p[i] = ItemBytes(items[i]) /\ p[i] \in Seq(Byte)
  <2>1. items[i] \in Items
    BY ElementOfSeq
  <2> QED
    BY <2>1, ItemIsBytes DEF Parcels
<1>3. p \in Seq(Seq(Byte)) /\ Len(p) = n
  <2>1. p = [i \in 1..n |-> p[i]]
    BY DEF Parcels
  <2>2. p \in [1..n -> Seq(Byte)]
    <3> HIDE DEF p
    <3> QED
      BY <1>2, <2>1
  <2> HIDE DEF p
  <2> QED
    BY <1>1, <2>2
<1>4. s = FlattenSeq(p)
  BY DEF StreamOf, Parcels
<1> HIDE DEF p, s
<1>5. Laid(at, p)
  <2>1. \E a : Laid(a, p)
    BY <1>3, LaidExists
  <2> QED
    BY <2>1 DEF At, p
<1> HIDE DEF at
<1>6. /\ at \in [0..n -> Nat] /\ at[0] = 0 /\ \A i \in 1..n : at[i] = at[i - 1] + Len(p[i])
  BY <1>3, <1>5 DEF Laid
<1>7. /\ Len(s) = at[n]
      /\ \A i \in 1..n : at[i] <= at[n] /\ \A j \in 1..Len(p[i]) : s[at[i - 1] + j] = p[i][j]
  <2>1. /\ FlattenSeq(p) \in Seq(Byte) /\ Len(FlattenSeq(p)) = at[Len(p)]
        /\ \A i \in 1..Len(p) :
             /\ at[i] <= at[Len(p)]
             /\ \A j \in 1..Len(p[i]) : FlattenSeq(p)[at[i - 1] + j] = p[i][j]
    BY <1>3, <1>5, Flattened
  <2> QED
    BY <1>3, <1>4, <2>1
<1>8. Delivered(items, at, s)
  <2>1. ASSUME NEW k \in 1..n
        PROVE  /\ at[k] = at[k - 1] + Len(ItemBytes(items[k])) /\ at[k] <= Len(s)
               /\ \A j \in 1..Len(ItemBytes(items[k])) : s[at[k - 1] + j] = ItemBytes(items[k])[j]
    <3>1. p[k] = ItemBytes(items[k])
      BY <1>2
    <3>2. at[k] = at[k - 1] + Len(p[k]) /\ at[k] <= Len(s)
      BY <1>6, <1>7
    <3>3. \A j \in 1..Len(p[k]) : s[at[k - 1] + j] = p[k][j]
      BY <1>7
    <3> QED
      BY <3>1, <3>2, <3>3, Zenon
  <2> QED
    BY <1>6, <1>7, <2>1 DEF Delivered
<1> QED
  BY <1>8 DEF at, s

\* An item that is no debris is a heartbeat, or a message that is understood as it is meant.
LEMMA CleanItem ==
  ASSUME NEW x \in Items, x.of # "debris", NEW b, b = ItemBytes(x)
  PROVE  /\ b \in Seq(Byte) /\ Len(b) \in Nat /\ Len(b) >= 1 /\ b[1] = STX
         /\ \/ x.of = "heartbeat" /\ b = Heartbeat /\ IsHeartbeat(b)
            \/ /\ x.of = "message" /\ x.says \in Spoken /\ b = Bytes(x.says) /\ Meant(b, x.says)
               /\ IsWhole(b) /\ FrameLength(b) = Len(b)
<1>1. b \in Seq(Byte) /\ Len(b) \in Nat
  BY ItemIsBytes, LenProperties
<1>2. x.of = "heartbeat" \/ (x.of = "message" /\ x.says \in Spoken)
  BY DEF Items
<1>3. CASE x.of = "heartbeat"
  <2>1. b = Heartbeat
    BY <1>3 DEF ItemBytes
  <2>2. IsHeartbeat(b) /\ Len(b) >= 1 /\ b[1] = STX
    BY <1>1, <2>1, FramesAssumption DEF IsHeartbeat
  <2> QED
    BY <1>1, <1>3, <2>1, <2>2
<1>4. CASE x.of = "message" /\ x.says \in Spoken
  <2>1. b = Bytes(x.says)
    BY <1>4 DEF ItemBytes
  <2>2. Meant(b, x.says)
    BY <1>4, <2>1, MeansItself
  <2>3. b[1] = STX /\ IsWhole(b) /\ FrameLength(b) = Len(b)
    BY <2>2 DEF Meant
  <2>4. Len(b) >= 1
    BY <1>1, <2>3 DEF IsWhole, LengthKnown
  <2> QED
    BY <1>1, <1>4, <2>1, <2>2, <2>3, <2>4
<1> QED
  BY <1>2, <1>3, <1>4

\* What was sent is in the stream, and of an empty stream nothing was given.
Carried ==
  /\ sent \in Seq(Items) /\ stream = StreamOf(sent)
  /\ stream = <<>> => got = <<>> /\ done = {}

\* A clean stream is read item by item.
LEMMA NextIs ==
  ASSUME IInv, Carried, Clean, NEW k \in 0..Len(sent), pos = At(sent)[k]
  PROVE  /\ buf # <<>> => k < Len(sent) /\ buf[1] = STX
         /\ ~IsImplausible(buf)
         /\ IsHeartbeat(buf) => k < Len(sent) /\ sent[k + 1].of = "heartbeat"
                                /\ At(sent)[k + 1] = pos + Len(Heartbeat)
         /\ IsWhole(buf) =>
              /\ k < Len(sent) /\ sent[k + 1].of = "message" /\ sent[k + 1].says \in Spoken
              /\ Meant(SubSeq(buf, 1, FrameLength(buf)), sent[k + 1].says)
              /\ At(sent)[k + 1] = pos + FrameLength(buf)
         /\ fed = Len(stream) /\ ~extracting => k = Len(sent)
<1> DEFINE n == Len(sent)
           at == At(sent)
           left == Abstract!left
<1>1. /\ buf \in Seq(Byte) /\ Len(buf) = fed - pos /\ pos \in Nat /\ fed \in Nat /\ Len(stream) \in Nat
      /\ pos <= fed /\ fed <= Len(stream) /\ n \in Nat /\ TypeOK
  BY BufType, LenProperties DEF IInv, TypeOK, Carried
<1>2. /\ left \in Seq(Byte) /\ Len(left) = Len(stream) - pos
      /\ \A i \in 1..(Len(stream) - pos) : left[i] = stream[pos + i]
      /\ Extends(left, buf)
  BY <1>1, LeftExtendsBuf
<1> HIDE DEF left
<1>3. /\ at \in [0..n -> Nat] /\ Len(stream) = at[n]
      /\ \A i \in 1..n :
           /\ at[i] = at[i - 1] + Len(ItemBytes(sent[i])) /\ at[i] <= Len(stream)
           /\ \A j \in 1..Len(ItemBytes(sent[i])) : stream[at[i - 1] + j] = ItemBytes(sent[i])[j]
  <2>1. Delivered(sent, At(sent), stream)
    BY ItemsAreDelivered DEF Carried
  <2> QED
    BY <2>1 DEF Delivered
<1>4. pos = at[k]
  OBVIOUS
<1>5. buf = <<>> => ~IsHeartbeat(buf) /\ ~IsWhole(buf) /\ ~IsImplausible(buf)
  BY EmptyTypes, FramesAssumption DEF IsHeartbeat, IsWhole, IsImplausible, LengthKnown
<1> HIDE DEF at, n
<1>6. CASE k = n
  <2>1. buf = <<>>
    BY <1>1, <1>3, <1>4, <1>6, EmptySeq
  <2> QED
    BY <1>5, <1>6, <2>1 DEF n
<1>7. CASE k # n
  <2> DEFINE x == sent[k + 1]
             b == ItemBytes(x)
  <2>1. k + 1 \in 1..n /\ (k + 1) - 1 = k /\ k < n
    BY <1>1, <1>7 DEF n
  <2>2. x \in Items /\ x.of # "debris"
    BY <2>1, ElementOfSeq DEF Carried, Clean, n
  <2>3. /\ b \in Seq(Byte) /\ Len(b) \in Nat /\ Len(b) >= 1 /\ b[1] = STX
        /\ \/ x.of = "heartbeat" /\ b = Heartbeat /\ IsHeartbeat(b)
           \/ /\ x.of = "message" /\ x.says \in Spoken /\ b = Bytes(x.says) /\ Meant(b, x.says)
              /\ IsWhole(b) /\ FrameLength(b) = Len(b)
    BY <2>2, CleanItem
  <2>4. /\ at[k + 1] = pos + Len(b) /\ at[k + 1] <= Len(stream)
        /\ \A j \in 1..Len(b) : stream[pos + j] = b[j]
    BY <1>3, <1>4, <2>1
  <2> HIDE DEF b, x
  <2>5. Len(b) <= Len(left) /\ \A j \in 1..Len(b) : b[j] = left[j]
    <3>1. Len(b) <= Len(stream) - pos
      <4>1. pos + Len(b) <= Len(stream)
        BY <2>4
      <4>2. pos \in Nat /\ Len(b) \in Nat /\ Len(stream) \in Nat
        BY <1>1, <2>3
      <4> QED
        BY <4>1, <4>2
    <3>2. \A j \in 1..Len(b) : j \in 1..(Len(stream) - pos)
      BY <1>1, <2>3, <3>1
    <3> QED
      BY <1>2, <2>4, <3>1, <3>2
  <2>6. Extends(left, b)
    BY <2>5 DEF Extends
  <2>7. /\ IsHeartbeat(b) => IsHeartbeat(left)
        /\ IsWhole(b) => IsWhole(left) /\ FrameLength(left) = FrameLength(b)
    BY <1>2, <2>3, <2>6, Stable
  <2>8. /\ IsHeartbeat(buf) => IsHeartbeat(left)
        /\ IsImplausible(buf) => IsImplausible(left)
        /\ IsWhole(buf) => IsWhole(left) /\ FrameLength(left) = FrameLength(buf)
    BY <1>1, <1>2, Stable
  <2>9. ~IsImplausible(left) /\ (IsHeartbeat(left) \/ IsWhole(left)) /\ ~(IsHeartbeat(left) /\ IsWhole(left))
    <3>1. CASE IsHeartbeat(left)
      BY <3>1 DEF IsImplausible, IsWhole
    <3>2. CASE IsWhole(left)
      <4>1. FrameLength(left) \in Nat /\ MaxFrame \in Nat
        BY <1>2, <3>2, LengthType, FramesAssumption DEF IsWhole
      <4> QED
        BY <3>2, <4>1 DEF IsImplausible, IsWhole
    <3> QED
      BY <2>3, <2>7, <3>1, <3>2
  <2>10. buf # <<>> => buf[1] = STX
    <3>1. SUFFICES ASSUME buf # <<>> PROVE buf[1] = STX
      OBVIOUS
    <3>2. 1 \in 1..Len(buf) /\ 1 \in 1..Len(b)
      BY <1>1, <2>3, <3>1, EmptySeq
    <3> QED
      BY <1>2, <2>3, <2>5, <3>2 DEF Extends
  <2>11. ASSUME IsHeartbeat(buf)
         PROVE  x.of = "heartbeat" /\ at[k + 1] = pos + Len(Heartbeat)
    BY <2>3, <2>4, <2>7, <2>8, <2>9, <2>11
  <2>12. ASSUME IsWhole(buf)
         PROVE  /\ x.of = "message" /\ x.says \in Spoken /\ at[k + 1] = pos + FrameLength(buf)
                /\ Meant(SubSeq(buf, 1, FrameLength(buf)), x.says)
    <3>1. /\ x.of = "message" /\ x.says \in Spoken /\ Meant(b, x.says)
          /\ FrameLength(buf) = Len(b)
      BY <2>3, <2>7, <2>8, <2>9, <2>12
    <3> DEFINE f == SubSeq(buf, 1, FrameLength(buf))
    <3>2. FrameLength(buf) \in 0..Len(buf)
      BY <1>1, <2>12, TakenIsThere
    <3>3. f \in Seq(Byte) /\ Len(f) = FrameLength(buf) /\ \A i \in 1..FrameLength(buf) : f[i] = buf[i]
      BY <1>1, <3>2, HeadOfBuf
    <3> HIDE DEF f
    <3>4. \A i \in 1..Len(b) : f[i] = b[i]
      <4>1. \A i \in 1..Len(b) : i \in 1..Len(buf)
        BY <1>1, <3>1, <3>2
      <4> QED
        BY <1>2, <2>5, <3>1, <3>3, <4>1 DEF Extends
    <3>5. f = b
      BY <2>3, <3>1, <3>3, <3>4, SeqEqual
    <3> QED
      BY <2>4, <3>1, <3>5 DEF f
  <2>13. ~(fed = Len(stream) /\ ~extracting)
    <3>1. SUFFICES ASSUME fed = Len(stream), ~extracting PROVE FALSE
      OBVIOUS
    <3>2. left = buf
      BY <3>1 DEF left, Abstract!left, buf
    <3>3. buf # <<>>
      BY <2>3, <2>5, <3>2, EmptyTypes
    <3> QED
      BY <2>9, <3>1, <3>2, <3>3 DEF IInv, Idle
  <2> QED
    BY <2>1, <2>8, <2>9, <2>10, <2>11, <2>12, <2>13 DEF x, at, n
<1> QED
  BY <1>6, <1>7

\* The calls that the first k items answer.
Answered(items, k) ==
  {items[j].says.of : j \in {j \in 1..k : items[j].of = "message" /\ items[j].says.of # Event}}

\* The first k items were read.
Progress(k) == pos = At(sent)[k] /\ got = DueOf(sent)[k] /\ done = Answered(sent, k)

InOrder == Clean => \E k \in 0..Len(sent) : Progress(k)

OrderInv == AnswerInv /\ Carried /\ InOrder

\* One more item.
LEMMA AnsweredNext ==
  ASSUME NEW items \in Seq(Items), NEW k \in 0..Len(items), k < Len(items), NEW x, x = items[k + 1]
  PROVE  /\ x.of = "heartbeat" => /\ Answered(items, k + 1) = Answered(items, k)
                                  /\ DueOf(items)[k + 1] = DueOf(items)[k]
         /\ x.of = "message" =>
              /\ Answered(items, k + 1) = Answered(items, k) \cup (IF x.says.of = Event THEN {} ELSE {x.says.of})
              /\ DueOf(items)[k + 1] = IF x.says.of = Event \/ x.says.of \notin Answered(items, k)
                                       THEN DueOf(items)[k] \o <<x.says>> ELSE DueOf(items)[k]
<1> DEFINE A(m) == {j \in 1..m : items[j].of = "message" /\ items[j].says.of # Event}
<1>1. /\ k \in Nat /\ Len(items) \in Nat /\ k + 1 \in 1..Len(items) /\ (k + 1) - 1 = k
      /\ 1..k + 1 = (1..k) \cup {k + 1}
  BY LenProperties
<1>2. IF IsDue(items, k + 1)
      THEN x.says \in Spoken /\ DueOf(items)[k + 1] = Append(DueOf(items)[k], x.says)
      ELSE DueOf(items)[k + 1] = DueOf(items)[k]
  BY <1>1, DueIs DEF DueGrows
<1>3. DueOf(items)[k] \in Seq(Spoken)
  BY DueIs DEF DueGrows
<1>4. ASSUME x.of = "heartbeat"
      PROVE  Answered(items, k + 1) = Answered(items, k) /\ DueOf(items)[k + 1] = DueOf(items)[k]
  <2>1. x.of # "message"
    BY <1>4
  <2>2. A(k + 1) = A(k)
    BY <1>1, <2>1
  <2>3. ~IsDue(items, k + 1)
    BY <2>1 DEF IsDue
  <2> QED
    BY <1>2, <2>2, <2>3 DEF Answered
<1>5. ASSUME x.of = "message"
      PROVE  /\ Answered(items, k + 1) = Answered(items, k) \cup (IF x.says.of = Event THEN {} ELSE {x.says.of})
             /\ DueOf(items)[k + 1] = IF x.says.of = Event \/ x.says.of \notin Answered(items, k)
                                      THEN DueOf(items)[k] \o <<x.says>> ELSE DueOf(items)[k]
  <2>1. A(k + 1) = A(k) \cup (IF x.says.of = Event THEN {} ELSE {k + 1})
    BY <1>1, <1>5
  <2>2. Answered(items, k + 1) = Answered(items, k) \cup (IF x.says.of = Event THEN {} ELSE {x.says.of})
    BY <2>1 DEF Answered
  <2>3. IsDue(items, k + 1) <=> x.says.of = Event \/ x.says.of \notin Answered(items, k)
    <3>1. IsDue(items, k + 1) <=>
            \A j \in 1..k : items[j].of = "message" /\ items[j].says.of = x.says.of => x.says.of = Event
      BY <1>1, <1>5 DEF IsDue
    <3>2. x.says.of \in Answered(items, k) <=>
            \E j \in 1..k : items[j].of = "message" /\ items[j].says.of # Event /\ items[j].says.of = x.says.of
      BY DEF Answered
    <3> QED
      BY <3>1, <3>2
  <2>4. CASE IsDue(items, k + 1)
    <3>1. x.says \in Spoken /\ DueOf(items)[k + 1] = Append(DueOf(items)[k], x.says)
      BY <1>2, <2>4
    <3>2. Append(DueOf(items)[k], x.says) = DueOf(items)[k] \o <<x.says>>
      BY <1>3, <3>1, AppendIsConcat
    <3> QED
      BY <2>2, <2>3, <2>4, <3>1, <3>2
  <2>5. CASE ~IsDue(items, k + 1)
    BY <1>2, <2>2, <2>3, <2>5
  <2> QED
    BY <2>4, <2>5
<1> QED
  BY <1>4, <1>5

\* Before the first item.
LEMMA NothingYet ==
  ASSUME NEW items \in Seq(Items)
  PROVE  At(items)[0] = 0 /\ DueOf(items)[0] = <<>> /\ Answered(items, 0) = {} /\ 0 \in 0..Len(items)
<1>1. At(items)[0] = 0
  BY ItemsAreDelivered DEF Delivered
<1>2. DueOf(items)[0] = <<>>
  BY DueIs DEF DueGrows
<1>3. Answered(items, 0) = {} /\ 0 \in 0..Len(items)
  BY LenProperties DEF Answered
<1> QED
  BY <1>1, <1>2, <1>3

\* It holds at the start.
LEMMA OrderInit == AnswerInit => OrderInv
<1> SUFFICES ASSUME AnswerInit PROVE OrderInv
  OBVIOUS
<1>1. AnswerInv
  BY AnswerInitInv
<1>2. sent = <<>> /\ stream = <<>> /\ pos = 0 /\ got = <<>> /\ done = {}
  BY DEF AnswerInit, Init
<1>3. sent \in Seq(Items)
  BY <1>2, EmptySeq
<1>4. Len(StreamOf(sent)) = 0
  <2>1. Len(sent) = 0
    BY <1>2, EmptySeq
  <2>2. Delivered(sent, At(sent), StreamOf(sent))
    BY <1>3, ItemsAreDelivered
  <2> QED
    BY <2>1, <2>2 DEF Delivered
<1>5. StreamOf(sent) = <<>>
  <2>1. StreamOf(sent) = FlattenSeq(Parcels(sent))
    BY DEF StreamOf, Parcels
  <2> QED
    BY <1>2, <1>4, <2>1, EmptySeq DEF FlattenSeq, Parcels
<1>6. Progress(0) /\ 0 \in 0..Len(sent)
  BY <1>2, <1>3, NothingYet DEF Progress
<1> QED
  BY <1>1, <1>2, <1>3, <1>5, <1>6 DEF OrderInv, Carried, InOrder

\* Nothing happens to what is sent, read or given.
LEMMA OrderSame ==
  ASSUME OrderInv, AnswerInv', UNCHANGED <<stream, sent, pos, got, done>>
  PROVE  OrderInv'
BY DEF OrderInv, Carried, InOrder, Clean, Progress

\* Another stream begins.
LEMMA OrderAnew ==
  ASSUME AnswerInv', sent' \in Seq(Items), stream' = StreamOf(sent'), pos' = 0, got' = <<>>, done' = {}
  PROVE  OrderInv'
<1>1. At(sent')[0] = 0 /\ DueOf(sent')[0] = <<>> /\ Answered(sent', 0) = {} /\ 0 \in 0..Len(sent')
  BY NothingYet
<1>2. Progress(0)' /\ 0 \in 0..Len(sent')
  BY <1>1 DEF Progress
<1> QED
  BY <1>2 DEF OrderInv, Carried, InOrder

\* A stream that is open is not empty once something was taken of it.
LEMMA Taken ==
  ASSUME IInv, buf # <<>>
  PROVE  stream # <<>>
<1>1. TypeOK
  BY DEF IInv
<1>2. buf \in Seq(Byte) /\ Len(buf) = fed - pos
  BY <1>1, BufType
<1> QED
  BY <1>1, <1>2, EmptyStream, EmptySeq

\* A frame is dispatched: it is the next item, a message.
LEMMA OrderDispatch ==
  ASSUME OrderInv, Dispatch, AnswerInv'
  PROVE  OrderInv'
<1> DEFINE r == SubSeq(buf, 1, FrameLength(buf))
<1>1. /\ IsWhole(buf) /\ frames' = Append(frames, r) /\ pos' = pos + FrameLength(buf) /\ buf # <<>>
      /\ frames \in Seq(Seq(Byte)) /\ TypeOK /\ IInv /\ UNCHANGED <<stream, sent>>
  BY DEF Dispatch, TakeFrame, AtStx, Delete, OrderInv, AnswerInv, IInv, TypeOK
<1>2. r \in Seq(Byte)
  <2>1. FrameLength(buf) \in 0..Len(buf)
    BY <1>1, TakenIsThere
  <2> QED
    BY <1>1, <2>1, HeadOfBuf
<1> HIDE DEF r
<1>3. frames'[Len(frames')] = r
  BY <1>1, <1>2
<1>4. done' = done \cup Taker(r) /\ got' = got \o Understood(r)
  BY <1>3 DEF Dispatch
<1>5. Carried'
  BY <1>1, Taken DEF Carried, OrderInv
<1>6. ASSUME Clean' PROVE \E k \in 0..Len(sent') : Progress(k)'
  <2>1. Clean
    BY <1>1, <1>6 DEF Clean
  <2>2. PICK k \in 0..Len(sent) : Progress(k)
    BY <2>1 DEF OrderInv, InOrder
  <2> DEFINE m == sent[k + 1].says
  <2>3. /\ k < Len(sent) /\ sent[k + 1].of = "message" /\ m \in Spoken /\ Meant(r, m)
        /\ At(sent)[k + 1] = pos + FrameLength(buf)
    BY <1>1, <2>1, <2>2, NextIs DEF OrderInv, Progress, r
  <2>4. sent \in Seq(Items) /\ got = DueOf(sent)[k] /\ done = Answered(sent, k)
    BY <2>2 DEF OrderInv, Carried, Progress
  <2>5. /\ Answered(sent, k + 1) = done \cup (IF m.of = Event THEN {} ELSE {m.of})
        /\ DueOf(sent)[k + 1] = IF m.of = Event \/ m.of \notin done THEN got \o <<m>> ELSE got
    BY <2>3, <2>4, AnsweredNext
  <2>6. /\ Understood(r) = IF m.of = Event \/ m.of \notin done THEN <<m>> ELSE <<>>
        /\ Taker(r) = IF m.of = Event THEN {} ELSE {m.of} \ done
    BY <2>3, MeantIsUnderstood
  <2>7. done' = Answered(sent, k + 1)
    BY <1>4, <2>5, <2>6
  <2>8. got' = DueOf(sent)[k + 1]
    <3>1. CASE m.of = Event \/ m.of \notin done
      BY <1>4, <2>5, <2>6, <3>1
    <3>2. CASE ~(m.of = Event \/ m.of \notin done)
      <4>1. got' = got \o <<>> /\ got \in Seq(Message)
        BY <1>4, <2>6, <3>2 DEF OrderInv, AnswerInv
      <4>2. got' = got
        BY <4>1, ConcatEmptySeq
      <4> QED
        BY <2>5, <3>2, <4>2
    <3> QED
      BY <3>1, <3>2
  <2>9. k + 1 \in 0..Len(sent')
    BY <1>1, <2>3, <2>4, LenProperties
  <2>10. Progress(k + 1)'
    BY <1>1, <2>3, <2>7, <2>8 DEF Progress
  <2> QED
    BY <2>9, <2>10
<1> QED
  BY <1>5, <1>6 DEF OrderInv, InOrder

\* Anything else that _extract takes from the buffer of a clean stream is a heartbeat.
LEMMA OrderSilent ==
  ASSUME OrderInv, Silent, AnswerInv'
  PROVE  OrderInv'
<1>1. UNCHANGED <<stream, sent, got, done>> /\ IInv
  BY DEF Silent, Feed, ClearAll, Discard, TakeHeartbeat, Resync, Wait, OrderInv, AnswerInv
<1>2. Carried'
  BY <1>1 DEF Carried, OrderInv
<1>3. ASSUME Clean' PROVE \E k \in 0..Len(sent') : Progress(k)'
  <2>1. Clean
    BY <1>1, <1>3 DEF Clean
  <2>2. PICK k \in 0..Len(sent) : Progress(k)
    BY <2>1 DEF OrderInv, InOrder
  <2>3. /\ sent \in Seq(Items) /\ got = DueOf(sent)[k] /\ done = Answered(sent, k) /\ pos = At(sent)[k]
        /\ Carried
    BY <2>2 DEF OrderInv, Carried, Progress
  <2>4. /\ buf # <<>> => buf[1] = STX
        /\ ~IsImplausible(buf)
        /\ IsHeartbeat(buf) => k < Len(sent) /\ sent[k + 1].of = "heartbeat"
                               /\ At(sent)[k + 1] = pos + Len(Heartbeat)
    BY <1>1, <2>1, <2>3, NextIs
  <2>5. buf \in Seq(Byte) /\ Len(buf) = fed - pos /\ pos \in Nat /\ fed \in Nat
    BY <1>1, BufType DEF IInv, TypeOK
  <2>6. ASSUME UNCHANGED pos PROVE \E l \in 0..Len(sent') : Progress(l)'
    <3>1. Progress(k)'
      BY <1>1, <2>3, <2>6 DEF Progress
    <3> QED
      BY <1>1, <3>1
  <2>7. ASSUME NEW n \in 1..(Len(stream) - fed), Feed(n) PROVE UNCHANGED pos
    BY <2>7 DEF Feed
  <2>8. CASE ClearAll
    <3>1. buf = <<>>
      <4>1. SUFFICES ASSUME buf # <<>> PROVE FALSE
        OBVIOUS
      <4>2. 1 \in 1..Len(buf)
        BY <2>5, <4>1, EmptySeq
      <4> QED
        BY <2>4, <2>8, <4>1, <4>2 DEF ClearAll, NoStx
    <3>2. fed = pos
      BY <2>5, <3>1, EmptySeq
    <3>3. UNCHANGED pos
      BY <2>8, <3>2 DEF ClearAll
    <3> QED
      BY <2>6, <3>3
  <2>9. ~Discard
    <3>1. SUFFICES ASSUME Discard PROVE FALSE
      OBVIOUS
    <3>2. PICK start \in 2..Len(buf) : \A i \in 1..(start - 1) : buf[i] # STX
      BY <3>1 DEF Discard
    <3>3. 1 \in 1..(start - 1) /\ Len(buf) # 0
      BY <2>5, <3>2
    <3> QED
      BY <2>4, <2>5, <3>2, <3>3, EmptySeq
  <2>10. ~Resync
    BY <2>4 DEF Resync
  <2>11. CASE TakeHeartbeat
    <3>1. k < Len(sent) /\ sent[k + 1].of = "heartbeat" /\ At(sent)[k + 1] = pos'
      BY <2>4, <2>11 DEF TakeHeartbeat, Delete
    <3>2. Answered(sent, k + 1) = done /\ DueOf(sent)[k + 1] = got
      BY <2>3, <3>1, AnsweredNext
    <3>3. k + 1 \in 0..Len(sent')
      BY <1>1, <2>3, <3>1, LenProperties
    <3>4. Progress(k + 1)'
      BY <1>1, <3>1, <3>2 DEF Progress
    <3> QED
      BY <3>3, <3>4
  <2>12. CASE Wait
    BY <2>6, <2>12 DEF Wait
  <2> QED
    BY <2>6, <2>7, <2>8, <2>9, <2>10, <2>11, <2>12 DEF Silent
<1> QED
  BY <1>2, <1>3 DEF OrderInv, InOrder

\* Every step keeps it.
LEMMA OrderNext == OrderInv /\ [AnswerNext]_answerVars => OrderInv'
<1> SUFFICES ASSUME OrderInv, [AnswerNext]_answerVars PROVE OrderInv'
  OBVIOUS
<1>1. AnswerInv'
  BY AnswerNextInv DEF OrderInv
<1>2. ASSUME NEW n \in 1..MaxItems, NEW items \in [1..n -> Items], OpenWith(items) PROVE OrderInv'
  <2>1. TypeOK /\ stream = <<>>
    BY <1>2 DEF OpenWith, Open, OrderInv, AnswerInv, IInv
  <2>2. pos' = 0 /\ got' = <<>> /\ done' = {}
    BY <1>2, <2>1, EmptyStream DEF OpenWith, Open, OrderInv, Carried
  <2>3. sent' = items /\ stream' = StreamOf(sent')
    BY <1>2 DEF OpenWith, Open
  <2>4. sent' \in Seq(Items)
    <3>1. n \in Nat
      BY MessageAssumption
    <3> QED
      BY <2>3, <3>1
  <2> QED
    BY <1>1, <2>2, <2>3, <2>4, OrderAnew
<1>3. CASE ResetAll
  <2>1. sent' = <<>> /\ stream' = <<>> /\ pos' = 0 /\ got' = <<>> /\ done' = {}
    BY <1>3 DEF ResetAll, Reset
  <2>2. sent' \in Seq(Items)
    BY <2>1, EmptySeq
  <2>3. stream' = StreamOf(sent')
    BY <2>1 DEF StreamOf, FlattenSeq
  <2> QED
    BY <1>1, <2>1, <2>2, <2>3, OrderAnew
<1>4. CASE Dispatch
  BY <1>1, <1>4, OrderDispatch
<1>5. CASE Silent
  BY <1>1, <1>5, OrderSilent
<1>6. CASE UNCHANGED answerVars
  BY <1>1, <1>6, OrderSame DEF answerVars, vars
<1> QED
  BY <1>2, <1>3, <1>4, <1>5, <1>6 DEF AnswerNext

\* Of a clean stream, what is given was sent and is in order, and in the end is all.
LEMMA CleanFromInv == OrderInv /\ Clean => UnderstoodAsMeant
<1> SUFFICES ASSUME OrderInv, Clean PROVE UnderstoodAsMeant
  OBVIOUS
<1>1. PICK k \in 0..Len(sent) : Progress(k)
  BY DEF OrderInv, InOrder
<1>2. sent \in Seq(Items) /\ got = DueOf(sent)[k] /\ pos = At(sent)[k] /\ IInv /\ Carried /\ got \in Seq(Message)
  BY <1>1 DEF OrderInv, AnswerInv, Carried, Progress
<1>3. NothingMadeUp
  <2>1. SentAs(sent, got, k)
    BY <1>2, DueIsSent
  <2>2. PICK s \in [1..Len(got) -> 1..k] :
          /\ \A i, j \in 1..Len(got) : s[i] = s[j] => i = j
          /\ \A i \in 1..Len(got) : sent[s[i]].of = "message" /\ sent[s[i]].says = got[i]
    BY <2>1 DEF SentAs
  <2>3. DOMAIN got = 1..Len(got) /\ DOMAIN sent = 1..Len(sent) /\ Len(sent) \in Nat /\ k \in Nat /\ k <= Len(sent)
    BY <1>2, LenProperties
  <2>4. ASSUME NEW i \in DOMAIN got
        PROVE  Cardinality({j \in DOMAIN got : got[j] = got[i]}) <= Cardinality({j \in DOMAIN sent : Says(j, got[i])})
    <3> DEFINE G == {j \in DOMAIN got : got[j] = got[i]}
               T == {j \in DOMAIN sent : Says(j, got[i])}
               f == [j \in G |-> s[j]]
    <3>1. f \in [G -> T]
      <4>1. ASSUME NEW j \in G PROVE s[j] \in T
        <5>1. s[j] \in 1..k /\ s[j] \in DOMAIN sent
          BY <2>2, <2>3
        <5> QED
          BY <2>2, <2>3, <5>1 DEF Says
      <4> QED
        BY <4>1
    <3>2. \A a, b \in G : f[a] = f[b] => a = b
      BY <2>2, <2>3
    <3>3. IsFiniteSet(T)
      <4>1. IsFiniteSet(1..Len(sent))
        BY <2>3, FS_Interval
      <4> QED
        BY <2>3, <4>1, FS_Subset
    <3> HIDE DEF f, G, T
    <3>4. f \in Injection(G, T)
      BY <3>1, <3>2 DEF Injection, IsInjective
    <3>5. Cardinality(G) <= Cardinality(T)
      BY <3>3, <3>4, FS_Injection
    <3> QED
      BY <3>5 DEF G, T
  <2> QED
    BY <2>4 DEF NothingMadeUp
<1>4. IsPrefix(got, Due)
  BY <1>2, DueIsPrefix DEF Due
<1>5. ASSUME fed = Len(stream), ~extracting PROVE got = Due
  <2>1. k = Len(sent)
    BY <1>2, <1>5, NextIs
  <2> QED
    BY <1>2, <2>1 DEF Due
<1> QED
  BY <1>3, <1>4, <1>5 DEF UnderstoodAsMeant


--------------------------------------------------------------------------------
(* Theorems.                                                                *)

\* The inductive invariant holds in every reachable state.
THEOREM AnswerInvariance == AnswerSpec => []AnswerInv
  BY AnswerInitInv, AnswerNextInv, PTL DEF AnswerSpec

\* Whatever arrives, what callers and handlers are given was in a frame of the stream with
\* the right check sum, as it is decoded by the command that asked or that the event names.
THEOREM NothingUnreceived == AnswerSpec => []GivenIsReceived
<1>1. AnswerInv => GivenIsReceived
  BY DEF AnswerInv
<1> QED
  BY <1>1, AnswerInvariance, PTL

\* Of a stream without debris every message is understood, in order, as it was meant,
\* however it was cut into reads.
THEOREM CleanIsMeant == AnswerSpec => [](Clean => UnderstoodAsMeant)
<1>1. OrderInv => (Clean => UnderstoodAsMeant)
  BY CleanFromInv
<1> QED
  BY <1>1, OrderInit, OrderNext, PTL DEF AnswerSpec
================================================================================
