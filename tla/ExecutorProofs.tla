--------------------------- MODULE ExecutorProofs ---------------------------
(* Theorems about Executor, for any tasks, spawns, traps and brackets.  The   *)
(* argument: while the wake atom is the one the tick read before it polled,   *)
(* every task that was polled has a wake to come that will find its waker and *)
(* move the atom; the executor only sleeps on that value.                     *)
EXTENDS Executor, SequenceTheorems, TLAPS

(***************************************************************************)
(* Lists of tasks.                                                         *)
(***************************************************************************)

LEMMA EmptyList == Elems(<<>>) = {} /\ Distinct(<<>>) /\ <<>> \in Seq(Tasks)
  BY DEF Elems, Distinct

LEMMA AppendList ==
  ASSUME NEW s \in Seq(Tasks), NEW x \in Tasks
  PROVE  /\ Append(s, x) \in Seq(Tasks) /\ Append(s, x) # <<>>
         /\ Elems(Append(s, x)) = Elems(s) \cup {x}
         /\ Distinct(s) /\ x \notin Elems(s) => Distinct(Append(s, x))
<1> DEFINE t == Append(s, x)
<1>1. /\ t \in Seq(Tasks) /\ Len(t) = Len(s) + 1 /\ Len(s) \in Nat
      /\ \A i \in 1..Len(s) : t[i] = s[i]
      /\ t[Len(s) + 1] = x
  OBVIOUS
<1> HIDE DEF t
<1>2. t # <<>>
  BY <1>1
<1>3. Elems(t) = Elems(s) \cup {x}
  <2>1. \A y \in Elems(t) : y \in Elems(s) \cup {x}
    BY <1>1 DEF Elems
  <2>2. \A y \in Elems(s) \cup {x} : y \in Elems(t)
    BY <1>1 DEF Elems
  <2> QED BY <2>1, <2>2
<1>4. Distinct(s) /\ x \notin Elems(s) => Distinct(t)
  BY <1>1 DEF Distinct, Elems
<1> QED BY <1>1, <1>2, <1>3, <1>4 DEF t

LEMMA TailList ==
  ASSUME NEW s \in Seq(Tasks), s # <<>>
  PROVE  /\ Head(s) \in Tasks /\ Tail(s) \in Seq(Tasks)
         /\ Elems(s) = Elems(Tail(s)) \cup {Head(s)}
         /\ Distinct(s) => Distinct(Tail(s)) /\ Head(s) \notin Elems(Tail(s))
<1> DEFINE t == Tail(s)
<1>1. /\ t \in Seq(Tasks) /\ Len(s) = Len(t) + 1 /\ Len(t) \in Nat
      /\ \A i \in 1..Len(t) : t[i] = s[i + 1]
      /\ Head(s) = s[1] /\ s[1] \in Tasks
  BY HeadTailProperties, LenProperties, EmptySeq
<1> HIDE DEF t
<1>2. Elems(s) = Elems(t) \cup {Head(s)}
  <2>1. ASSUME NEW i \in 1..Len(s) PROVE s[i] \in Elems(t) \cup {Head(s)}
    <3>1. CASE i = 1
      BY <1>1, <3>1
    <3>2. CASE i # 1
      <4>1. i - 1 \in 1..Len(t) /\ t[i - 1] = s[i]
        BY <1>1, <3>2
      <4> QED BY <4>1 DEF Elems
    <3> QED BY <3>1, <3>2
  <2>2. ASSUME NEW i \in 1..Len(t) PROVE t[i] \in Elems(s)
    <3>1. i + 1 \in 1..Len(s) /\ t[i] = s[i + 1]
      BY <1>1
    <3> QED BY <3>1 DEF Elems
  <2>3. Head(s) \in Elems(s)
    BY <1>1 DEF Elems
  <2> QED BY <2>1, <2>2, <2>3 DEF Elems
<1>3. ASSUME Distinct(s) PROVE Distinct(t) /\ Head(s) \notin Elems(t)
  <2>1. ASSUME NEW i \in 1..Len(t), NEW j \in 1..Len(t), t[i] = t[j] PROVE i = j
    <3>1. i + 1 \in 1..Len(s) /\ j + 1 \in 1..Len(s) /\ s[i + 1] = s[j + 1]
      BY <1>1, <2>1
    <3>2. i + 1 = j + 1
      BY <1>3, <3>1 DEF Distinct
    <3> QED BY <3>2
  <2>2. ASSUME NEW i \in 1..Len(t), t[i] = s[1] PROVE FALSE
    <3>1. i + 1 \in 1..Len(s) /\ 1 \in 1..Len(s) /\ s[i + 1] = s[1]
      BY <1>1, <2>2
    <3>2. i + 1 = 1
      BY <1>3, <3>1 DEF Distinct
    <3> QED BY <3>2
  <2> QED BY <1>1, <2>1, <2>2 DEF Distinct, Elems
<1> QED BY <1>1, <1>2, <1>3 DEF t

LEMMA ConcatList ==
  ASSUME NEW s \in Seq(Tasks), NEW t \in Seq(Tasks)
  PROVE  /\ s \o t \in Seq(Tasks)
         /\ Elems(s \o t) = Elems(s) \cup Elems(t)
         /\ Distinct(s) /\ Distinct(t) /\ Elems(s) \cap Elems(t) = {} => Distinct(s \o t)
         /\ s \o t = <<>> <=> s = <<>> /\ t = <<>>
<1> DEFINE u == s \o t
<1>1. /\ u \in Seq(Tasks) /\ Len(s) \in Nat /\ Len(t) \in Nat /\ Len(u) = Len(s) + Len(t)
      /\ \A i \in 1..Len(s) + Len(t) : u[i] = IF i <= Len(s) THEN s[i] ELSE t[i - Len(s)]
  BY ConcatProperties, LenProperties
<1>2. u = <<>> <=> s = <<>> /\ t = <<>>
  BY ConcatEqualIffEmpty
<1> HIDE DEF u
<1>3. ASSUME NEW i \in 1..Len(u) PROVE u[i] \in Elems(s) \cup Elems(t)
  <2>1. CASE i <= Len(s)
    BY <1>1, <2>1 DEF Elems
  <2>2. CASE i > Len(s)
    <3>1. i - Len(s) \in 1..Len(t) /\ u[i] = t[i - Len(s)]
      BY <1>1, <2>2
    <3> QED BY <3>1 DEF Elems
  <2> QED BY <1>1, <2>1, <2>2
<1>4. ASSUME NEW i \in 1..Len(s) PROVE s[i] \in Elems(u)
  <2>1. i \in 1..Len(u) /\ u[i] = s[i]
    BY <1>1
  <2> QED BY <2>1 DEF Elems
<1>5. ASSUME NEW i \in 1..Len(t) PROVE t[i] \in Elems(u)
  <2>1. PICK k \in Int : k = i + Len(s)
    BY <1>1
  <2>2. k \in 1..Len(u) /\ k - Len(s) = i /\ ~(k <= Len(s))
    BY <1>1, <2>1
  <2>3. u[k] = t[i]
    BY <1>1, <2>2
  <2> QED BY <2>2, <2>3 DEF Elems
<1>6. ASSUME Distinct(s), Distinct(t), Elems(s) \cap Elems(t) = {},
             NEW i \in 1..Len(u), NEW j \in 1..Len(u), u[i] = u[j]
      PROVE  i = j
  <2>1. ASSUME NEW k \in 1..Len(u), k <= Len(s) PROVE k \in 1..Len(s) /\ u[k] = s[k]
    BY <1>1, <2>1
  <2>2. ASSUME NEW k \in 1..Len(u), ~(k <= Len(s))
        PROVE  k - Len(s) \in 1..Len(t) /\ u[k] = t[k - Len(s)]
    BY <1>1, <2>2
  <2>3. CASE i <= Len(s) /\ j <= Len(s)
    BY <1>6, <2>1, <2>3 DEF Distinct
  <2>4. CASE ~(i <= Len(s)) /\ ~(j <= Len(s))
    <3>1. i - Len(s) = j - Len(s)
      BY <1>6, <2>2, <2>4 DEF Distinct
    <3> QED BY <1>1, <3>1
  <2>5. CASE i <= Len(s) /\ ~(j <= Len(s))
    <3>1. u[i] \in Elems(s) /\ u[j] \in Elems(t)
      BY <2>1, <2>2, <2>5 DEF Elems
    <3> QED BY <1>6, <3>1
  <2>6. CASE ~(i <= Len(s)) /\ j <= Len(s)
    <3>1. u[i] \in Elems(t) /\ u[j] \in Elems(s)
      BY <2>1, <2>2, <2>6 DEF Elems
    <3> QED BY <1>6, <3>1
  <2> QED BY <2>3, <2>4, <2>5, <2>6
<1>7. Elems(u) = Elems(s) \cup Elems(t)
  BY <1>3, <1>4, <1>5 DEF Elems
<1> QED BY <1>1, <1>2, <1>6, <1>7 DEF u, Distinct

(***************************************************************************)
(* The invariant holds at the start and is kept by every step.             *)
(***************************************************************************)

LEMMA InitInv == Init => IInv
<1> SUFFICES ASSUME Init PROVE IInv
  OBVIOUS
<1>1. TypeOK
  <2>1. queue \in Seq(Tasks) /\ polling \in Seq(Tasks) /\ kept \in Seq(Tasks)
    BY EmptyList DEF Init
  <2>2. pending \in 0..MaxPending
    BY ExecutorAssumption DEF Init
  <2> QED BY <2>1, <2>2 DEF Init, TypeOK
<1>3. ListsExact
  BY EmptyList DEF Init, ListsExact
<1>2. TickHolds /\ PairsFollow /\ TickCovered /\ SleepCovered /\ OneTickChain
  BY DEF Init, TickHolds, PairsFollow, TickCovered, SleepCovered, OneTickChain, InTick
<1> QED BY <1>1, <1>2, <1>3 DEF IInv

LEMMA Members ==
  ASSUME TypeOK
  PROVE  /\ Elems(queue) \subseteq Tasks /\ Elems(polling) \subseteq Tasks
         /\ Elems(kept) \subseteq Tasks
         /\ polling # <<>> => Head(polling) \in Elems(polling)
<1>1. Elems(queue) \subseteq Tasks /\ Elems(polling) \subseteq Tasks /\ Elems(kept) \subseteq Tasks
  BY ElementOfSeq DEF TypeOK, Elems
<1>2. polling # <<>> => Head(polling) \in Elems(polling)
  BY TailList DEF TypeOK
<1> QED BY <1>1, <1>2

\* The threads that wake: they touch no list and no step of the tick.
LEMMA ClaimKeeps == ASSUME IInv, NEW k \in Tasks, Claim(k) PROVE IInv'
<1> USE DEF IInv, tickVars, endVars
<1>1. TypeOK'
  BY Members DEF Claim, TypeOK, PairsFollow
<1>2. ListsExact'
  BY Members DEF Claim, TypeOK, PairsFollow, ListsExact
<1>3. TickHolds'
  BY Members DEF Claim, TypeOK, PairsFollow, TickHolds
<1>4. PairsFollow'
  BY Members DEF Claim, TypeOK, PairsFollow
<1>5. TickCovered'
  <2>1. \A j \in Tasks : WillBump(j) => WillBump(j)'
    BY DEF Claim, TypeOK, PairsFollow, WillBump
  <2>2. at' = "recheck" /\ state'[Head(polling)] = "waiting" => state[Head(polling)] = "waiting"
    BY Members DEF Claim, TypeOK, TickHolds
  <2> QED BY <2>1, <2>2, Members DEF Claim, TickCovered
<1>6. SleepCovered'
  BY Members DEF Claim, TypeOK, PairsFollow, SleepCovered, WillBump
<1>7. OneTickChain'
  BY Members DEF Claim, TypeOK, PairsFollow, OneTickChain, InTick
<1> QED BY <1>1, <1>2, <1>3, <1>4, <1>5, <1>6, <1>7

LEMMA TakeWakerKeeps == ASSUME IInv, NEW k \in Tasks, TakeWaker(k) PROVE IInv'
<1> USE DEF IInv, tickVars, endVars
<1>1. TypeOK'
  BY Members DEF TakeWaker, TypeOK, PairsFollow
<1>2. ListsExact'
  BY Members DEF TakeWaker, TypeOK, PairsFollow, ListsExact
<1>3. TickHolds'
  BY Members DEF TakeWaker, TypeOK, PairsFollow, TickHolds
<1>4. PairsFollow'
  BY Members DEF TakeWaker, TypeOK, PairsFollow
<1>5. TickCovered'
  BY Members DEF TakeWaker, TypeOK, PairsFollow, TickCovered, WillBump
<1>6. SleepCovered'
  BY Members DEF TakeWaker, TypeOK, PairsFollow, SleepCovered, WillBump
<1>7. OneTickChain'
  BY Members DEF TakeWaker, TypeOK, PairsFollow, OneTickChain, InTick
<1> QED BY <1>1, <1>2, <1>3, <1>4, <1>5, <1>6, <1>7

LEMMA BumpKeeps == ASSUME IInv, NEW k \in Tasks, Bump(k) PROVE IInv'
<1> USE DEF IInv, tickVars, endVars
<1>1. TypeOK'
  BY Members DEF Bump, TypeOK, PairsFollow
<1>2. ListsExact'
  BY Members DEF Bump, TypeOK, PairsFollow, ListsExact
<1>3. TickHolds'
  BY Members DEF Bump, TypeOK, PairsFollow, TickHolds
<1>4. PairsFollow'
  BY Members DEF Bump, TypeOK, PairsFollow
<1>5. TickCovered'
  BY Members DEF Bump, TypeOK, PairsFollow, TickCovered, WillBump
<1>6. SleepCovered'
  BY Members DEF Bump, TypeOK, PairsFollow, SleepCovered, WillBump
<1>7. OneTickChain'
  BY Members DEF Bump, TypeOK, PairsFollow, OneTickChain, InTick
<1> QED BY <1>1, <1>2, <1>3, <1>4, <1>5, <1>6, <1>7

LEMMA NotifyKeeps == ASSUME IInv, NEW k \in Tasks, Notify(k) PROVE IInv'
<1> USE DEF IInv, tickVars, endVars
<1>1. TypeOK'
  BY Members DEF Notify, Notified, TypeOK, PairsFollow
<1>2. ListsExact'
  BY Members DEF Notify, Notified, TypeOK, PairsFollow, ListsExact
<1>3. TickHolds'
  BY Members DEF Notify, Notified, TypeOK, PairsFollow, TickHolds
<1>4. PairsFollow'
  BY Members DEF Notify, Notified, TypeOK, PairsFollow
<1>5. TickCovered'
  BY Members DEF Notify, Notified, TypeOK, PairsFollow, TickCovered, WillBump
<1>6. SleepCovered'
  BY Members DEF Notify, Notified, TypeOK, PairsFollow, SleepCovered, WillBump
<1>7. OneTickChain'
  BY Members DEF Notify, Notified, TypeOK, PairsFollow, OneTickChain, InTick
<1> QED BY <1>1, <1>2, <1>3, <1>4, <1>5, <1>6, <1>7

\* The brackets and the bootstrap's question: nothing of the executor moves.
LEMMA BracketsKeep == ASSUME IInv, TaskBegin \/ TaskFinished \/ Drained PROVE IInv'
<1> USE DEF IInv, tickVars, pairVars, endVars
<1>0. /\ UNCHANGED <<queue, polling, kept, at, running, expected, atom, callback, state,
                     waker, delivered, notifier, life, trapped>>
      /\ pending' \in 0..MaxPending /\ closed' \in BOOLEAN
  <2>1. CASE TaskBegin
    BY <2>1, ExecutorAssumption DEF TaskBegin, TypeOK
  <2>2. CASE TaskFinished
    BY <2>2, ExecutorAssumption DEF TaskFinished, TypeOK
  <2>3. CASE Drained
    BY <2>3 DEF Drained, TypeOK
  <2> QED BY <2>1, <2>2, <2>3
<1>1. TypeOK'
  BY <1>0 DEF TypeOK
<1>2. ListsExact' /\ TickHolds' /\ PairsFollow'
  BY <1>0 DEF ListsExact, TickHolds, PairsFollow
<1>3. TickCovered' /\ SleepCovered' /\ OneTickChain'
  BY <1>0 DEF TickCovered, SleepCovered, WillBump, OneTickChain, InTick
<1> QED BY <1>1, <1>2, <1>3

LEMMA PollLoadKeeps == ASSUME IInv, PollLoad PROVE IInv'
<1> USE DEF IInv, pairVars, endVars
<1>1. TypeOK'
  BY Members DEF PollLoad, TypeOK, TickHolds
<1>2. ListsExact'
  BY Members DEF PollLoad, TypeOK, TickHolds, ListsExact
<1>3. TickHolds'
  BY Members DEF PollLoad, TypeOK, TickHolds
<1>4. PairsFollow'
  BY Members DEF PollLoad, TypeOK, TickHolds, PairsFollow
<1>5. TickCovered'
  BY Members DEF PollLoad, TypeOK, TickHolds, TickCovered, WillBump
<1>6. SleepCovered'
  BY Members DEF PollLoad, TypeOK, TickHolds, SleepCovered, WillBump
<1>7. OneTickChain'
  BY Members DEF PollLoad, TypeOK, TickHolds, OneTickChain, InTick
<1> QED BY <1>1, <1>2, <1>3, <1>4, <1>5, <1>6, <1>7

LEMMA PollRegisterKeeps == ASSUME IInv, PollRegister PROVE IInv'
<1> USE DEF IInv, pairVars, endVars
<1>1. TypeOK'
  BY Members DEF PollRegister, TypeOK, TickHolds
<1>2. ListsExact'
  BY Members DEF PollRegister, TypeOK, TickHolds, ListsExact
<1>3. TickHolds'
  BY Members DEF PollRegister, TypeOK, TickHolds
<1>4. PairsFollow'
  BY Members DEF PollRegister, TypeOK, TickHolds, PairsFollow
<1>5. TickCovered'
  BY Members DEF PollRegister, TypeOK, TickHolds, TickCovered, WillBump
<1>6. SleepCovered'
  BY Members DEF PollRegister, TypeOK, TickHolds, SleepCovered, WillBump
<1>7. OneTickChain'
  BY Members DEF PollRegister, TypeOK, TickHolds, OneTickChain, InTick
<1> QED BY <1>1, <1>2, <1>3, <1>4, <1>5, <1>6, <1>7

LEMMA PollGiveUpKeeps == ASSUME IInv, PollGiveUp PROVE IInv'
<1> USE DEF IInv, pairVars, endVars
<1>1. TypeOK'
  BY Members DEF PollGiveUp, TypeOK, TickHolds
<1>2. ListsExact'
  BY Members DEF PollGiveUp, TypeOK, TickHolds, ListsExact
<1>3. TickHolds'
  BY Members DEF PollGiveUp, TypeOK, TickHolds
<1>4. PairsFollow'
  BY Members DEF PollGiveUp, TypeOK, TickHolds, PairsFollow
<1>5. TickCovered'
  <2>1. \A j \in Elems(kept) : j # Head(polling)
    BY Members DEF PollGiveUp, ListsExact
  <2>2. \A j \in Elems(kept) : WillBump(j) => WillBump(j)'
    BY <2>1, Members DEF PollGiveUp, TypeOK, WillBump
  <2> QED BY <2>2 DEF PollGiveUp, TickCovered
<1>6. SleepCovered'
  BY DEF PollGiveUp, SleepCovered, OneTickChain, InTick, TickHolds
<1>7. OneTickChain'
  BY Members DEF PollGiveUp, TypeOK, TickHolds, OneTickChain, InTick
<1> QED BY <1>1, <1>2, <1>3, <1>4, <1>5, <1>6, <1>7

LEMMA PollRecheckKeeps == ASSUME IInv, PollRecheck PROVE IInv'
<1> USE DEF IInv, pairVars, endVars
<1>1. TypeOK'
  <2>1. polling' \in Seq(Tasks) /\ kept' \in Seq(Tasks)
    <3>1. polling \in Seq(Tasks) /\ polling # <<>> /\ kept \in Seq(Tasks)
      BY DEF PollRecheck, TypeOK, TickHolds
    <3>2. Tail(polling) \in Seq(Tasks) /\ Append(kept, Head(polling)) \in Seq(Tasks)
      BY <3>1, TailList, AppendList
    <3> QED BY <3>1, <3>2 DEF PollRecheck
  <2> QED BY <2>1 DEF PollRecheck, TypeOK
<1>2. ListsExact'
  <2>1. CASE UNCHANGED <<polling, kept>>
    BY <2>1 DEF PollRecheck, ListsExact
  <2>2. CASE kept' = Append(kept, Head(polling)) /\ polling' = Tail(polling)
    <3>1. polling \in Seq(Tasks) /\ polling # <<>> /\ kept \in Seq(Tasks)
      BY DEF PollRecheck, TypeOK, TickHolds
    <3>2. /\ Elems(polling) = Elems(polling') \cup {Head(polling)}
          /\ Distinct(polling') /\ Head(polling) \notin Elems(polling')
          /\ Head(polling) \in Tasks
      BY <2>2, <3>1, TailList DEF ListsExact
    <3>3. Elems(kept') = Elems(kept) \cup {Head(polling)} /\ Distinct(kept')
      BY <2>2, <3>1, <3>2, AppendList DEF ListsExact
    <3> QED BY <3>2, <3>3 DEF PollRecheck, ListsExact
  <2> QED BY <2>1, <2>2 DEF PollRecheck
<1>3. TickHolds'
  BY Members, TailList, AppendList DEF PollRecheck, TypeOK, TickHolds
<1>4. PairsFollow'
  BY Members, TailList, AppendList DEF PollRecheck, TypeOK, TickHolds, PairsFollow
<1>5. TickCovered'
  <2>1. CASE state[Head(polling)] = "woken"
    BY <2>1 DEF PollRecheck, TickCovered, WillBump
  <2>2. CASE state[Head(polling)] # "woken"
    <3>1. polling \in Seq(Tasks) /\ polling # <<>> /\ kept \in Seq(Tasks)
      BY DEF PollRecheck, TypeOK, TickHolds
    <3>2. Head(polling) \in Tasks /\ life[Head(polling)] = "pending"
      BY <3>1, TailList, Members DEF ListsExact
    <3>3. state[Head(polling)] = "waiting"
      BY <2>2, <3>2 DEF PollRecheck, PairsFollow, TypeOK
    <3>4. WillBump(Head(polling))
      BY <3>3 DEF PollRecheck, TickCovered, WillBump
    <3>5. Elems(kept') = Elems(kept) \cup {Head(polling)} /\ at' = "load"
      BY <2>2, <3>1, <3>2, AppendList DEF PollRecheck
    <3> QED BY <3>4, <3>5 DEF PollRecheck, TickCovered, WillBump
  <2> QED BY <2>1, <2>2
<1>6. SleepCovered'
  BY Members, TailList, AppendList DEF PollRecheck, TypeOK, TickHolds, SleepCovered, WillBump
<1>7. OneTickChain'
  BY Members, TailList, AppendList DEF PollRecheck, TypeOK, TickHolds, OneTickChain, InTick
<1> QED BY <1>1, <1>2, <1>3, <1>4, <1>5, <1>6, <1>7

LEMMA PollPanicKeeps == ASSUME IInv, PollPanic PROVE IInv'
<1> USE DEF IInv, pairVars, endVars
<1>1. TypeOK'
  BY Members, EmptyList, ConcatList DEF PollPanic, TypeOK, TickHolds
<1>2. ListsExact'
  <2>0. Taken = Elems(polling) \cup Elems(kept)
    <3>1. Taken = Elems(polling \o kept)
      BY DEF Taken, Elems
    <3> QED BY <3>1, ConcatList DEF TypeOK
  <2>1. \A k \in Tasks : life'[k] = IF k \in Taken THEN "lost" ELSE life[k]
    BY DEF PollPanic
  <2>2. queue' = queue /\ Elems(polling') = {} /\ Elems(kept') = {}
        /\ Distinct(polling') /\ Distinct(kept')
    BY EmptyList DEF PollPanic
  <2> QED BY <2>0, <2>1, <2>2 DEF ListsExact
<1>3. TickHolds'
  BY DEF PollPanic, TickHolds, OneTickChain, InTick
<1>4. PairsFollow'
  <2>0. Taken = Elems(polling) \cup Elems(kept)
    <3>1. Taken = Elems(polling \o kept)
      BY DEF Taken, Elems
    <3> QED BY <3>1, ConcatList DEF TypeOK
  <2>1. Head(polling) \in Taken
    BY <2>0, Members DEF PollPanic, TickHolds
  <2>2. \A k \in Tasks : life'[k] = IF k \in Taken THEN "lost" ELSE life[k]
    BY DEF PollPanic
  <2> QED BY <2>1, <2>2 DEF PollPanic, PairsFollow
<1>5. TickCovered'
  BY Members, EmptyList, ConcatList DEF PollPanic, TypeOK, TickHolds, TickCovered, WillBump
<1>6. SleepCovered'
  BY Members, EmptyList, ConcatList DEF PollPanic, TypeOK, TickHolds, SleepCovered, WillBump
<1>7. OneTickChain'
  BY Members, EmptyList, ConcatList DEF PollPanic, TypeOK, TickHolds, OneTickChain, InTick
<1> QED BY <1>1, <1>2, <1>3, <1>4, <1>5, <1>6, <1>7

LEMMA TickBeginKeeps == ASSUME IInv, TickBegin PROVE IInv'
<1> USE DEF IInv, pairVars, endVars
<1>1. TypeOK'
  BY Members, EmptyList DEF TickBegin, TypeOK, TickHolds
<1>2. ListsExact'
  BY Members, EmptyList DEF TickBegin, TypeOK, TickHolds, ListsExact
<1>3. TickHolds'
  BY Members, EmptyList DEF TickBegin, TypeOK, TickHolds
<1>4. PairsFollow'
  BY Members, EmptyList DEF TickBegin, TypeOK, TickHolds, PairsFollow
<1>5. TickCovered'
  BY Members, EmptyList DEF TickBegin, TypeOK, TickHolds, TickCovered, WillBump
<1>6. SleepCovered'
  BY Members, EmptyList DEF TickBegin, TypeOK, TickHolds, SleepCovered, WillBump
<1>7. OneTickChain'
  BY Members, EmptyList DEF TickBegin, TypeOK, TickHolds, OneTickChain, InTick
<1> QED BY <1>1, <1>2, <1>3, <1>4, <1>5, <1>6, <1>7

LEMMA TickEndKeeps == ASSUME IInv, TickEnd PROVE IInv'
<1> USE DEF IInv, pairVars, endVars
<1>1. TypeOK'
  BY Members, EmptyList, ConcatList DEF TickEnd, TypeOK, TickHolds
<1>2. ListsExact'
  BY Members, EmptyList, ConcatList DEF TickEnd, TypeOK, TickHolds, ListsExact
<1>3. TickHolds'
  BY Members, EmptyList, ConcatList DEF TickEnd, TypeOK, TickHolds
<1>4. PairsFollow'
  BY Members, EmptyList, ConcatList DEF TickEnd, TypeOK, TickHolds, PairsFollow
<1>5. TickCovered'
  BY Members, EmptyList, ConcatList DEF TickEnd, TypeOK, TickHolds, TickCovered, WillBump
<1>6. SleepCovered'
  <2>1. CASE kept \o queue = <<>>
    BY <2>1, EmptyList DEF TickEnd, SleepCovered, OneTickChain, InTick, TickHolds
  <2>2. CASE kept \o queue # <<>> /\ atom = expected
    <3>1. queue = <<>> /\ \A k \in Elems(kept) : WillBump(k)
      BY <2>2 DEF TickEnd, TickCovered
    <3>2. Elems(queue') = Elems(kept)
      BY <3>1, EmptyList, ConcatList DEF TickEnd, TypeOK
    <3> QED BY <3>1, <3>2 DEF TickEnd, SleepCovered, WillBump
  <2>3. CASE kept \o queue # <<>> /\ atom # expected
    BY <2>3 DEF TickEnd, SleepCovered
  <2> QED BY <2>1, <2>2, <2>3
<1>7. OneTickChain'
  BY Members, EmptyList, ConcatList DEF TickEnd, TypeOK, TickHolds, OneTickChain, InTick
<1> QED BY <1>1, <1>2, <1>3, <1>4, <1>5, <1>6, <1>7

\* A task is pushed: in a tick, or with the executor idle, it moves the atom; the
\* task is in no list before.
LEMMA PushFacts ==
  ASSUME IInv, NEW k \in Tasks, Push(k)
  PROVE  /\ queue' \in Seq(Tasks) /\ queue' # <<>> /\ Distinct(queue')
         /\ Elems(queue') = Elems(queue) \cup {k}
         /\ k \notin Elems(queue) \cup Elems(polling) \cup Elems(kept)
         /\ running' /\ callback' # "asleep" /\ callback' \in {"none", "scheduled"}
         /\ atom' \in Nat /\ atom <= atom' /\ (running => atom' = atom + 1)
         /\ running => (callback' = "none" <=> callback = "none")
         /\ ~running => callback' = "scheduled"
         /\ life[k] = "unborn"
<1> USE DEF IInv, TypeOK
<1>1. k \notin Elems(queue) \cup Elems(polling) \cup Elems(kept)
  BY DEF Push, ListsExact
<1>2. /\ queue' \in Seq(Tasks) /\ queue' # <<>> /\ Distinct(queue')
      /\ Elems(queue') = Elems(queue) \cup {k}
  BY <1>1, AppendList DEF Push, ListsExact
<1>3. CASE running
  BY <1>1, <1>2, <1>3 DEF Push, Notified
<1>4. CASE ~running
  BY <1>1, <1>2, <1>4 DEF Push, Notified
<1> QED BY <1>3, <1>4

LEMMA SpawnLocalKeeps == ASSUME IInv, NEW k \in Tasks, SpawnLocal(k) PROVE IInv'
<1> USE DEF IInv, pairVars, endVars
<1>0. Push(k)
  BY DEF SpawnLocal
<1>1. TypeOK'
  BY <1>0, PushFacts DEF SpawnLocal, TypeOK
<1>2. ListsExact'
  BY <1>0, PushFacts DEF SpawnLocal, ListsExact, TypeOK
<1>3. TickHolds'
  BY <1>0, PushFacts DEF SpawnLocal, TickHolds, TypeOK, OneTickChain, InTick
<1>4. PairsFollow'
  BY <1>0, PushFacts DEF SpawnLocal, PairsFollow, TypeOK
<1>5. TickCovered'
  BY DEF SpawnLocal, TickCovered
<1>6. SleepCovered'
  BY <1>0, PushFacts DEF SleepCovered
<1>7. OneTickChain'
  BY <1>0, PushFacts DEF SpawnLocal, OneTickChain, InTick
<1> QED BY <1>1, <1>2, <1>3, <1>4, <1>5, <1>6, <1>7

\* The task in hand leaves the tick's list.
LEMMA PollReadyKeeps == ASSUME IInv, PollReady PROVE IInv'
<1> USE DEF IInv, pairVars, endVars
<1> DEFINE k == Head(polling)
           c == Child[k]
<1>0. /\ polling \in Seq(Tasks) /\ polling # <<>> /\ k \in Elems(polling) /\ k \in Tasks
      /\ polling' \in Seq(Tasks) /\ Distinct(polling') /\ k \notin Elems(polling')
      /\ Elems(polling) = Elems(polling') \cup {k}
      /\ at = "ready" /\ at' = "load" /\ ~trapped /\ running /\ callback = "none"
      /\ UNCHANGED <<kept, expected, state, waker, delivered, notifier, pending, trapped, closed>>
      /\ life[k] = "pending"
  <2>1. polling \in Seq(Tasks) /\ polling # <<>> /\ at = "ready" /\ polling' = Tail(polling)
    BY DEF PollReady, TypeOK, TickHolds
  <2>2. /\ k \in Tasks /\ polling' \in Seq(Tasks) /\ Elems(polling) = Elems(polling') \cup {k}
        /\ Distinct(polling') /\ k \notin Elems(polling')
    BY <2>1, TailList DEF ListsExact
  <2>3. life[k] = "pending"
    BY <2>2 DEF ListsExact
  <2> QED BY <2>1, <2>2, <2>3 DEF PollReady, TickHolds, OneTickChain, InTick
<1>1. CASE c = None
  <2>0. /\ life' = [life EXCEPT ![k] = "done"]
        /\ UNCHANGED <<queue, running, atom, callback>>
    BY <1>1 DEF PollReady
  <2> HIDE DEF k
  <2>1. TypeOK'
    BY <1>0, <2>0 DEF TypeOK
  <2>2. ListsExact'
    BY <1>0, <2>0 DEF ListsExact, TypeOK
  <2>3. TickHolds' /\ OneTickChain'
    BY <1>0, <2>0 DEF TickHolds, OneTickChain, InTick
  <2>4. PairsFollow'
    BY <1>0, <2>0 DEF PairsFollow, TypeOK, k
  <2>5. TickCovered' /\ SleepCovered'
    BY <1>0, <2>0 DEF TickCovered, SleepCovered, WillBump
  <2> QED BY <2>1, <2>2, <2>3, <2>4, <2>5
<1>2. CASE c # None
  <2>0. /\ c \in Tasks /\ Push(c)
        /\ life' = [life EXCEPT ![k] = "done", ![c] = "pending"]
    BY <1>0, <1>2, ExecutorAssumption DEF PollReady
  <2> HIDE DEF k, c
  <2>a. c # k
    BY <1>0, <2>0, PushFacts
  <2>1. TypeOK'
    BY <1>0, <2>0, PushFacts DEF TypeOK
  <2>2. ListsExact'
    <3>1. \A j \in Tasks : life'[j] = IF j = c THEN "pending" ELSE IF j = k THEN "done" ELSE life[j]
      BY <2>0 DEF TypeOK
    <3>2. /\ Distinct(queue') /\ Elems(queue') = Elems(queue) \cup {c} /\ kept' = kept
          /\ c \notin Elems(queue) \cup Elems(polling) \cup Elems(kept)
      BY <1>0, <2>0, PushFacts
    <3>3. /\ Distinct(queue') /\ Distinct(polling') /\ Distinct(kept')
          /\ Elems(queue') \cap Elems(polling') = {}
          /\ Elems(queue') \cap Elems(kept') = {}
          /\ Elems(polling') \cap Elems(kept') = {}
      BY <1>0, <3>2 DEF ListsExact
    <3>4. ASSUME NEW j \in Tasks
          PROVE  life'[j] = "pending" <=> j \in Elems(queue') \cup Elems(polling') \cup Elems(kept')
      BY <1>0, <2>a, <3>1, <3>2 DEF ListsExact
    <3> QED BY <3>3, <3>4 DEF ListsExact
  <2>3. TickHolds' /\ OneTickChain'
    BY <1>0, <2>0, PushFacts DEF TickHolds, OneTickChain, InTick
  <2>4. PairsFollow'
    BY <1>0, <2>0, <2>a, PushFacts DEF PairsFollow, TypeOK, k
  <2>5. TickCovered' /\ SleepCovered'
    BY <1>0, <2>0, PushFacts DEF TickCovered, SleepCovered, TypeOK
  <2> QED BY <2>1, <2>2, <2>3, <2>4, <2>5
<1> QED BY <1>1, <1>2

LEMMA StepInv == IInv /\ [Next]_vars => IInv'
<1>1. ASSUME IInv, UNCHANGED vars PROVE IInv'
  <2> USE <1>1 DEF IInv, vars, pairVars, endVars
  <2>1. TypeOK' /\ ListsExact' /\ TickHolds' /\ PairsFollow'
    BY DEF TypeOK, ListsExact, TickHolds, PairsFollow
  <2>2. TickCovered' /\ SleepCovered' /\ OneTickChain'
    BY DEF TickCovered, SleepCovered, WillBump, OneTickChain, InTick
  <2> QED BY <2>1, <2>2
<1>2. ASSUME IInv, Next PROVE IInv'
  <2>1. CASE Tick
    BY <1>2, <2>1, TickBeginKeeps, PollLoadKeeps, PollRegisterKeeps, PollRecheckKeeps,
       PollReadyKeeps, TickEndKeeps DEF Tick
  <2>2. CASE TaskBegin \/ TaskFinished \/ Drained
    BY <1>2, <2>2, BracketsKeep
  <2>3. CASE PollGiveUp \/ PollPanic
    BY <1>2, <2>3, PollGiveUpKeeps, PollPanicKeeps
  <2>4. ASSUME NEW k \in Tasks, SpawnLocal(k) \/ Claim(k) \/ Wake(k) PROVE IInv'
    BY <1>2, <2>4, SpawnLocalKeeps, ClaimKeeps, TakeWakerKeeps, BumpKeeps, NotifyKeeps DEF Wake
  <2> QED BY <1>2, <2>1, <2>2, <2>3, <2>4 DEF Next
<1> QED BY <1>1, <1>2

\* What a closed worker and a notifier rely on is kept too.
LEMMA EndsInit == Init => EndsExact
  BY DEF Init, EndsExact, WakeReports

LEMMA EndsStep == IInv /\ EndsExact /\ [Next]_vars => EndsExact'
<1> SUFFICES ASSUME IInv, EndsExact, [Next]_vars PROVE EndsExact'
  OBVIOUS
<1> USE DEF IInv, TypeOK, EndsExact, WakeReports, tickVars, pairVars, endVars
<1>1. CASE TickBegin \/ PollLoad \/ PollRegister \/ PollRecheck \/ TickEnd
  BY <1>1 DEF TickBegin, PollLoad, PollRegister, PollRecheck, TickEnd
<1>2. CASE PollReady \/ PollPanic
  BY <1>2 DEF PollReady, PollPanic
<1>3. CASE PollGiveUp
  <2>1. Head(polling) \in Tasks /\ at # "out"
    BY <1>3, TailList DEF PollGiveUp
  <2> QED BY <1>3, <2>1 DEF PollGiveUp, PairsFollow
<1>4. CASE TaskBegin \/ TaskFinished \/ Drained
  BY <1>4, ExecutorAssumption DEF TaskBegin, TaskFinished, Drained
<1>5. ASSUME NEW k \in Tasks, SpawnLocal(k) PROVE EndsExact'
  BY <1>5 DEF SpawnLocal
<1>6. ASSUME NEW k \in Tasks, Claim(k) PROVE EndsExact'
  BY <1>6 DEF Claim
<1>7. ASSUME NEW k \in Tasks, Wake(k) PROVE EndsExact'
  BY <1>7 DEF Wake, TakeWaker, Bump, Notify
<1>8. CASE UNCHANGED vars
  BY <1>8 DEF vars
<1> QED BY <1>1, <1>2, <1>3, <1>4, <1>5, <1>6, <1>7, <1>8 DEF Next, Tick

(***************************************************************************)
(* The theorems.                                                           *)
(***************************************************************************)

\* The strengthened invariant holds in every reachable state of a realm.
THEOREM ExecutorInvariance == Spec => []IInv
  BY InitInv, StepInv, PTL DEF Spec

\* The executor's variables keep their types.
THEOREM ExecutorTypes == Spec => []TypeOK
<1>1. IInv => TypeOK
  BY DEF IInv
<1> QED BY ExecutorInvariance, <1>1, PTL

\* However spawns, polls and wakes interleave there is one tick chain, and
\* RUNNING is set exactly while the realm holds a task.
THEOREM OneChain == Spec => []OneTickChain
<1>1. IInv => OneTickChain
  BY DEF IInv
<1> QED BY ExecutorInvariance, <1>1, PTL

\* An executor that sleeps is woken for every task it holds: the waker is in
\* place or the notify is on its way.
THEOREM NoWakeIsLost == Spec => []SleepsWakeably
<1>1. IInv => SleepsWakeably
  <2> SUFFICES ASSUME IInv, callback = "asleep", NEW k \in Tasks, Held(k)
               PROVE  \/ state[k] = "waiting" /\ waker[k]
                      \/ notifier[k] \in {"wake", "bump", "notify"}
    BY DEF SleepsWakeably
  <2> USE DEF IInv
  <2>1. polling = <<>> /\ kept = <<>>
    BY DEF TickHolds, OneTickChain, InTick
  <2>2. k \in Elems(queue \o polling \o kept)
    BY DEF Held, Elems
  <2>3. k \in Elems(queue)
    BY <2>1, <2>2, EmptyList, ConcatList DEF TypeOK
  <2> QED BY <2>3 DEF SleepCovered, WillBump
<1> QED BY ExecutorInvariance, <1>1, PTL

\* Every pending task is held once, a closed worker has dropped none, and who
\* woke a task was told the truth.
THEOREM TasksAreKept == Spec => []TasksAccounted
<1>1. IInv /\ EndsExact => TasksAccounted
  <2> SUFFICES ASSUME IInv, EndsExact PROVE TasksAccounted
    OBVIOUS
  <2> USE DEF IInv, TypeOK
  <2> DEFINE most == queue \o polling
             whole == queue \o polling \o kept
  <2>1. most \in Seq(Tasks) /\ Distinct(most) /\ Elems(most) = Elems(queue) \cup Elems(polling)
    BY ConcatList DEF ListsExact
  <2>2. /\ whole \in Seq(Tasks) /\ Distinct(whole)
        /\ Elems(whole) = Elems(queue) \cup Elems(polling) \cup Elems(kept)
    <3> HIDE DEF most
    <3>1. Elems(most) \cap Elems(kept) = {}
      BY <2>1 DEF ListsExact
    <3>2. most \o kept \in Seq(Tasks) /\ Distinct(most \o kept)
          /\ Elems(most \o kept) = Elems(most) \cup Elems(kept)
      BY <2>1, <3>1, ConcatList DEF ListsExact
    <3> QED BY <2>1, <3>2 DEF most
  <2>3. \A k \in Tasks : Held(k) <=> k \in Elems(whole)
    BY DEF Held, Elems
  <2>4. TasksHeldOnce
    BY <2>2, <2>3 DEF TasksHeldOnce, Distinct, ListsExact
  <2>5. NoTaskAbandoned
    <3> SUFFICES ASSUME closed PROVE pending = 0 /\ \A k \in Tasks : life[k] # "pending"
      BY DEF NoTaskAbandoned
    <3>1. pending = 0 /\ ~running /\ at = "out" /\ ~trapped
      BY DEF EndsExact, TickHolds
    <3>2. queue = <<>> /\ polling = <<>> /\ kept = <<>>
      BY <3>1 DEF OneTickChain, InTick, TickHolds
    <3> QED BY <3>1, <3>2, EmptyList DEF ListsExact
  <2> QED BY <2>4, <2>5 DEF TasksAccounted, EndsExact
<1>2. Init => EndsExact
  BY EndsInit
<1>3. IInv /\ EndsExact /\ [Next]_vars => EndsExact'
  BY EndsStep
<1> QED BY <1>1, <1>2, <1>3, ExecutorInvariance, PTL DEF Spec
=============================================================================
