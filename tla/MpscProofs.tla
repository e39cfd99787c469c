----------------------------- MODULE MpscProofs -----------------------------
(* Theorems about Mpsc, for any senders, sends and receives: every message     *)
(* comes out once and in order, Disconnected is the last word, and no receiver *)
(* is stuck.  The argument: a receive answers Disconnected with the queue      *)
(* empty and the count at zero; the count is the number of handles, a send in  *)
(* progress holds its handle, and only a handle makes another.  A receiver     *)
(* registers with the lock held and nothing to take, so whatever changes that  *)
(* comes later, from a sender that then walks the lists past its entry.        *)
EXTENDS MCMpsc, CondvarProofs, SequenceTheorems, FiniteSetTheorems

(***************************************************************************)
(* Messages on their way.                                                  *)
(***************************************************************************)

LEMMA PushLast ==
  ASSUME NEW S, NEW g \in Seq(S), NEW q \in Seq(S), NEW m \in S
  PROVE  g \o Append(q, m) = Append(g \o q, m) /\ Append(q, m) \in Seq(S)
         /\ Append(g \o q, m) \in Seq(S)
<1> DEFINE l == g \o Append(q, m)
           r == Append(g \o q, m)
<1>1. g \o q \in Seq(S) /\ Append(q, m) \in Seq(S)
  BY ConcatProperties
<1>2. l \in Seq(S) /\ r \in Seq(S) /\ Len(l) = Len(r)
  BY <1>1, ConcatProperties, LenProperties
<1>3. ASSUME NEW i \in 1..Len(l) PROVE l[i] = r[i]
  <2>1. /\ i \in Nat /\ Len(g) \in Nat /\ Len(q) \in Nat /\ Len(g \o q) = Len(g) + Len(q)
        /\ Len(Append(q, m)) = Len(q) + 1 /\ Len(l) = Len(g) + (Len(q) + 1)
    BY <1>1, ConcatProperties, LenProperties
  <2>2. /\ l[i] = IF i <= Len(g) THEN g[i] ELSE Append(q, m)[i - Len(g)]
        /\ i <= Len(g) + Len(q) =>
              (g \o q)[i] = IF i <= Len(g) THEN g[i] ELSE q[i - Len(g)]
    <3>1. \A j \in 1..Len(g) + Len(q) :
             (g \o q)[j] = IF j <= Len(g) THEN g[j] ELSE q[j - Len(g)]
      BY ConcatProperties
    <3>2. \A j \in 1..Len(g) + Len(Append(q, m)) :
             l[j] = IF j <= Len(g) THEN g[j] ELSE Append(q, m)[j - Len(g)]
      BY <1>1, ConcatProperties
    <3> QED BY <2>1, <3>1, <3>2
  <2>3. CASE i <= Len(g) + Len(q)
    <3>1. r[i] = (g \o q)[i]
      BY <1>1, <2>1, <2>3
    <3>2. ~(i <= Len(g)) => Append(q, m)[i - Len(g)] = q[i - Len(g)]
      BY <2>1, <2>3
    <3> QED BY <2>2, <2>3, <3>1, <3>2
  <2>4. CASE i > Len(g) + Len(q)
    <3>1. i = Len(g) + Len(q) + 1 /\ i - Len(g) = Len(q) + 1 /\ ~(i <= Len(g))
      BY <2>1, <2>4
    <3>2. r[i] = m /\ Append(q, m)[i - Len(g)] = m
      BY <1>1, <2>1, <3>1
    <3> QED BY <2>2, <3>1, <3>2
  <2> QED BY <2>1, <2>3, <2>4
<1> QED BY <1>1, <1>2, <1>3, SeqEqual

LEMMA PopFirst ==
  ASSUME NEW S, NEW g \in Seq(S), NEW q \in Seq(S), q # <<>>
  PROVE  Append(g, Head(q)) \o Tail(q) = g \o q /\ Append(g, Head(q)) \in Seq(S)
         /\ Tail(q) \in Seq(S)
<1> DEFINE l == Append(g, Head(q)) \o Tail(q)
           r == g \o q
<1>1. /\ Head(q) \in S /\ Tail(q) \in Seq(S) /\ Append(g, Head(q)) \in Seq(S)
      /\ Len(Tail(q)) = Len(q) - 1 /\ Len(q) \in Nat /\ Len(g) \in Nat /\ Len(q) > 0
      /\ Head(q) = q[1] /\ \A i \in 1..Len(q) - 1 : Tail(q)[i] = q[i + 1]
  BY HeadTailProperties, LenProperties, EmptySeq
<1>2. l \in Seq(S) /\ r \in Seq(S) /\ Len(l) = Len(r)
  BY <1>1, ConcatProperties
<1>3. ASSUME NEW i \in 1..Len(l) PROVE l[i] = r[i]
  <2>1. i \in Nat /\ Len(l) = Len(g) + Len(q) /\ Len(Append(g, Head(q))) = Len(g) + 1
    BY <1>1, ConcatProperties
  <2>2. CASE i <= Len(g)
    BY <1>1, <2>1, <2>2, ConcatProperties
  <2>3. CASE i = Len(g) + 1
    BY <1>1, <2>1, <2>3, ConcatProperties
  <2>4. CASE i > Len(g) + 1
    <3>1. l[i] = Tail(q)[i - (Len(g) + 1)]
      BY <1>1, <2>1, <2>4, ConcatProperties
    <3>2. r[i] = q[i - Len(g)]
      BY <1>1, <2>1, <2>4, ConcatProperties
    <3>3. i - (Len(g) + 1) \in 1..Len(q) - 1 /\ i - (Len(g) + 1) + 1 = i - Len(g)
      BY <1>1, <2>1, <2>4
    <3> QED BY <1>1, <3>1, <3>2, <3>3
  <2> QED BY <1>1, <2>1, <2>2, <2>3, <2>4
<1> QED BY <1>1, <1>2, <1>3, SeqEqual

(***************************************************************************)
(* The steps of the condition variable.                                    *)
(***************************************************************************)

LEMMA Places == /\ ClientPCs \cap (WaitPCs \cup NotifyPCs) = {}
                /\ "idle" \in ClientPCs /\ "notified" \in ClientPCs
  BY DEF ClientPCs, WaitPCs, NotifyPCs

\* No step of the condition variable begins a send.
LEMMA NoSendBegins ==
  ASSUME pc \in [Actors -> WaitPCs \cup NotifyPCs \cup ClientPCs], NEW a \in Actors,
         \/ WaitStep(a) \/ NotifyStep(a) \/ Relock(a) \/ DeadlinePasses(a)
         \/ ParkSpurious(a) \/ WaitDropped(a)
  PROVE  \A b \in Actors : pc'[b] = "send" => pc[b] = "send"
<1>1. ASSUME NEW p, Goto(a, p), p # "send" PROVE \A b \in Actors : pc'[b] = "send" => pc[b] = "send"
  BY <1>1 DEF Goto
<1>2. CASE Register(a) \/ DropGuard(a)
  BY <1>1, <1>2 DEF Register, RegisterSpin, RegisterBlock, RegisterAsync, DropGuard, Asleep
<1>3. CASE SpinWait(a)
  BY <1>1, <1>3 DEF SpinWait, SpinWoken, SpinExpired, SpinRemove
<1>4. CASE ParkWait(a) \/ ParkSpurious(a)
  BY <1>1, <1>4 DEF ParkWait, ParkToken, ParkTimesOut, CheckList, CheckDeadline, ParkSpurious
<1>5. CASE AsyncWait(a) \/ WaitDropped(a)
  BY <1>1, <1>5 DEF AsyncWait, AwaitWoken, AwaitTimedOut, Forget, WaitDropped
<1>6. CASE Relock(a)
  BY <1>1, <1>6 DEF Relock
<1>7. CASE DeadlinePasses(a)
  BY <1>7 DEF DeadlinePasses
<1>8. CASE TakeSpin(a) \/ TakeSync(a) \/ TakeAsync(a)
  BY <1>1, <1>8 DEF TakeSpin, TakeSync, TakeAsync, NotifyDone
<1>9. CASE Store(a) \/ Unpark(a)
  BY <1>1, <1>9 DEF Store, Unpark, After, NotifyDone
<1>10. CASE Wake(a)
  BY <1>1, <1>10 DEF Wake, NotifyDone
<1> QED
  BY <1>2, <1>3, <1>4, <1>5, <1>6, <1>7, <1>8, <1>9, <1>10 DEF WaitStep, NotifyStep

(***************************************************************************)
(* The invariant.                                                          *)
(***************************************************************************)

LEMMA MpscInit == Init => IInv
<1> SUFFICES ASSUME Init PROVE IInv
  OBVIOUS
<1> USE MpscAssumption DEF Init
<1>1. CondInv(ClientPCs)
  BY Places, CondInitInv
<1>2. PICK s \in Senders : alive = {s}
  OBVIOUS
<1>3. IsFiniteSet(alive) /\ sender_count = Cardinality(alive)
  BY <1>2, FS_Singleton
<1>4. <<>> \in Seq(Messages) /\ <<>> \o <<>> = <<>>
  BY EmptySeq, ConcatEmptySeq
<1>5. \A a \in Actors : pc[a] = "idle" /\ ops[a] = 0
  BY DEF CondInit
<1>6. ChannelExact
  BY <1>3, <1>4, <1>5 DEF ChannelExact
<1>7. TypeOK
  BY <1>1, <1>2, <1>4 DEF TypeOK, CondInv
<1> QED BY <1>1, <1>6, <1>7 DEF IInv, CondInv

\* A step of the condition variable: the channel's own state does not move.
LEMMA CondStepKeeps ==
  ASSUME IInv, NEW a \in Actors, UNCHANGED <<chanVars, ops, histVars>>,
         \/ WaitStep(a) \/ NotifyStep(a) \/ Relock(a) \/ DeadlinePasses(a)
         \/ ParkSpurious(a) \/ (a \in Tasks /\ WaitDropped(a))
  PROVE  IInv'
<1> USE DEF IInv, TypeOK, chanVars, histVars
<1>1. CondInv(ClientPCs)
  BY DEF CondInv
<1>2. CondInv(ClientPCs)'
  BY <1>1, Places, RegisterKeeps, SpinWaitKeeps, ParkWaitKeeps, AsyncWaitKeeps,
     NotifyKeeps DEF WaitStep
<1>3. pc \in [Actors -> WaitPCs \cup NotifyPCs \cup ClientPCs]
  BY DEF CondTypeOK
<1>4. \A b \in Actors : pc'[b] = "send" => pc[b] = "send"
  BY <1>3, NoSendBegins
<1>5. ChannelExact'
  BY <1>4, MpscAssumption DEF ChannelExact
<1>6. TypeOK'
  BY <1>2 DEF CondInv
<1> QED BY <1>2, <1>5, <1>6 DEF CondInv

\* What a client step of a keeps of the condition variable, cited by each below.
LEMMA ClientStep ==
  ASSUME IInv, NEW a \in Actors, NEW p \in ClientPCs \cup {"spin_list", "register", "test"},
         pc[a] \in ClientPCs \cup {"test", "timedout"}, Goto(a, p),
         UNCHANGED <<spinVars, syncVars, asyncVars, taken>>,
         holder' \in {holder, None, a},
         how' = how \/ \E h \in {"spin", "block", "async"} : how' = [how EXCEPT ![a] = h],
         timed' \in [Actors -> BOOLEAN], late' \in [Actors -> BOOLEAN],
         gaveUp' \in [Actors -> BOOLEAN], all' \in [Actors -> BOOLEAN]
  PROVE  /\ CondTypeOK(ClientPCs)' /\ NoLeakedEntry' /\ EntriesMatch'
         /\ \A b \in Actors : pc'[b] = "send" => IF b = a THEN p = "send" ELSE pc[b] = "send"
<1>1. CondInv(ClientPCs)
  BY DEF CondInv, IInv, TypeOK
<1>2. holder' \in Actors \cup {None}
  BY <1>1 DEF CondInv, CondTypeOK
<1>3. CondInv(ClientPCs)'
  <2>1. p \in ClientPCs \cup {"spin_list", "relock", "register", "test"}
    OBVIOUS
  <2> QED BY <1>1, <1>2, <2>1, Places, ClientKeeps
<1>5. DOMAIN pc = Actors
  BY <1>1 DEF CondInv, CondTypeOK
<1>4. \A b \in Actors : pc'[b] = IF b = a THEN p ELSE pc[b]
  BY <1>5 DEF Goto
<1>6. \A b \in Actors : pc'[b] = "send" => IF b = a THEN p = "send" ELSE pc[b] = "send"
  BY <1>4
<1>7. CondTypeOK(ClientPCs)' /\ NoLeakedEntry' /\ EntriesMatch'
  BY <1>3 DEF CondInv
<1> QED BY <1>6, <1>7

LEMMA SenderStep ==
  ASSUME IInv, NEW s \in Senders,
         \/ SendCheck(s) \/ SendDropped(s) \/ CloneSender(s) \/ DropSender(s)
         \/ SendPush(s) \/ DropLock(s)
  PROVE  IInv'
<1> USE DEF chanVars, histVars, callVars
<1>0. /\ s \in Actors /\ TypeOK /\ ChannelExact /\ CondTypeOK(ClientPCs)
      /\ how \in [Actors -> {"spin", "block", "async"}]
      /\ timed \in [Actors -> BOOLEAN] /\ late \in [Actors -> BOOLEAN]
      /\ gaveUp \in [Actors -> BOOLEAN] /\ all \in [Actors -> BOOLEAN]
      /\ ops \in [Actors -> Nat] /\ sender_count \in Nat
  BY MpscAssumption DEF IInv, TypeOK, CondTypeOK
<1>1. ASSUME NEW p \in {"idle", "send", "spin_list", "drop_lock"}, Goto(s, p),
             pc[s] \in {"idle", "send", "drop_lock"},
             UNCHANGED <<holder, spinVars, syncVars, asyncVars, how, timed, late, gaveUp, taken>>,
             all' \in [Actors -> BOOLEAN]
      PROVE  /\ CondTypeOK(ClientPCs)' /\ NoLeakedEntry' /\ EntriesMatch'
             /\ \A b \in Actors : pc'[b] = "send" => IF b = s THEN p = "send" ELSE pc[b] = "send"
  <2>1. p \in ClientPCs \cup {"spin_list", "register", "test"}
        /\ pc[s] \in ClientPCs \cup {"test", "timedout"}
    BY <1>1 DEF ClientPCs
  <2> QED BY <1>0, <1>1, <2>1, ClientStep
<1>2. CASE SendCheck(s)
  <2>1. PICK p \in {"idle", "send"} : Goto(s, p)
    BY <1>2 DEF SendCheck
  <2>2. /\ CondTypeOK(ClientPCs)' /\ NoLeakedEntry' /\ EntriesMatch'
        /\ \A b \in Actors : pc'[b] = "send" => IF b = s THEN p = "send" ELSE pc[b] = "send"
    BY <1>0, <1>1, <1>2, <2>1 DEF SendCheck, Owns
  <2>3. TypeOK'
    BY <1>0, <1>2, <2>2 DEF SendCheck, TypeOK
  <2>4. ChannelExact'
    <3>1. ASSUME NEW b \in Senders, pc'[b] = "send"
          PROVE  b \in alive' /\ ops'[b] \in 1..MaxSends
      BY <1>0, <1>2, <2>2, <3>1, MpscAssumption DEF SendCheck, Owns, ChannelExact
    <3> QED BY <1>0, <1>2, <3>1 DEF SendCheck, ChannelExact
  <2> QED BY <2>2, <2>3, <2>4 DEF IInv
<1>3. CASE SendDropped(s)
  <2>1. /\ CondTypeOK(ClientPCs)' /\ NoLeakedEntry' /\ EntriesMatch'
        /\ \A b \in Actors : pc'[b] = "send" => pc[b] = "send"
    BY <1>0, <1>1, <1>3 DEF SendDropped
  <2>2. TypeOK'
    BY <1>0, <1>3, <2>1 DEF SendDropped, TypeOK
  <2>3. ChannelExact'
    BY <1>0, <1>3, <2>1, MpscAssumption DEF SendDropped, ChannelExact
  <2> QED BY <2>1, <2>2, <2>3 DEF IInv
<1>4. CASE CloneSender(s)
  <2>1. PICK r \in Senders \ alive : alive' = alive \cup {r}
    BY <1>4 DEF CloneSender
  <2>2. IsFiniteSet(alive') /\ sender_count' = Cardinality(alive')
    BY <1>0, <1>4, <2>1, FS_AddElement DEF CloneSender, ChannelExact
  <2>3. CondTypeOK(ClientPCs)' /\ NoLeakedEntry' /\ EntriesMatch' /\ pc' = pc
    BY <1>4 DEF CloneSender, condVars, IInv, TypeOK, CondTypeOK, NoLeakedEntry, EntriesMatch
  <2>4. TypeOK'
    BY <1>0, <1>4, <2>1, <2>3 DEF CloneSender, TypeOK
  <2>5. ChannelExact'
    BY <1>0, <1>4, <2>1, <2>2, <2>3 DEF CloneSender, ChannelExact, Owns
  <2> QED BY <2>3, <2>4, <2>5 DEF IInv
<1>5. CASE DropSender(s)
  <2>1. IsFiniteSet(alive') /\ sender_count' = Cardinality(alive') /\ sender_count' \in Nat
    <3>1. /\ IsFiniteSet(alive) /\ sender_count = Cardinality(alive) /\ s \in alive
          /\ alive' = alive \ {s} /\ sender_count' = sender_count - 1
      BY <1>0, <1>5 DEF DropSender, ChannelExact, Owns
    <3>2. IsFiniteSet(alive') /\ Cardinality(alive') = Cardinality(alive) - 1
      BY <3>1, FS_RemoveElement
    <3>3. Cardinality(alive') \in Nat
      BY <3>2, FS_CardinalityType
    <3> QED BY <3>1, <3>2, <3>3
  <2>2. PICK p \in {"idle", "drop_lock"} : Goto(s, p)
    BY <1>5 DEF DropSender
  <2>3. /\ CondTypeOK(ClientPCs)' /\ NoLeakedEntry' /\ EntriesMatch'
        /\ \A b \in Actors : pc'[b] = "send" => b # s /\ pc[b] = "send"
    BY <1>0, <1>1, <1>5, <2>2 DEF DropSender, Owns
  <2>4. TypeOK'
    BY <1>0, <1>5, <2>1, <2>3 DEF DropSender, TypeOK
  <2>5. ChannelExact'
    <3>1. ASSUME NEW b \in Senders, pc'[b] = "send" PROVE b \in alive' /\ ops'[b] \in 1..MaxSends
      BY <1>0, <1>5, <2>3, <3>1, MpscAssumption DEF DropSender, ChannelExact
    <3>2. ~disconnected'
      BY <1>0, <1>5 DEF DropSender, Owns, ChannelExact
    <3> QED BY <1>0, <1>5, <2>1, <3>1, <3>2 DEF DropSender, ChannelExact
  <2> QED BY <2>3, <2>4, <2>5 DEF IInv
<1>6. CASE SendPush(s)
  <2>1. PICK p \in {"idle", "spin_list"} : Goto(s, p)
    BY <1>6 DEF SendPush
  <2>2. all' \in [Actors -> BOOLEAN]
    BY <1>0, <1>6 DEF SendPush
  <2>3. /\ CondTypeOK(ClientPCs)' /\ NoLeakedEntry' /\ EntriesMatch'
        /\ \A b \in Actors : pc'[b] = "send" => pc[b] = "send"
    BY <1>0, <1>1, <1>6, <2>1, <2>2 DEF SendPush
  <2>4. s \in alive /\ <<s, ops[s]>> \in Messages
    BY <1>0, <1>6 DEF SendPush, ChannelExact, Messages
  <2>5. got \o queue = sent /\ sent \in Seq(Messages) /\ queue \in Seq(Messages)
        /\ got \in Seq(Messages)
    BY <1>0 DEF ChannelExact, TypeOK
  <2>6. got \o queue' = sent' /\ queue' \in Seq(Messages) /\ sent' \in Seq(Messages)
    <3>1. CASE UNCHANGED <<queue, sent>>
      BY <2>5, <3>1
    <3>2. CASE queue' = Append(queue, <<s, ops[s]>>) /\ sent' = Append(sent, <<s, ops[s]>>)
      <4>1. /\ got \o Append(queue, <<s, ops[s]>>) = Append(got \o queue, <<s, ops[s]>>)
            /\ Append(queue, <<s, ops[s]>>) \in Seq(Messages)
            /\ Append(got \o queue, <<s, ops[s]>>) \in Seq(Messages)
        BY <2>4, <2>5, PushLast
      <4> QED BY <2>5, <3>2, <4>1
    <3> QED BY <1>6, <3>1, <3>2 DEF SendPush
  <2>7. TypeOK'
    BY <1>0, <1>6, <2>3, <2>6 DEF SendPush, TypeOK
  <2>8. ChannelExact'
    <3>1. ASSUME NEW b \in Senders, pc'[b] = "send" PROVE b \in alive' /\ ops'[b] \in 1..MaxSends
      BY <1>0, <1>6, <2>3, <3>1, MpscAssumption DEF SendPush, ChannelExact
    <3>2. ~disconnected'
      BY <1>0, <1>6, <2>4 DEF SendPush, ChannelExact
    <3> QED BY <1>0, <1>6, <2>6, <3>1, <3>2 DEF SendPush, ChannelExact
  <2> QED BY <2>3, <2>7, <2>8 DEF IInv
<1>7. CASE DropLock(s)
  <2>1. all' \in [Actors -> BOOLEAN]
    BY <1>0, <1>7 DEF DropLock
  <2>2. /\ CondTypeOK(ClientPCs)' /\ NoLeakedEntry' /\ EntriesMatch'
        /\ \A b \in Actors : pc'[b] = "send" => pc[b] = "send"
    BY <1>0, <1>1, <1>7, <2>1 DEF DropLock
  <2>3. TypeOK'
    BY <1>0, <1>7, <2>2 DEF DropLock, TypeOK
  <2>4. ChannelExact'
    BY <1>0, <1>7, <2>2, MpscAssumption DEF DropLock, ChannelExact
  <2> QED BY <2>2, <2>3, <2>4 DEF IInv
<1> QED BY <1>2, <1>3, <1>4, <1>5, <1>6, <1>7

\* What an answer to a receive does to the messages.
LEMMA AnswerKeeps ==
  ASSUME TypeOK, ChannelExact, Pop \/ Disconnect, UNCHANGED <<sent, alive, sender_count>>
  PROVE  /\ got' \o queue' = sent' /\ got' \in Seq(Messages) /\ queue' \in Seq(Messages)
         /\ disconnected' \in BOOLEAN
         /\ disconnected' => queue' = <<>> /\ alive' = {}
<1> USE DEF TypeOK, ChannelExact
<1>1. CASE Pop
  <2>1. /\ queue \in Seq(Messages) /\ got \in Seq(Messages) /\ queue # <<>>
        /\ got' = Append(got, Head(queue)) /\ queue' = Tail(queue)
    BY <1>1 DEF Pop
  <2> HIDE DEF TypeOK, ChannelExact
  <2>2. /\ Append(got, Head(queue)) \o Tail(queue) = got \o queue
        /\ Append(got, Head(queue)) \in Seq(Messages) /\ Tail(queue) \in Seq(Messages)
    BY ONLY <2>1, PopFirst
  <2>3. got' \o queue' = got \o queue /\ got' \in Seq(Messages) /\ queue' \in Seq(Messages)
    BY ONLY <2>1, <2>2
  <2> USE DEF TypeOK, ChannelExact
  <2> QED BY <1>1, <2>3 DEF Pop
<1>2. CASE Disconnect
  <2>1. alive = {}
    BY <1>2, FS_EmptySet DEF Disconnect
  <2> QED BY <1>2, <2>1 DEF Disconnect
<1> QED BY <1>1, <1>2

LEMMA ReceiverStep ==
  ASSUME IInv,
         \/ Recv \/ TryRecv \/ Enter \/ EnterGivenUp \/ TryLock \/ Test
         \/ TimedOut \/ DropReceiver
  PROVE  IInv'
<1> USE DEF chanVars, histVars, callVars
<1>0. /\ Rx \in Actors /\ Rx \notin Senders /\ TypeOK /\ ChannelExact /\ CondTypeOK(ClientPCs)
      /\ how \in [Actors -> {"spin", "block", "async"}]
      /\ timed \in [Actors -> BOOLEAN] /\ late \in [Actors -> BOOLEAN]
      /\ gaveUp \in [Actors -> BOOLEAN] /\ all \in [Actors -> BOOLEAN]
      /\ ops \in [Actors -> Nat]
  BY MpscAssumption DEF IInv, TypeOK, CondTypeOK
\* The condition variable and the senders' places, whichever step it is.
<1>1. ASSUME NEW p \in {"idle", "enter", "try", "test", "register", "spin_list"}, Goto(Rx, p),
             pc[Rx] \in {"idle", "enter", "try", "test", "timedout"},
             UNCHANGED <<spinVars, syncVars, asyncVars, taken>>, holder' \in {holder, None, Rx},
             how' = how \/ \E h \in {"spin", "block", "async"} : how' = [how EXCEPT ![Rx] = h],
             timed' \in [Actors -> BOOLEAN], late' \in [Actors -> BOOLEAN],
             gaveUp' \in [Actors -> BOOLEAN], all' \in [Actors -> BOOLEAN]
      PROVE  /\ CondTypeOK(ClientPCs)' /\ NoLeakedEntry' /\ EntriesMatch'
             /\ \A b \in Senders : pc'[b] = "send" => pc[b] = "send"
  <2>1. p \in ClientPCs \cup {"spin_list", "register", "test"}
        /\ pc[Rx] \in ClientPCs \cup {"test", "timedout"}
    BY <1>1 DEF ClientPCs
  <2>2. /\ CondTypeOK(ClientPCs)' /\ NoLeakedEntry' /\ EntriesMatch'
        /\ \A b \in Actors : pc'[b] = "send" => IF b = Rx THEN p = "send" ELSE pc[b] = "send"
    BY <1>0, <1>1, <2>1, ClientStep
  <2> QED BY <1>0, <2>2, MpscAssumption
\* The rest, where the step moves no message.
<1>2. ASSUME CondTypeOK(ClientPCs)', NoLeakedEntry', EntriesMatch',
             \A b \in Senders : pc'[b] = "send" => pc[b] = "send",
             UNCHANGED <<queue, sender_count, alive, sent, got, disconnected>>,
             receiver_active' \in BOOLEAN, ops' \in [Actors -> Nat],
             \A b \in Senders : ops'[b] = ops[b]
      PROVE  IInv'
  BY <1>0, <1>2 DEF IInv, TypeOK, ChannelExact
<1>3. ASSUME CountRecv PROVE ops' \in [Actors -> Nat] /\ \A b \in Senders : ops'[b] = ops[b]
  BY <1>0, <1>3, MpscAssumption DEF CountRecv
<1>4. CASE Recv
  <2>1. PICK h \in {"spin", "block", "async"}, d \in BOOLEAN :
          how' = [how EXCEPT ![Rx] = h] /\ timed' = [timed EXCEPT ![Rx] = d]
    BY <1>4 DEF Recv, Strategies
  <2>2. timed' \in [Actors -> BOOLEAN] /\ late' \in [Actors -> BOOLEAN]
    BY <1>0, <1>4, <2>1 DEF Recv
  <2>3. /\ CondTypeOK(ClientPCs)' /\ NoLeakedEntry' /\ EntriesMatch'
        /\ \A b \in Senders : pc'[b] = "send" => pc[b] = "send"
    BY <1>0, <1>1, <1>4, <2>1, <2>2 DEF Recv, CountRecv
  <2> QED BY <1>0, <1>2, <1>3, <1>4, <2>3 DEF Recv, TypeOK
<1>5. CASE TryRecv
  <2>1. /\ CondTypeOK(ClientPCs)' /\ NoLeakedEntry' /\ EntriesMatch'
        /\ \A b \in Senders : pc'[b] = "send" => pc[b] = "send"
    BY <1>0, <1>1, <1>5 DEF TryRecv, CountRecv
  <2> QED BY <1>0, <1>2, <1>3, <1>5, <2>1 DEF TryRecv, TypeOK
<1>6. CASE Enter \/ EnterGivenUp
  <2>1. /\ CondTypeOK(ClientPCs)' /\ NoLeakedEntry' /\ EntriesMatch'
        /\ \A b \in Senders : pc'[b] = "send" => pc[b] = "send"
    BY <1>0, <1>1, <1>6 DEF Enter, EnterGivenUp
  <2> QED BY <1>0, <1>2, <1>6, <2>1 DEF Enter, EnterGivenUp, TypeOK
<1>7. CASE TimedOut
  <2>1. gaveUp' \in [Actors -> BOOLEAN]
    BY <1>0, <1>7 DEF TimedOut
  <2>2. /\ CondTypeOK(ClientPCs)' /\ NoLeakedEntry' /\ EntriesMatch'
        /\ \A b \in Senders : pc'[b] = "send" => pc[b] = "send"
    BY <1>0, <1>1, <1>7, <2>1 DEF TimedOut
  <2> QED BY <1>0, <1>2, <1>7, <2>2 DEF TimedOut, TypeOK
<1>8. CASE DropReceiver
  <2>1. all' \in [Actors -> BOOLEAN]
    BY <1>0, <1>8 DEF DropReceiver
  <2>2. /\ CondTypeOK(ClientPCs)' /\ NoLeakedEntry' /\ EntriesMatch'
        /\ \A b \in Senders : pc'[b] = "send" => pc[b] = "send"
    BY <1>0, <1>1, <1>8, <2>1 DEF DropReceiver
  <2> QED BY <1>0, <1>2, <1>8, <2>2 DEF DropReceiver
<1>9. CASE TryLock \/ Test
  <2>1. PICK p \in {"idle", "register"} : Goto(Rx, p)
    BY <1>9 DEF TryLock, Test
  <2>2. /\ CondTypeOK(ClientPCs)' /\ NoLeakedEntry' /\ EntriesMatch'
        /\ \A b \in Senders : pc'[b] = "send" => pc[b] = "send"
    BY <1>0, <1>1, <1>9, <2>1 DEF TryLock, Test
  <2>3. UNCHANGED <<sender_count, receiver_active, alive, ops, sent>>
    BY <1>9 DEF TryLock, Test
  <2>4. CASE Pop \/ Disconnect
    BY <1>0, <2>2, <2>3, <2>4, AnswerKeeps, MpscAssumption DEF IInv, TypeOK, ChannelExact
  <2>5. CASE UNCHANGED <<queue, got, disconnected>>
    BY <1>0, <1>2, <2>2, <2>3, <2>5 DEF TypeOK
  <2> QED BY <1>9, <2>4, <2>5 DEF TryLock, Test
<1> QED BY <1>4, <1>5, <1>6, <1>7, <1>8, <1>9

LEMMA NotifiedStep == ASSUME IInv, NEW a \in Actors, Notified(a) PROVE IInv'
<1> USE DEF chanVars, histVars, callVars
<1>0. /\ TypeOK /\ ChannelExact
      /\ timed \in [Actors -> BOOLEAN] /\ late \in [Actors -> BOOLEAN]
      /\ gaveUp \in [Actors -> BOOLEAN] /\ all \in [Actors -> BOOLEAN]
  BY DEF IInv, TypeOK, CondTypeOK
<1>1. "idle" \in ClientPCs /\ pc[a] \in ClientPCs
  BY DEF Notified, ClientPCs
<1>2. /\ CondTypeOK(ClientPCs)' /\ NoLeakedEntry' /\ EntriesMatch'
      /\ \A b \in Actors : pc'[b] = "send" => pc[b] = "send"
  BY <1>0, <1>1, ClientStep DEF Notified
<1> QED BY <1>0, <1>2, MpscAssumption DEF Notified, IInv, TypeOK, ChannelExact

LEMMA MpscStep == IInv /\ [Next]_vars => IInv'
<1> SUFFICES ASSUME IInv, [Next]_vars PROVE IInv'
  OBVIOUS
<1>0. Rx \in Actors /\ Senders \subseteq Actors
  BY MpscAssumption
<1>1. ASSUME NEW s \in Senders, SendCheck(s) \/ SendDropped(s) \/ CloneSender(s) \/ DropSender(s)
      PROVE  IInv'
  BY <1>1, SenderStep
<1>2. ASSUME NEW a \in Actors, Notifies(a) \/ Notified(a) PROVE IInv'
  BY <1>2, NotifiedStep, CondStepKeeps DEF Notifies
<1>3. CASE Recv \/ TryRecv \/ EnterGivenUp \/ Test \/ TimedOut \/ DropReceiver
  BY <1>3, ReceiverStep
<1>4. CASE Waiting \/ Passing \/ RecvDropped
  BY <1>0, <1>4, CondStepKeeps DEF Waiting, Passing, RecvDropped
<1>5. CASE Locking
  <2>1. CASE Relocking
    BY <1>0, <2>1, CondStepKeeps DEF Relocking
  <2>2. CASE Enter \/ TryLock
    BY <2>2, ReceiverStep
  <2>3. ASSUME NEW s \in Senders, SendPush(s) \/ DropLock(s) PROVE IInv'
    BY <2>3, SenderStep
  <2> QED BY <1>5, <2>1, <2>2, <2>3 DEF Locking
<1>6. CASE UNCHANGED vars
  <2>1. TypeOK'
    BY <1>6 DEF vars, condVars, chanVars, histVars, IInv, TypeOK, CondTypeOK
  <2>2. NoLeakedEntry' /\ EntriesMatch' /\ ChannelExact'
    BY <1>6 DEF vars, condVars, chanVars, histVars, IInv, NoLeakedEntry, EntriesMatch, ChannelExact
  <2> QED BY <2>1, <2>2 DEF IInv
<1> QED BY <1>1, <1>2, <1>3, <1>4, <1>5, <1>6 DEF Next, Resting

(***************************************************************************)
(* Why no receiver is stuck.                                               *)
(***************************************************************************)

LEMMA WakeInit == Init => WakeInv
<1> SUFFICES ASSUME Init PROVE WakeInv
  OBVIOUS
<1> USE MpscAssumption, CondvarAssumption DEF Init, CondInit
<1>1. Rx \in Actors /\ Senders \subseteq Actors
  OBVIOUS
<1>2. SendersNotify /\ RegistersLocked /\ SleeperCovered
  BY <1>1 DEF SendersNotify, RegistersLocked, SleeperCovered, Unnotified
<1>3. PairsKnown
  BY <1>1 DEF PairsKnown
<1> QED BY <1>2, <1>3 DEF WakeInv

\* What the steps below need of the types.
LEMMA WakeTypes ==
  ASSUME IInv
  PROVE  /\ Rx \in Actors /\ Senders \subseteq Actors /\ Rx \notin Senders
         /\ DOMAIN pc = Actors /\ DOMAIN how = Actors /\ DOMAIN all = Actors
         /\ DOMAIN taken = Actors /\ DOMAIN gaveUp = Actors /\ DOMAIN wait = Tasks
         /\ DOMAIN wstate = Waits /\ asyncList \subseteq Waits
         /\ spinList \subseteq Threads /\ syncList \subseteq Threads
         /\ sender_count \in Nat /\ Tasks \subseteq Actors
         /\ None \notin Actors \cup Waits /\ Threads \cap Waits = {}
         /\ \A a \in Actors : taken[a] \subseteq Threads \cup Waits
  BY MpscAssumption, CondvarAssumption DEF IInv, TypeOK, CondTypeOK, Actors

\* Only the receiver has an entry in the thread lists, and in one at most.
LEMMA OneWaits ==
  ASSUME IInv, SendersNotify
  PROVE  /\ spinList \subseteq {Rx} /\ syncList \subseteq {Rx}
         /\ Rx \in spinList => how[Rx] = "spin"
         /\ Rx \in syncList => how[Rx] = "block"
<1> USE WakeTypes
<1>1. \A s \in Senders :
         pc[s] \notin {"unlock", "spin", "spin_expired", "park", "deadline", "check"}
  BY DEF SendersNotify, NotifyPCs
<1>2. \A t \in spinList \cup syncList : t \in Actors /\ t \notin Senders
  BY <1>1 DEF IInv, NoLeakedEntry, Actors
<1>3. \A a \in Actors : a \in Senders \/ a = Rx
  BY MpscAssumption
<1> QED BY <1>2, <1>3 DEF IInv, EntriesMatch

(***************************************************************************)
(* The receiver's steps.                                                   *)
(***************************************************************************)

\* A step that leaves the senders, the queue and the count alone.
SendersSame == /\ \A s \in Senders : /\ pc'[s] = pc[s] /\ all'[s] = all[s]
                                     /\ taken'[s] = taken[s] /\ gaveUp'[s] = gaveUp[s]

LEMMA SendersSameKeeps ==
  ASSUME SendersNotify, SendersSame PROVE SendersNotify' /\ (Dropping => Dropping')
  BY DEF SendersNotify, SendersSame, Dropping

LEMMA Elsewhere ==
  ASSUME IInv, NEW p, Goto(Rx, p)
  PROVE  pc'[Rx] = p /\ \A s \in Senders : pc'[s] = pc[s]
  BY WakeTypes DEF Goto

\* A call of the receiver that begins or ends, or goes to wait.
LEMMA ReceiverCalls ==
  ASSUME IInv, WakeInv,
         \/ Recv \/ TryRecv \/ Enter \/ EnterGivenUp \/ TryLock \/ Test
         \/ TimedOut \/ DropReceiver \/ Notified(Rx)
  PROVE  WakeInv'
<1> USE DEF chanVars, histVars, callVars, asyncVars, spinVars, syncVars
<1>0. /\ SendersNotify /\ RegistersLocked /\ PairsKnown /\ Rx \in Actors
      /\ DOMAIN how = Actors
  BY WakeTypes DEF WakeInv
<1>1. PICK p \in {"idle", "enter", "try", "test", "register", "spin_list"} : Goto(Rx, p)
  BY DEF Recv, TryRecv, Enter, EnterGivenUp, TryLock, Test, TimedOut, DropReceiver, Notified
<1>2. pc'[Rx] = p /\ \A s \in Senders : pc'[s] = pc[s]
  BY <1>1, Elsewhere
<1>3. /\ UNCHANGED <<asyncList, wait, wstate, taken>>
      /\ pc[Rx] \notin {"unlock", "await", "forget"}
  BY DEF Recv, TryRecv, Enter, EnterGivenUp, TryLock, Test, TimedOut, DropReceiver, Notified,
         CountRecv
<1>4. SendersSame
  <2>1. UNCHANGED all \/ all' = [all EXCEPT ![Rx] = TRUE]
    BY DEF Recv, TryRecv, Enter, EnterGivenUp, TryLock, Test, TimedOut, DropReceiver, Notified
  <2>2. UNCHANGED gaveUp \/ gaveUp' = [gaveUp EXCEPT ![Rx] = FALSE]
    BY DEF Recv, TryRecv, Enter, EnterGivenUp, TryLock, Test, TimedOut, DropReceiver, Notified
  <2> QED BY <1>2, <1>3, <2>1, <2>2, WakeTypes DEF SendersSame
<1>5. SendersNotify'
  BY <1>0, <1>4, SendersSameKeeps
<1>6. RegistersLocked'
  <2>1. CASE p \in {"test", "register"}
    <3>1. Enter \/ Test
      BY <1>1, <1>2, <2>1, WakeTypes
         DEF Recv, TryRecv, Enter, EnterGivenUp, TryLock, Test, TimedOut, DropReceiver, Notified,
             Goto
    <3>2. CASE Enter
      BY <1>2, <3>2, WakeTypes DEF Enter, Goto, RegistersLocked
    <3>3. CASE Test
      BY <1>0, <1>1, <1>2, <2>1, <3>3, WakeTypes DEF Test, Goto, RegistersLocked
    <3> QED BY <3>1, <3>2, <3>3
  <2>2. CASE p \notin {"test", "register"}
    BY <1>1, <1>2, <2>2 DEF RegistersLocked
  <2> QED BY <2>1, <2>2
<1>7. PairsKnown'
  <2>1. how'[Rx] = "async" => Rx \in Tasks
    <3>1. CASE Recv
      BY <1>0, <3>1 DEF Recv, Strategies
    <3>2. CASE ~Recv
      BY <1>0, <3>2 DEF TryRecv, Enter, EnterGivenUp, TryLock, Test, TimedOut, DropReceiver,
         Notified, PairsKnown
    <3> QED BY <3>1, <3>2
  <2>2. \A s \in Senders : taken'[s] = taken[s] /\ pc'[s] = pc[s] /\ all'[s] = all[s]
    BY <1>4 DEF SendersSame
  <2> QED BY <1>0, <1>2, <1>3, <2>1, <2>2 DEF PairsKnown
<1>8. SleeperCovered'
  BY <1>1, <1>2 DEF SleeperCovered, Unnotified
<1> QED BY <1>5, <1>6, <1>7, <1>8 DEF WakeInv

\* The receiver goes to sleep: its entry is pushed, then the lock is released.
LEMMA ReceiverRegisters ==
  ASSUME IInv, WakeInv, Register(Rx) \/ DropGuard(Rx), UNCHANGED <<chanVars, ops, histVars>>
  PROVE  WakeInv'
<1> USE DEF chanVars, callVars, asyncVars, spinVars, syncVars
<1>0. /\ SendersNotify /\ RegistersLocked /\ PairsKnown /\ SleeperCovered /\ Rx \in Actors
  BY WakeTypes DEF WakeInv
<1>1. CASE Register(Rx)
  <2>1. /\ Goto(Rx, "unlock") /\ pc[Rx] = "register"
        /\ UNCHANGED <<holder, how, all, gaveUp, taken>>
    BY <1>1 DEF Register, RegisterSpin, RegisterBlock, RegisterAsync
  <2>2. pc'[Rx] = "unlock" /\ \A s \in Senders : pc'[s] = pc[s]
    BY <2>1, Elsewhere
  <2>3. SendersSame
    BY <2>1, <2>2 DEF SendersSame
  <2>4. SendersNotify' /\ (Dropping => Dropping')
    BY <1>0, <2>3, SendersSameKeeps
  <2>5. RegistersLocked'
    BY <1>0, <2>1, <2>2, <2>4 DEF RegistersLocked
  <2>6. PairsKnown'
    <3>0. Rx \in Tasks => how'[Rx] = "async"
      BY <1>1, <2>1, CondvarAssumption DEF Register, RegisterSpin, RegisterBlock, RegisterAsync
    <3>1. CASE RegisterAsync(Rx)
      <4>1. PICK w \in Waits : /\ Unreferenced(w) /\ asyncList' = asyncList \cup {w}
                               /\ wait' = [wait EXCEPT ![Rx] = w]
                               /\ wstate' = [wstate EXCEPT ![w] = "waiting"]
        BY <3>1 DEF RegisterAsync
      <4>2. Rx \in Tasks /\ wait[Rx] = None
        BY <1>0, <2>1, <3>1 DEF RegisterAsync, PairsKnown
      <4>3. \A v \in Waits : wstate'[v] = "waiting" => v = w
        BY <1>0, <4>1, <4>2, WakeTypes DEF PairsKnown
      <4>4. \A s \in Senders : w \notin taken[s]
        BY <4>1, WakeTypes DEF Unreferenced
      <4> QED BY <1>0, <2>1, <2>2, <3>0, <4>1, <4>2, <4>3, <4>4, WakeTypes DEF PairsKnown
    <3>2. CASE UNCHANGED <<asyncList, wait, wstate>>
      <4>1. Rx \in Tasks => wait'[Rx] = None
        BY <1>0, <2>1, <3>2 DEF PairsKnown
      <4> QED BY <1>0, <2>1, <2>2, <3>0, <3>2, <4>1 DEF PairsKnown
    <3> QED BY <1>1, <3>1, <3>2 DEF Register, RegisterSpin, RegisterBlock
  <2>7. SleeperCovered'
    BY <2>2 DEF SleeperCovered
  <2> QED BY <2>4, <2>5, <2>6, <2>7 DEF WakeInv
<1>2. CASE DropGuard(Rx)
  <2>1. /\ pc[Rx] = "unlock"
        /\ UNCHANGED <<asyncList, wait, wstate, how, all, gaveUp, taken>>
    BY <1>2 DEF DropGuard
  <2>2. /\ pc'[Rx] \in {"spin", "await", "deadline", "park"}
        /\ how[Rx] = "async" => pc'[Rx] = "await"
        /\ how[Rx] # "async" => pc'[Rx] # "await"
        /\ \A s \in Senders : pc'[s] = pc[s]
    BY <1>2, Elsewhere DEF DropGuard, Asleep
  <2>3. SendersSame
    BY <2>1, <2>2 DEF SendersSame
  <2>4. SendersNotify' /\ (Dropping => Dropping')
    BY <1>0, <2>3, SendersSameKeeps
  <2>5. RegistersLocked'
    BY <2>2 DEF RegistersLocked
  <2>6. PairsKnown'
    BY <1>0, <2>1, <2>2, WakeTypes DEF PairsKnown
  <2>7. SleeperCovered'
    BY <1>0, <2>1, <2>4 DEF SleeperCovered, RegistersLocked
  <2> QED BY <2>4, <2>5, <2>6, <2>7 DEF WakeInv
<1> QED BY <1>1, <1>2

\* The receiver sleeps, finds out why it woke and takes the lock again.
LEMMA ReceiverWaits ==
  ASSUME IInv, WakeInv, UNCHANGED <<chanVars, ops, histVars>>,
         \/ SpinWait(Rx) \/ ParkWait(Rx) \/ AsyncWait(Rx) \/ DeadlinePasses(Rx)
         \/ ParkSpurious(Rx) \/ (Rx \in Tasks /\ WaitDropped(Rx)) \/ Relock(Rx)
  PROVE  WakeInv'
<1> USE DEF chanVars, callVars, asyncVars, spinVars, syncVars
<1>0. /\ SendersNotify /\ RegistersLocked /\ PairsKnown /\ SleeperCovered /\ Rx \in Actors
  BY WakeTypes DEF WakeInv
\* Where it goes, and that it makes no entry.
<1>1. PICK p \in {"relock", "spin_expired", "spin_flag", "check", "deadline", "park", "await",
                  "spin", "forget", "spin_list", "idle", "test", "timedout"} :
         /\ pc'[Rx] = p /\ \A s \in Senders : pc'[s] = pc[s]
         /\ p \in {"spin", "spin_expired", "check", "deadline", "park"}
              => pc[Rx] \in {"spin", "spin_expired", "check", "deadline", "park"}
         /\ p \in {"await", "forget"} => pc[Rx] \in {"await", "forget"} /\ UNCHANGED wait
         /\ p = "await" => pc[Rx] = "await"
         /\ p = "test" => holder' = Rx
         /\ UNCHANGED <<how, all, taken>>
         /\ spinList' \subseteq spinList /\ syncList' \subseteq syncList
         /\ asyncList' \subseteq asyncList
  <2>1. CASE SpinWait(Rx)
    BY <2>1, Elsewhere DEF SpinWait, SpinWoken, SpinExpired, SpinRemove
  <2>2. CASE ParkWait(Rx) \/ ParkSpurious(Rx)
    BY <2>2, Elsewhere DEF ParkWait, ParkToken, ParkTimesOut, CheckList, CheckDeadline, ParkSpurious
  <2>3. CASE AwaitWoken(Rx) \/ AwaitTimedOut(Rx)
    BY <2>3, Elsewhere DEF AwaitWoken, AwaitTimedOut
  <2>6. CASE Forget(Rx) \/ WaitDropped(Rx)
    BY <2>6, Elsewhere DEF Forget, WaitDropped
  <2>4. CASE DeadlinePasses(Rx)
    BY <2>4 DEF DeadlinePasses
  <2>5. CASE Relock(Rx)
    BY <2>5, Elsewhere DEF Relock
  <2> QED BY <2>1, <2>2, <2>3, <2>4, <2>5, <2>6 DEF AsyncWait
<1>2. \A s \in Senders : gaveUp'[s] = gaveUp[s]
  <2>1. UNCHANGED gaveUp \/ \E b : gaveUp' = [gaveUp EXCEPT ![Rx] = b]
    BY DEF SpinWait, SpinWoken, SpinExpired, SpinRemove, ParkWait, ParkToken, ParkTimesOut,
       CheckList, CheckDeadline, ParkSpurious, AsyncWait, AwaitWoken, AwaitTimedOut, Forget,
       WaitDropped, DeadlinePasses, Relock
  <2> QED BY <2>1, WakeTypes
<1>3. SendersSame
  BY <1>1, <1>2 DEF SendersSame
<1>4. SendersNotify' /\ (Dropping => Dropping')
  BY <1>0, <1>3, SendersSameKeeps
<1>5. RegistersLocked'
  BY <1>1 DEF RegistersLocked
<1>6. PairsKnown'
  <2>1. /\ Rx \in Tasks /\ p \notin {"unlock", "await", "forget"} => wait'[Rx] = None
        /\ \A w \in Waits : wstate'[w] = "waiting" =>
             Rx \in Tasks /\ wait'[Rx] = w /\ p # "forget"
    <3>1. CASE AwaitWoken(Rx)
      BY <1>0, <1>1, <3>1, WakeTypes DEF AwaitWoken, PairsKnown
    <3>2. CASE AwaitTimedOut(Rx)
      <4>1. p = "forget" /\ UNCHANGED wait
        BY <1>1, <3>2, Elsewhere DEF AwaitTimedOut
      <4>2. \A w \in Waits : wstate[w] = "waiting" => wait[Rx] = w
        BY <1>0 DEF PairsKnown
      <4>3. wstate' = [wstate EXCEPT ![wait[Rx]] = IF @ = "waiting" THEN "canceled" ELSE @]
        BY <3>2 DEF AwaitTimedOut, Cancel
      <4>4. \A w \in Waits : wstate'[w] # "waiting"
        BY <4>2, <4>3, WakeTypes
      <4> QED BY <4>1, <4>4
    <3>3. CASE Forget(Rx)
      BY <1>0, <1>1, <3>3, WakeTypes DEF Forget, PairsKnown
    <3>4. CASE Rx \in Tasks /\ WaitDropped(Rx)
      <4>1. p = "idle"
        BY <1>1, <3>4, Elsewhere DEF WaitDropped
      <4>2. CASE Cancel(wait[Rx]) /\ wait' = [wait EXCEPT ![Rx] = None]
        BY <1>0, <3>4, <4>1, <4>2, WakeTypes DEF PairsKnown, Cancel
      <4>3. CASE pc[Rx] = "relock" /\ UNCHANGED <<wait, wstate>>
        BY <1>0, <3>4, <4>1, <4>3 DEF PairsKnown
      <4> QED BY <3>4, <4>2, <4>3 DEF WaitDropped
    <3>5. CASE ~AsyncWait(Rx) /\ ~(Rx \in Tasks /\ WaitDropped(Rx))
      <4>1. UNCHANGED <<wait, wstate>>
        BY <3>5 DEF SpinWait, SpinWoken, SpinExpired, SpinRemove, ParkWait, ParkToken,
           ParkTimesOut, CheckList, CheckDeadline, ParkSpurious, DeadlinePasses, Relock
      <4>2. pc[Rx] \in {"unlock", "await", "forget"} => p = pc[Rx]
        BY <1>1, <3>5, Elsewhere DEF SpinWait, SpinWoken, SpinExpired, SpinRemove, ParkWait,
           ParkToken, ParkTimesOut, CheckList, CheckDeadline, ParkSpurious, DeadlinePasses, Relock
      <4>3. p = "forget" => pc[Rx] = "forget"
        BY <1>1, <4>2
      <4> QED BY <1>0, <1>1, <4>1, <4>2, <4>3 DEF PairsKnown
    <3> QED BY <3>1, <3>2, <3>3, <3>4, <3>5 DEF AsyncWait
  <2> QED BY <1>0, <1>1, <2>1 DEF PairsKnown
<1>7. SleeperCovered'
  <2> SUFFICES ASSUME Unnotified(Rx)', pc'[Rx] # "unlock", (queue # <<>> \/ sender_count = 0)'
               PROVE  Dropping' \/ \E s \in Senders : Ahead(s)'
    BY DEF SleeperCovered
  <2>2. Unnotified(Rx) /\ pc[Rx] # "unlock"
    BY <1>1 DEF Unnotified
  <2>3. Dropping \/ \E s \in Senders : Ahead(s)
    BY <1>0, <2>2 DEF SleeperCovered
  <2>4. ASSUME NEW s \in Senders, Ahead(s) PROVE Ahead(s)'
    BY <1>0, <1>1, <2>4, OneWaits DEF Ahead, Unnotified
  <2> QED BY <1>4, <2>3, <2>4
<1> QED BY <1>4, <1>5, <1>6, <1>7 DEF WakeInv

\* The receiver passes a notification on, or drops the channel: it has no entry.
LEMMA ReceiverNotifies ==
  ASSUME IInv, WakeInv, NotifyStep(Rx), UNCHANGED <<chanVars, ops, histVars>>
  PROVE  WakeInv'
<1> USE DEF chanVars, callVars, asyncVars, spinVars, syncVars
<1>0. /\ SendersNotify /\ PairsKnown /\ Rx \in Actors
  BY WakeTypes DEF WakeInv
<1>1. /\ pc[Rx] \in NotifyPCs /\ pc'[Rx] \in NotifyPCs \cup {"relock", "notified"}
      /\ \A s \in Senders : pc'[s] = pc[s]
  <2>1. CASE TakeSpin(Rx) \/ TakeSync(Rx) \/ TakeAsync(Rx)
    BY <2>1, Elsewhere DEF TakeSpin, TakeSync, TakeAsync, NotifyDone, NotifyPCs
  <2>2. CASE Store(Rx) \/ Unpark(Rx)
    BY <2>2, Elsewhere DEF Store, Unpark, After, NotifyDone, NotifyPCs
  <2>3. CASE Wake(Rx)
    BY <2>3, Elsewhere DEF Wake, NotifyDone, NotifyPCs
  <2> QED BY <2>1, <2>2, <2>3 DEF NotifyStep
<1>2. UNCHANGED <<how, all, gaveUp, wait>> /\ asyncList' \subseteq asyncList
  BY DEF NotifyStep, TakeSpin, Store, TakeSync, Unpark, TakeAsync, Wake, Picks
<1>3. \A s \in Senders : taken'[s] = taken[s]
  <2>1. taken' = taken \/ \E S : taken' = [taken EXCEPT ![Rx] = S]
    BY DEF NotifyStep, TakeSpin, Store, TakeSync, Unpark, TakeAsync, Wake
  <2> QED BY <2>1, WakeTypes
<1>4. \A w \in Waits : wstate'[w] = "waiting" => wstate[w] = "waiting"
  BY WakeTypes DEF NotifyStep, TakeSpin, Store, TakeSync, Unpark, TakeAsync, Wake
<1>5. SendersNotify'
  BY <1>0, <1>1, <1>2 DEF SendersNotify
<1>6. RegistersLocked' /\ SleeperCovered'
  BY <1>1 DEF RegistersLocked, SleeperCovered, Unnotified, NotifyPCs
<1>7. PairsKnown'
  BY <1>0, <1>1, <1>2, <1>3, <1>4 DEF PairsKnown, NotifyPCs
<1> QED BY <1>5, <1>6, <1>7 DEF WakeInv

(***************************************************************************)
(* The senders' steps.                                                     *)
(***************************************************************************)

LEMMA SenderGoes ==
  ASSUME IInv, NEW s \in Senders, NEW p, Goto(s, p)
  PROVE  pc'[Rx] = pc[Rx] /\ \A b \in Senders : pc'[b] = IF b = s THEN p ELSE pc[b]
  BY WakeTypes DEF Goto

\* A sender's own calls: what they push or drop they go on to notify of.
LEMMA SenderCalls ==
  ASSUME IInv, WakeInv, NEW s \in Senders,
         \/ SendCheck(s) \/ SendDropped(s) \/ DropSender(s) \/ SendPush(s) \/ DropLock(s)
         \/ Notified(s)
  PROVE  WakeInv'
<1> USE DEF chanVars, histVars, callVars, asyncVars, spinVars, syncVars
<1>0. /\ SendersNotify /\ RegistersLocked /\ PairsKnown /\ SleeperCovered
      /\ Rx \in Actors /\ None # Rx /\ sender_count \in Nat
  BY WakeTypes DEF WakeInv
<1>1. PICK p \in {"idle", "send", "spin_list", "drop_lock"} : Goto(s, p)
  BY DEF SendCheck, SendDropped, DropSender, SendPush, DropLock, Notified
<1>2. pc'[Rx] = pc[Rx] /\ \A b \in Senders : pc'[b] = IF b = s THEN p ELSE pc[b]
  BY <1>1, SenderGoes
<1>3. /\ UNCHANGED <<holder, spinList, syncList, asyncList, wait, wstate, taken, how, gaveUp>>
      /\ pc[s] \in {"idle", "send", "drop_lock", "notified"}
  BY DEF SendCheck, SendDropped, DropSender, SendPush, DropLock, Notified, Owns
<1>4. \A b \in Senders \ {s} : all'[b] = all[b]
  <2>1. all' = all \/ \E c : all' = [all EXCEPT ![s] = c]
    BY DEF SendCheck, SendDropped, DropSender, SendPush, DropLock, Notified
  <2> QED BY <2>1, WakeTypes
<1>5. SendersNotify'
  BY <1>0, <1>2, <1>3 DEF SendersNotify, NotifyPCs
<1>6. PairsKnown'
  BY <1>0, <1>2, <1>3, <1>4 DEF PairsKnown
<1>7. ASSUME NEW b \in Senders, pc[b] = "drop_lock", b # s PROVE Dropping'
  BY <1>2, <1>7 DEF Dropping
<1>8. ASSUME NEW b \in Senders, Ahead(b) PROVE Ahead(b)'
  <2>1. b # s
    BY <1>3, <1>8 DEF Ahead
  <2> QED BY <1>2, <1>3, <1>4, <1>8, <2>1 DEF Ahead
<1>9. CASE SendPush(s) \/ DropLock(s)
  <2>1. holder = None /\ UNCHANGED sender_count
    BY <1>9 DEF SendPush, DropLock
  <2>2. pc[Rx] \notin {"test", "register", "unlock"}
    BY <1>0, <2>1 DEF RegistersLocked
  <2>3. RegistersLocked'
    BY <1>2, <2>2 DEF RegistersLocked
  <2>4. SleeperCovered'
    <3>1. CASE p = "spin_list"
      <4>1. Unnotified(Rx)' => Ahead(s)'
        BY <1>2, <3>1 DEF Unnotified, Ahead
      <4> QED BY <4>1 DEF SleeperCovered
    <3>2. CASE p # "spin_list"
      <4>1. SendPush(s) /\ UNCHANGED queue
        BY <1>1, <1>2, <1>9, <3>2, SenderGoes DEF SendPush, DropLock
      <4>2. Dropping => Dropping'
        <5>1. pc[s] = "send"
          BY <4>1 DEF SendPush
        <5> QED BY <1>7, <5>1 DEF Dropping
      <4>3. Unnotified(Rx)' => Unnotified(Rx)
        BY <1>2, <1>3 DEF Unnotified
      <4> QED BY <1>0, <1>2, <1>8, <2>1, <4>1, <4>2, <4>3 DEF SleeperCovered
    <3> QED BY <3>1, <3>2
  <2> QED BY <1>5, <1>6, <2>3, <2>4 DEF WakeInv
<1>10. CASE SendCheck(s) \/ SendDropped(s) \/ DropSender(s) \/ Notified(s)
  <2>1. UNCHANGED queue /\ pc[s] # "drop_lock"
    BY <1>10 DEF SendCheck, SendDropped, DropSender, Notified, Owns
  <2>2. Dropping => Dropping'
    BY <1>7, <2>1 DEF Dropping
  <2>3. sender_count' = 0 => sender_count = 0 \/ Dropping'
    <3>1. CASE DropSender(s)
      <4>1. sender_count' = sender_count - 1
        BY <3>1 DEF DropSender
      <4>2. sender_count' = 0 => sender_count = 1
        BY <1>0, <4>1
      <4>3. sender_count = 1 => pc'[s] = "drop_lock"
        BY <3>1, SenderGoes DEF DropSender
      <4> QED BY <4>2, <4>3 DEF Dropping
    <3>2. CASE ~DropSender(s)
      BY <1>10, <3>2 DEF SendCheck, SendDropped, Notified
    <3> QED BY <3>1, <3>2
  <2>4. RegistersLocked'
    BY <1>0, <1>2, <1>3, <2>1, <2>2, <2>3 DEF RegistersLocked
  <2>5. SleeperCovered'
    <3>1. Unnotified(Rx)' => Unnotified(Rx)
      BY <1>2, <1>3 DEF Unnotified
    <3> QED BY <1>0, <1>2, <1>8, <2>1, <2>2, <2>3, <3>1 DEF SleeperCovered
  <2> QED BY <1>5, <1>6, <2>4, <2>5 DEF WakeInv
<1> QED BY <1>9, <1>10

LEMMA SenderClones ==
  ASSUME IInv, WakeInv, NEW s \in Senders, CloneSender(s) PROVE WakeInv'
<1>1. UNCHANGED <<condVars, queue>> /\ sender_count' = sender_count + 1 /\ sender_count \in Nat
  BY WakeTypes DEF CloneSender
<1>2. sender_count' # 0
  BY <1>1
<1>3. SleeperCovered'
  BY <1>1, <1>2 DEF condVars, WakeInv, SleeperCovered, Unnotified, Dropping, Ahead
<1> QED BY <1>1, <1>2, <1>3 DEF condVars, WakeInv, SendersNotify, RegistersLocked, PairsKnown

\* A sender on its way through the lists either takes the receiver's entry or
\* stays ahead of it; an AsyncWake it wakes in vain sends it back to the list.
LEMMA SenderNotifies ==
  ASSUME IInv, WakeInv, NEW s \in Senders, NotifyStep(s), UNCHANGED <<chanVars, ops, histVars>>
  PROVE  WakeInv'
<1> USE DEF chanVars, callVars, asyncVars, spinVars, syncVars
<1>0. /\ SendersNotify /\ RegistersLocked /\ PairsKnown /\ SleeperCovered
      /\ Rx \in Actors /\ s # Rx
  BY WakeTypes DEF WakeInv
<1>1. UNCHANGED <<how, all, gaveUp, wait, holder>>
  BY DEF NotifyStep, TakeSpin, Store, TakeSync, Unpark, TakeAsync, Wake
<1>2. /\ pc[s] \in NotifyPCs /\ pc'[s] \in NotifyPCs \cup {"notified"}
      /\ pc'[Rx] = pc[Rx] /\ \A b \in Senders \ {s} : pc'[b] = pc[b]
  <2>0. NotifyDone(s) = "notified"
    BY <1>0 DEF NotifyDone, SendersNotify
  <2>1. CASE TakeSpin(s) \/ TakeSync(s) \/ TakeAsync(s)
    BY <2>0, <2>1, SenderGoes DEF TakeSpin, TakeSync, TakeAsync, NotifyPCs
  <2>2. CASE Store(s) \/ Unpark(s)
    BY <2>0, <2>2, SenderGoes DEF Store, Unpark, After, NotifyPCs
  <2>3. CASE Wake(s)
    BY <2>0, <2>3, SenderGoes DEF Wake, NotifyPCs
  <2> QED BY <2>1, <2>2, <2>3 DEF NotifyStep
<1>3. \A b \in Senders \ {s} : taken'[b] = taken[b]
  <2>1. taken' = taken \/ \E S : taken' = [taken EXCEPT ![s] = S]
    BY DEF NotifyStep, TakeSpin, Store, TakeSync, Unpark, TakeAsync, Wake
  <2> QED BY <2>1, WakeTypes
<1>4. \A w \in Waits : wstate'[w] = "waiting" => wstate[w] = "waiting"
  BY WakeTypes DEF NotifyStep, TakeSpin, Store, TakeSync, Unpark, TakeAsync, Wake
<1>5. /\ spinList' \subseteq spinList /\ syncList' \subseteq syncList
      /\ asyncList' \subseteq asyncList
  BY DEF NotifyStep, TakeSpin, Store, TakeSync, Unpark, TakeAsync, Wake
<1>6. SendersNotify'
  BY <1>0, <1>1, <1>2 DEF SendersNotify
<1>7. Dropping => Dropping'
  BY <1>2 DEF Dropping, NotifyPCs
<1>8. RegistersLocked'
  BY <1>0, <1>1, <1>2, <1>7 DEF RegistersLocked
<1>9. /\ taken'[s] \cap asyncList' = {}
      /\ pc'[s] = "wake" => /\ taken'[s] \subseteq Waits
                            /\ ~all[s] => \E w \in Waits : taken'[s] = {w}
  <2>0. taken[s] \cap asyncList = {} /\ s \in DOMAIN taken
    BY <1>0, WakeTypes DEF PairsKnown
  <2>1. CASE TakeSpin(s)
    <3>1. taken'[s] = taken[s] \/ taken'[s] \subseteq Threads
      BY <2>0, <2>1, WakeTypes DEF TakeSpin, Picks
    <3>2. asyncList' = asyncList /\ pc'[s] # "wake"
      BY <2>1, SenderGoes DEF TakeSpin
    <3> QED BY <2>0, <3>1, <3>2, WakeTypes
  <2>2. CASE TakeSync(s)
    <3>1. taken'[s] = taken[s] \/ taken'[s] \subseteq Threads
      BY <2>0, <2>2, WakeTypes DEF TakeSync, Picks
    <3>2. asyncList' = asyncList /\ pc'[s] # "wake"
      BY <2>2, SenderGoes DEF TakeSync
    <3> QED BY <2>0, <3>1, <3>2, WakeTypes
  <2>3. CASE Store(s) \/ Unpark(s)
    <3>1. taken'[s] \subseteq taken[s] /\ asyncList' = asyncList
      BY <2>0, <2>3 DEF Store, Unpark
    <3>2. pc'[s] # "wake"
      BY <1>0, <2>3, SenderGoes DEF Store, Unpark, After, NotifyDone
    <3> QED BY <2>0, <3>1, <3>2
  <2>4. CASE TakeAsync(s)
    <3>1. CASE asyncList = {}
      <4>1. pc'[s] # "wake" /\ UNCHANGED <<asyncList, taken>>
        BY <2>4, <3>1, SenderGoes DEF TakeAsync, NotifyDone
      <4> QED BY <2>0, <4>1
    <3>2. CASE asyncList # {}
      <4>1. PICK S \in Picks(s, asyncList) : /\ taken' = [taken EXCEPT ![s] = S]
                                             /\ asyncList' = asyncList \ S
        BY <2>4, <3>2 DEF TakeAsync
      <4>2. S \subseteq asyncList /\ (~all[s] => \E w \in asyncList : S = {w})
        BY <4>1 DEF Picks
      <4> QED BY <2>0, <4>1, <4>2, WakeTypes
    <3> QED BY <3>1, <3>2
  <2>5. CASE Wake(s)
    <3>1. PICK w \in taken[s] :
            /\ taken' = [taken EXCEPT ![s] = @ \ {w}]
            /\ Goto(s, CASE taken[s] # {w} -> "wake"
                         [] ~all[s] /\ wstate[w] # "waiting" -> "async_list"
                         [] OTHER -> NotifyDone(s))
      BY <2>5 DEF Wake
    <3>2. asyncList' = asyncList /\ pc[s] = "wake" /\ taken'[s] = taken[s] \ {w}
      BY <2>0, <2>5, <3>1 DEF Wake
    <3>3. taken[s] \subseteq Waits /\ (~all[s] => taken[s] = {w})
      BY <1>0, <3>1, <3>2 DEF PairsKnown
    <3>4. ~all[s] => pc'[s] # "wake"
      BY <3>1, <3>3, SenderGoes DEF NotifyDone
    <3> QED BY <2>0, <3>2, <3>3, <3>4
  <2> QED BY <2>1, <2>2, <2>3, <2>4, <2>5 DEF NotifyStep
<1>10. PairsKnown'
  BY <1>0, <1>1, <1>2, <1>3, <1>4, <1>5, <1>9 DEF PairsKnown
<1>11. SleeperCovered'
  <2> SUFFICES ASSUME Unnotified(Rx)', pc'[Rx] # "unlock", (queue # <<>> \/ sender_count = 0)'
               PROVE  Dropping' \/ \E b \in Senders : Ahead(b)'
    BY DEF SleeperCovered
  <2>1. Unnotified(Rx) /\ pc[Rx] # "unlock"
    BY <1>1, <1>2, <1>5 DEF Unnotified
  <2>2. CASE Dropping
    BY <1>7, <2>2
  <2>3. ASSUME NEW b \in Senders, Ahead(b), b # s PROVE Ahead(b)'
    <3>1. /\ Rx \in spinList => Rx \in spinList'
          /\ Rx \in syncList => Rx \in syncList'
      BY <1>0, <1>1, <1>5, OneWaits DEF Unnotified
    <3> QED BY <1>1, <1>2, <2>3, <3>1 DEF Ahead
  <2>4. CASE Ahead(s)
    <3>1. CASE TakeSpin(s)
      <4>1. spinList = {}
        <5> SUFFICES ASSUME spinList # {} PROVE FALSE
          OBVIOUS
        <5>1. spinList = {Rx} /\ how[Rx] = "spin" /\ Rx \notin syncList
          BY <1>0, OneWaits
        <5>2. Rx \notin spinList'
          BY <3>1, <5>1 DEF TakeSpin, Picks
        <5> QED BY <1>1, <1>5, <5>1, <5>2 DEF Unnotified
      <4>2. pc[s] = "spin_list" /\ pc'[s] = "sync_list" /\ UNCHANGED syncList
        BY <3>1, <4>1, SenderGoes DEF TakeSpin
      <4> QED BY <1>1, <2>4, <4>1, <4>2 DEF Ahead
    <3>2. CASE TakeSync(s)
      <4>1. pc[s] = "sync_list"
        BY <3>2 DEF TakeSync
      <4>2. syncList = {}
        <5> SUFFICES ASSUME syncList # {} PROVE FALSE
          OBVIOUS
        <5>1. syncList = {Rx} /\ how[Rx] = "block" /\ Rx \notin spinList
          BY <1>0, OneWaits
        <5>2. Rx \notin syncList'
          BY <3>2, <5>1 DEF TakeSync, Picks
        <5> QED BY <1>1, <1>5, <5>1, <5>2 DEF Unnotified
      <4>3. pc'[s] = "async_list"
        BY <3>2, <4>2, SenderGoes DEF TakeSync
      <4> QED BY <1>1, <2>4, <4>1, <4>2, <4>3 DEF Ahead
    <3>3. CASE Store(s) \/ Unpark(s)
      BY <2>4, <3>3 DEF Store, Unpark, Ahead
    <3>4. CASE TakeAsync(s)
      <4>1. pc[s] = "async_list" /\ how[Rx] = "async"
        BY <2>4, <3>4 DEF TakeAsync, Ahead
      <4>2. wait[Rx] \in asyncList /\ wait[Rx] \in asyncList'
        BY <1>0, <1>1, <2>1, <4>1, OneWaits, <1>5 DEF Unnotified
      <4>3. PICK S \in Picks(s, asyncList) : asyncList' = asyncList \ S /\ Goto(s, "wake")
        BY <3>4, <4>2 DEF TakeAsync
      <4>4. ~all[s]
        BY <4>2, <4>3 DEF Picks
      <4> QED BY <1>1, <4>1, <4>3, <4>4, SenderGoes DEF Ahead
    <3>5. CASE Wake(s)
      <4>1. pc[s] = "wake" /\ how[Rx] = "async" /\ ~all[s]
        BY <2>4, <3>5 DEF Wake, Ahead
      <4>2. wait[Rx] \in asyncList
        BY <1>0, <2>1, <4>1, OneWaits DEF Unnotified
      <4>3. PICK w \in taken[s] :
              Goto(s, CASE taken[s] # {w} -> "wake"
                        [] ~all[s] /\ wstate[w] # "waiting" -> "async_list"
                        [] OTHER -> NotifyDone(s))
        BY <3>5 DEF Wake
      <4>4. w \in Waits /\ taken[s] = {w} /\ w \notin asyncList
        BY <1>0, <4>1, <4>3 DEF PairsKnown
      <4>5. wstate[w] # "waiting"
        BY <1>0, <4>2, <4>4 DEF PairsKnown
      <4>6. pc'[s] = "async_list"
        BY <4>1, <4>3, <4>4, <4>5, SenderGoes
      <4> QED BY <1>1, <4>1, <4>6 DEF Ahead
    <3> QED BY <3>1, <3>2, <3>3, <3>4, <3>5 DEF NotifyStep
  <2> QED BY <1>0, <2>1, <2>2, <2>3, <2>4 DEF SleeperCovered
<1> QED BY <1>6, <1>8, <1>10, <1>11 DEF WakeInv

LEMMA WakeStep == IInv /\ WakeInv /\ [Next]_vars => WakeInv'
<1> SUFFICES ASSUME IInv, WakeInv, [Next]_vars PROVE WakeInv'
  OBVIOUS
<1>1. ASSUME NEW s \in Senders, SendCheck(s) \/ SendDropped(s) \/ CloneSender(s) \/ DropSender(s)
      PROVE  WakeInv'
  BY <1>1, SenderCalls, SenderClones
<1>2. ASSUME NEW a \in Actors, Notifies(a) \/ Notified(a) PROVE WakeInv'
  <2>1. a \in Senders \/ a = Rx
    BY MpscAssumption
  <2> QED BY <1>2, <2>1, SenderCalls, SenderNotifies, ReceiverNotifies, ReceiverCalls DEF Notifies
<1>3. CASE Recv \/ TryRecv \/ EnterGivenUp \/ Test \/ TimedOut \/ DropReceiver
  BY <1>3, ReceiverCalls
<1>4. CASE Waiting \/ Passing \/ RecvDropped
  BY <1>4, ReceiverRegisters, ReceiverWaits DEF Waiting, Passing, RecvDropped, WaitStep
<1>5. CASE Locking
  BY <1>5, ReceiverCalls, ReceiverWaits, SenderCalls DEF Locking, Relocking
<1>6. CASE UNCHANGED vars
  BY <1>6 DEF vars, condVars, chanVars, histVars, WakeInv, SendersNotify, RegistersLocked,
     PairsKnown, SleeperCovered, Unnotified, Dropping, Ahead
<1> QED BY <1>1, <1>2, <1>3, <1>4, <1>5, <1>6 DEF Next, Resting

(***************************************************************************)
(* The theorems.                                                           *)
(***************************************************************************)

\* The strengthened invariant of the channel holds in every reachable state.
THEOREM MpscInvariance == Spec => []IInv
  BY MpscInit, MpscStep, PTL DEF Spec

\* The channel's variables keep their types; its sender count never wraps.
THEOREM MpscTypes == Spec => []TypeOK
<1>1. IInv => TypeOK
  BY DEF IInv
<1> QED BY MpscInvariance, <1>1, PTL

\* Every message comes out once and in the order of the pushes, and after a
\* receive has answered Disconnected there is nothing more to come.
THEOREM LastWord == Spec => []DisconnectedIsFinal
<1>1. IInv => DisconnectedIsFinal
  <2> SUFFICES ASSUME IInv PROVE DisconnectedIsFinal
    OBVIOUS
  <2>1. got \in Seq(Messages) /\ ChannelExact
    BY DEF IInv, TypeOK
  <2>2. queue = <<>> => got \o queue = got
    BY <2>1, ConcatEmptySeq
  <2> QED BY <2>1, <2>2 DEF ChannelExact, DisconnectedIsFinal
<1> QED BY MpscInvariance, <1>1, PTL

\* A receiver that sleeps while there is something to receive, or nobody left to
\* wait for, is about to be notified by a sender.
THEOREM NoneIsStuck == Spec => []NoStuckReceiver
<1>1. IInv /\ WakeInv => NoStuckReceiver
  <2> SUFFICES ASSUME IInv, WakeInv, Unnotified(Rx), queue # <<>> \/ sender_count = 0
               PROVE  \E s \in Senders : Notifying(s) \/ pc[s] = "drop_lock"
    BY DEF NoStuckReceiver
  <2>1. Dropping \/ \E s \in Senders : Ahead(s)
    BY DEF WakeInv, SleeperCovered, RegistersLocked
  <2> QED BY <2>1 DEF Dropping, Ahead, Notifying, NotifyPCs
<1> QED BY MpscInvariance, WakeInit, WakeStep, <1>1, PTL DEF Spec
(***************************************************************************)
(* The refinement.                                                         *)
(***************************************************************************)

\* A wait that has given up is on its way out: no receive begins with its mark,
\* which is what tells a replayed notification from that of a dropped receiver.
GaveUpLast == gaveUp[Rx] => pc[Rx] \in {"relock", "timedout"} \cup NotifyPCs

\* The receiver waits on and asks on, until it tests again, gives up or is dropped.
LEMMA WaitsOn ==
  ASSUME IInv, GaveUpLast,
         WaitStep(Rx) \/ DeadlinePasses(Rx) \/ ParkSpurious(Rx) \/ Relock(Rx)
  PROVE  Asking /\ Asking' /\ GaveUpLast'
<1> USE WakeTypes DEF GaveUpLast, Asking, WaitPCs, NotifyPCs
<1>1. ASSUME NEW p \in WaitPCs, Goto(Rx, p), pc[Rx] \in WaitPCs \ {"relock", "timedout"},
             UNCHANGED gaveUp
      PROVE  Asking /\ Asking' /\ GaveUpLast'
  BY <1>1, Elsewhere
<1>2. ASSUME NEW p \in {"relock", "spin_list"}, Goto(Rx, p), pc[Rx] \in WaitPCs,
             gaveUp'[Rx], p = "spin_list" => gaveUp'[Rx]
      PROVE  Asking /\ Asking' /\ GaveUpLast'
  BY <1>2, Elsewhere
<1>3. CASE Register(Rx) \/ DropGuard(Rx)
  <2>1. pc[Rx] \in {"register", "unlock"} /\ UNCHANGED gaveUp
    BY <1>3 DEF Register, RegisterSpin, RegisterBlock, RegisterAsync, DropGuard
  <2>2. \E p \in WaitPCs : Goto(Rx, p)
    BY <1>3 DEF Register, RegisterSpin, RegisterBlock, RegisterAsync, DropGuard, Asleep
  <2> QED BY <1>1, <2>1, <2>2
<1>4. CASE SpinWait(Rx)
  <2>1. CASE SpinWoken(Rx) \/ SpinExpired(Rx)
    <3>1. pc[Rx] \in {"spin", "spin_flag"} /\ UNCHANGED gaveUp
      BY <2>1 DEF SpinWoken, SpinExpired
    <3>2. \E p \in WaitPCs : Goto(Rx, p)
      BY <2>1 DEF SpinWoken, SpinExpired
    <3> QED BY <1>1, <3>1, <3>2
  <2>2. CASE SpinRemove(Rx) /\ Rx \in spinList
    BY <1>2, <2>2 DEF SpinRemove
  <2>3. CASE SpinRemove(Rx) /\ Rx \notin spinList
    BY <1>1, <2>3 DEF SpinRemove
  <2> QED BY <1>4, <2>1, <2>2, <2>3 DEF SpinWait
<1>5. CASE ParkWait(Rx) \/ ParkSpurious(Rx)
  <2>1. CASE ParkToken(Rx) \/ ParkTimesOut(Rx) \/ ParkSpurious(Rx) \/ CheckList(Rx)
    <3>1. pc[Rx] \in {"park", "check"} /\ UNCHANGED gaveUp
      BY <2>1 DEF ParkToken, ParkTimesOut, ParkSpurious, CheckList
    <3>2. \E p \in WaitPCs : Goto(Rx, p)
      BY <2>1 DEF ParkToken, ParkTimesOut, ParkSpurious, CheckList
    <3> QED BY <1>1, <3>1, <3>2
  <2>2. CASE CheckDeadline(Rx)
    <3>1. pc[Rx] = "deadline" /\ pc'[Rx] \in {"relock", "park"} /\ (late[Rx] => pc'[Rx] = "relock")
      BY <2>2, Elsewhere DEF CheckDeadline
    <3>2. ~late[Rx] => UNCHANGED gaveUp
      BY <2>2 DEF CheckDeadline
    <3> QED BY <3>1, <3>2
  <2> QED BY <1>5, <2>1, <2>2 DEF ParkWait
<1>6. CASE AsyncWait(Rx)
  <2>1. CASE AwaitWoken(Rx) \/ AwaitTimedOut(Rx)
    <3>1. pc[Rx] = "await" /\ UNCHANGED gaveUp
      BY <2>1 DEF AwaitWoken, AwaitTimedOut
    <3>2. \E p \in WaitPCs : Goto(Rx, p)
      BY <2>1 DEF AwaitWoken, AwaitTimedOut
    <3> QED BY <1>1, <3>1, <3>2
  <2>2. CASE Forget(Rx)
    <3>1. pc[Rx] = "forget" /\ gaveUp'[Rx] /\ \E p \in {"relock", "spin_list"} : Goto(Rx, p)
      BY <2>2 DEF Forget
    <3> QED BY <1>2, <3>1
  <2> QED BY <1>6, <2>1, <2>2 DEF AsyncWait
<1>7. CASE DeadlinePasses(Rx)
  BY <1>7 DEF DeadlinePasses
<1>8. CASE Relock(Rx)
  BY <1>8, Elsewhere DEF Relock
<1> QED BY <1>3, <1>4, <1>5, <1>6, <1>7, <1>8 DEF WaitStep

\* A receiver that passes its notification on still asks, one that is dropped does
\* not, until it is done.
LEMMA NotifiesOn ==
  ASSUME IInv, GaveUpLast, NotifyStep(Rx)
  PROVE  Asking' = Asking /\ GaveUpLast'
<1>1. UNCHANGED gaveUp
  BY DEF NotifyStep, TakeSpin, Store, TakeSync, Unpark, TakeAsync, Wake
<1>2. /\ pc[Rx] \in NotifyPCs
      /\ pc'[Rx] \in NotifyPCs \cup {IF gaveUp[Rx] THEN "relock" ELSE "notified"}
  <2>1. CASE TakeSpin(Rx) \/ TakeSync(Rx) \/ TakeAsync(Rx)
    BY <2>1, Elsewhere DEF TakeSpin, TakeSync, TakeAsync, NotifyDone, NotifyPCs
  <2>2. CASE Store(Rx) \/ Unpark(Rx)
    BY <2>2, Elsewhere DEF Store, Unpark, After, NotifyDone, NotifyPCs
  <2>3. CASE Wake(Rx)
    BY <2>3, Elsewhere DEF Wake, NotifyDone, NotifyPCs
  <2> QED BY <2>1, <2>2, <2>3 DEF NotifyStep
<1> QED BY <1>1, <1>2 DEF Asking, GaveUpLast, NotifyPCs, WaitPCs

\* What a sender does leaves the receiver where it is.
LEMMA SendersApart ==
  ASSUME IInv, NEW s \in Senders,
         \/ SendCheck(s) \/ SendDropped(s) \/ CloneSender(s) \/ DropSender(s)
         \/ SendPush(s) \/ DropLock(s) \/ Notified(s) \/ NotifyStep(s)
  PROVE  pc'[Rx] = pc[Rx] /\ UNCHANGED gaveUp
<1>1. UNCHANGED gaveUp
  BY DEF SendCheck, SendDropped, CloneSender, DropSender, SendPush, DropLock, Notified,
     NotifyStep, TakeSpin, Store, TakeSync, Unpark, TakeAsync, Wake, condVars
<1>2. UNCHANGED pc \/ \E p : Goto(s, p)
  BY DEF SendCheck, SendDropped, CloneSender, DropSender, SendPush, DropLock, Notified,
     NotifyStep, TakeSpin, Store, TakeSync, Unpark, TakeAsync, Wake, condVars
<1> QED BY <1>1, <1>2, SenderGoes

\* A step of the channel is a step of the abstract channel or leaves it unchanged,
\* and keeps the mark of a wait that gave up to that wait.
LEMMA ChannelRefines ==
  ASSUME IInv, GaveUpLast, [Next]_vars
  PROVE  [Abstract!Next]_<<queue, alive, ~receiver_active, Asking, got>> /\ GaveUpLast'
<1> DEFINE Seen == <<queue, alive, ~receiver_active, Asking, got>>
           Good == [Abstract!Next]_Seen /\ GaveUpLast'
<1> USE DEF Abstract!Next, chanVars, histVars
<1>0. /\ ChannelExact /\ queue \in Seq(Messages) /\ Rx \notin Senders
      /\ pc[Rx] \in {"idle", "try", "enter", "notified"} => ~gaveUp[Rx]
  BY WakeTypes DEF IInv, TypeOK, GaveUpLast, NotifyPCs
<1>1. sender_count = 0 => alive = {}
  BY <1>0, FS_EmptySet DEF ChannelExact
<1>2. ASSUME NEW s \in Senders, pc'[Rx] = pc[Rx], UNCHANGED gaveUp
      PROVE  Asking' = Asking /\ GaveUpLast'
  BY <1>2 DEF Asking, GaveUpLast
<1>3. ASSUME NEW s \in Senders, SendCheck(s) \/ SendDropped(s) \/ DropLock(s) \/ Notified(s)
                                \/ Notifies(s)
      PROVE  Good
  <2>1. UNCHANGED <<queue, alive, receiver_active, got>>
    BY <1>3 DEF SendCheck, SendDropped, DropLock, Notified, Notifies
  <2>2. Asking' = Asking /\ GaveUpLast'
    BY <1>2, <1>3, SendersApart DEF Notifies
  <2> QED BY <2>1, <2>2
<1>4. ASSUME NEW s \in Senders, CloneSender(s) PROVE Good
  <2>1. Asking' = Asking /\ GaveUpLast'
    BY <1>2, <1>4, SendersApart
  <2>2. Abstract!Clone
    BY <1>4, <2>1 DEF CloneSender, Owns, Abstract!Clone
  <2> QED BY <2>1, <2>2
<1>5. ASSUME NEW s \in Senders, DropSender(s) PROVE Good
  <2>1. Asking' = Asking /\ GaveUpLast'
    BY <1>2, <1>5, SendersApart
  <2>2. Abstract!DropSender
    BY <1>5, <2>1 DEF DropSender, Owns, Abstract!DropSender
  <2> QED BY <2>1, <2>2
<1>6. ASSUME NEW s \in Senders, SendPush(s) PROVE Good
  <2>1. Asking' = Asking /\ GaveUpLast'
    BY <1>2, <1>6, SendersApart
  <2>2. CASE ~receiver_active
    BY <1>6, <2>1, <2>2 DEF SendPush
  <2>3. CASE receiver_active
    <3>1. s \in alive /\ <<s, ops[s]>> \in Messages
      BY <1>0, <1>6 DEF SendPush, ChannelExact, Messages
    <3>2. Abstract!Send
      BY <1>6, <2>1, <2>3, <3>1 DEF SendPush, Abstract!Send
    <3> QED BY <2>1, <3>2
  <2> QED BY <2>2, <2>3
<1>7. ASSUME NEW p \in {"idle", "try", "enter", "test", "register"}, Goto(Rx, p)
      PROVE  /\ Asking' <=> p # "idle"
             /\ (UNCHANGED gaveUp /\ ~gaveUp[Rx]) \/ ~gaveUp'[Rx] => GaveUpLast'
  BY <1>7, Elsewhere DEF Asking, GaveUpLast, WaitPCs, NotifyPCs
<1>8. CASE Recv \/ TryRecv
  <2>1. pc[Rx] = "idle" /\ UNCHANGED <<queue, alive, receiver_active, got, gaveUp>>
    BY <1>8 DEF Recv, TryRecv, CountRecv
  <2>2. \E p \in {"try", "enter"} : Goto(Rx, p)
    BY <1>8 DEF Recv, TryRecv
  <2>3. Asking' /\ ~Asking /\ GaveUpLast'
    BY <1>0, <1>7, <2>1, <2>2 DEF Asking, WaitPCs, NotifyPCs
  <2>4. Abstract!Ask
    BY <2>1, <2>3 DEF Abstract!Ask
  <2> QED BY <2>3, <2>4
<1>9. CASE EnterGivenUp \/ TimedOut \/ RecvDropped
  <2>1. /\ pc[Rx] \in {"enter"} \cup WaitPCs /\ Goto(Rx, "idle")
        /\ UNCHANGED <<queue, alive, receiver_active, got>>
    BY <1>9 DEF EnterGivenUp, TimedOut, RecvDropped, WaitDropped, WaitPCs
  <2>2. ~gaveUp'[Rx]
    BY <1>0, <1>9, WakeTypes DEF EnterGivenUp, TimedOut, RecvDropped, WaitDropped
  <2>3. ~Asking' /\ Asking /\ GaveUpLast'
    BY <1>7, <2>1, <2>2 DEF Asking
  <2>4. Abstract!GiveUp
    BY <2>1, <2>3 DEF Abstract!GiveUp
  <2> QED BY <2>3, <2>4
<1>10. CASE Test \/ TryLock \/ Enter
  <2>1. /\ pc[Rx] \in {"enter", "try", "test"} /\ ~gaveUp[Rx]
        /\ UNCHANGED <<alive, receiver_active, gaveUp>>
    BY <1>0, <1>10 DEF Test, TryLock, Enter, GaveUpLast, NotifyPCs
  <2>2. PICK p \in {"idle", "test", "register"} : Goto(Rx, p)
    BY <1>10 DEF Test, TryLock, Enter
  <2>3. Asking /\ (Asking' <=> p # "idle") /\ GaveUpLast'
    BY <1>7, <2>1, <2>2 DEF Asking, WaitPCs
  <2>4. CASE p = "idle" /\ (Pop \/ Disconnect)
    <3>1. CASE Pop
      <4>1. Abstract!Receive
        BY <2>1, <2>3, <2>4, <3>1 DEF Pop, Abstract!Receive
      <4> QED BY <2>3, <4>1
    <3>2. CASE Disconnect
      <4>1. Abstract!Disconnected
        BY <1>1, <2>1, <2>3, <2>4, <3>2 DEF Disconnect, Abstract!Disconnected
      <4> QED BY <2>3, <4>1
    <3> QED BY <2>4, <3>1, <3>2
  <2>5. CASE p = "idle" /\ UNCHANGED <<queue, got>>
    <3>1. Abstract!GiveUp
      BY <2>1, <2>3, <2>5 DEF Abstract!GiveUp
    <3> QED BY <2>3, <3>1
  <2>6. CASE p # "idle" /\ UNCHANGED <<queue, got>>
    BY <2>1, <2>3, <2>6
  <2>7. /\ p = "idle" => Pop \/ Disconnect \/ UNCHANGED <<queue, got>>
        /\ p # "idle" => UNCHANGED <<queue, got>>
    BY <1>10, <2>2, Elsewhere DEF Test, TryLock, Enter
  <2> QED BY <2>4, <2>5, <2>6, <2>7
<1>11. CASE DropReceiver
  <2>1. /\ pc[Rx] = "idle" /\ receiver_active /\ receiver_active' = FALSE
        /\ UNCHANGED <<queue, alive, got, gaveUp>> /\ pc'[Rx] = "spin_list"
    BY <1>11, Elsewhere DEF DropReceiver
  <2>2. ~Asking /\ ~Asking' /\ GaveUpLast'
    BY <1>0, <2>1 DEF Asking, GaveUpLast, WaitPCs, NotifyPCs
  <2>3. Asking' = Asking
    BY <2>2 DEF Asking
  <2>4. (~receiver_active)' = TRUE
    BY <2>1
  <2>5. Abstract!DropReceiver
    BY <2>1, <2>2, <2>3, <2>4 DEF Abstract!DropReceiver
  <2> QED BY <2>2, <2>5
<1>12. CASE Waiting \/ Passing \/ Relocking
  <2>1. Asking /\ Asking' /\ GaveUpLast'
    BY <1>12, WaitsOn DEF Waiting, Passing, Relocking
  <2>2. UNCHANGED <<queue, alive, receiver_active, got>> /\ Asking' = Asking
    BY <1>12, <2>1 DEF Waiting, Passing, Relocking, Asking
  <2> QED BY <2>1, <2>2
<1>13. CASE Notifies(Rx)
  BY <1>13, NotifiesOn DEF Notifies
<1>14. CASE Notified(Rx)
  <2>1. pc[Rx] = "notified" /\ Goto(Rx, "idle")
        /\ UNCHANGED <<queue, alive, receiver_active, got, gaveUp>>
    BY <1>14 DEF Notified
  <2>2. ~Asking /\ ~Asking' /\ GaveUpLast'
    BY <1>0, <1>7, <2>1 DEF Asking, WaitPCs, NotifyPCs
  <2>3. Asking' = Asking
    BY <2>2 DEF Asking
  <2> QED BY <2>1, <2>2, <2>3
<1>15. CASE UNCHANGED vars
  BY <1>15 DEF vars, condVars, Asking, GaveUpLast
<1>16. \A a \in Actors : a \in Senders \/ a = Rx
  BY MpscAssumption
<1> QED
  BY <1>3, <1>4, <1>5, <1>6, <1>8, <1>9, <1>10, <1>11, <1>12, <1>13, <1>14, <1>15, <1>16
  DEF Next, Locking, Resting

\* The channel implements the abstract one: messages come out once each in the
\* order of the pushes, a receive ends with one of them, with disconnection when
\* nothing is left and nobody can send, or empty-handed, and nothing is pushed
\* once the receiver is gone, for any senders, sends, receives and drops.
THEOREM MpscRefines == Spec => Abstract!SafeSpec
<1>1. Init => Abstract!Init /\ GaveUpLast
  <2> SUFFICES ASSUME Init PROVE Abstract!Init /\ GaveUpLast
    OBVIOUS
  <2>1. Rx \in Actors /\ pc[Rx] = "idle" /\ ~gaveUp[Rx]
    BY MpscAssumption DEF Init, CondInit
  <2> QED BY <2>1 DEF Init, Abstract!Init, GaveUpLast, Asking, WaitPCs, NotifyPCs
<1>2. IInv /\ GaveUpLast /\ [Next]_vars
        => [Abstract!Next]_<<queue, alive, ~receiver_active, Asking, got>> /\ GaveUpLast'
  BY ChannelRefines
<1> QED BY MpscInvariance, <1>1, <1>2, PTL DEF Spec, Abstract!SafeSpec, Abstract!vars
=============================================================================
