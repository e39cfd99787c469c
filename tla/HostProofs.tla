----------------------------- MODULE HostProofs -----------------------------
(* Theorems about the components that meet the host, for any constants.  Each  *)
(* has its inductive invariant, IInv of its module: a thread's messages move   *)
(* it through its stages in order; a future's callbacks sit at ids of their    *)
(* own; the runner has a result for each case it left; the driver's alarm is   *)
(* no later than any pending deadline; a reader that sleeps has its waker in   *)
(* the bridge of its own request; a token is armed once.                       *)
EXTENDS MCHost, FiniteSets, SequenceTheorems, FiniteSetTheorems, TLAPS

(***************************************************************************)
(* The mail of a worker.                                                   *)
(***************************************************************************)

LEMMA MessageKinds ==
  /\ Completed \in Messages /\ Completed.new = None
  /\ \A u \in Threads : Request(u) \in Messages /\ Request(u).new = u
  /\ \A m \in Messages : m.new \in Threads \cup {None}
  BY DEF Completed, Request, Messages

\* Posting adds one message at the end of one worker's mail.
LEMMA PostMail ==
  ASSUME mail \in [Threads -> Seq(Messages)], NEW t \in Threads, NEW m \in Messages,
         Post(t, m)
  PROVE  /\ mail' \in [Threads -> Seq(Messages)]
         /\ Len(mail[t]) \in Nat /\ Len(mail'[t]) = Len(mail[t]) + 1
         /\ \A v \in Threads : \A i \in 1..Len(mail'[v]) :
              \/ v = t /\ i = Len(mail'[t]) /\ mail'[v][i] = m
              \/ /\ i \in 1..Len(mail[v]) /\ mail'[v][i] = mail[v][i]
                 /\ v # t => mail'[v] = mail[v]
<1>1. /\ mail[t] \in Seq(Messages) /\ mail'[t] = Append(mail[t], m)
      /\ \A v \in Threads : v # t => mail'[v] = mail[v]
      /\ mail' = [mail EXCEPT ![t] = Append(@, m)]
  BY DEF Post
<1> HIDE DEF Messages
<1>2. /\ Append(mail[t], m) \in Seq(Messages) /\ Len(mail[t]) \in Nat
      /\ Len(Append(mail[t], m)) = Len(mail[t]) + 1
      /\ \A i \in 1..Len(mail[t]) : Append(mail[t], m)[i] = mail[t][i]
      /\ Append(mail[t], m)[Len(mail[t]) + 1] = m
  BY <1>1
<1>3. mail' \in [Threads -> Seq(Messages)]
  BY <1>1, <1>2
<1>4. ASSUME NEW v \in Threads, NEW i \in 1..Len(mail'[v])
      PROVE  \/ v = t /\ i = Len(mail'[t]) /\ mail'[v][i] = m
             \/ /\ i \in 1..Len(mail[v]) /\ mail'[v][i] = mail[v][i]
                /\ v # t => mail'[v] = mail[v]
  <2>1. CASE v # t
    BY <1>1, <2>1
  <2>2. CASE v = t /\ i = Len(mail[t]) + 1
    BY <1>1, <1>2, <2>2
  <2>3. CASE v = t /\ i # Len(mail[t]) + 1
    <3>1. i \in 1..Len(mail[t])
      BY <1>1, <1>2, <2>3
    <3> QED BY <1>1, <1>2, <2>3, <3>1
  <2> QED BY <2>1, <2>2, <2>3
<1> QED BY <1>1, <1>2, <1>3, <1>4

\* Taking removes the first message of one worker's mail.
LEMMA TakeMail ==
  ASSUME mail \in [Threads -> Seq(Messages)], NEW t \in Threads, mail[t] # <<>>,
         mail' = [mail EXCEPT ![t] = Tail(@)]
  PROVE  /\ mail' \in [Threads -> Seq(Messages)]
         /\ 1 \in 1..Len(mail[t]) /\ Head(mail[t]) = mail[t][1] /\ Head(mail[t]) \in Messages
         /\ Len(mail[t]) = Len(mail'[t]) + 1 /\ Len(mail'[t]) \in Nat
         /\ \A v \in Threads : \A i \in 1..Len(mail'[v]) :
              IF v = t THEN i + 1 \in 1..Len(mail[t]) /\ mail'[t][i] = mail[t][i + 1]
              ELSE i \in 1..Len(mail[v]) /\ mail'[v] = mail[v]
<1>1. /\ mail[t] \in Seq(Messages) /\ mail'[t] = Tail(mail[t])
      /\ \A v \in Threads : v # t => mail'[v] = mail[v]
  OBVIOUS
<1> HIDE DEF Messages
<1>2. /\ Tail(mail[t]) \in Seq(Messages) /\ Len(Tail(mail[t])) \in Nat
      /\ Len(mail[t]) = Len(Tail(mail[t])) + 1
      /\ \A i \in 1..Len(Tail(mail[t])) : Tail(mail[t])[i] = mail[t][i + 1]
      /\ Head(mail[t]) = mail[t][1] /\ mail[t][1] \in Messages
  BY <1>1, HeadTailProperties, LenProperties, EmptySeq
<1>3. mail' \in [Threads -> Seq(Messages)]
  BY <1>1, <1>2
<1>4. ASSUME NEW i \in 1..Len(mail'[t])
      PROVE  i + 1 \in 1..Len(mail[t]) /\ mail'[t][i] = mail[t][i + 1]
  BY <1>1, <1>2
<1>5. ASSUME NEW v \in Threads, v # t, NEW i \in 1..Len(mail'[v])
      PROVE  i \in 1..Len(mail[v]) /\ mail'[v] = mail[v]
  BY <1>1, <1>5
<1> QED BY <1>1, <1>2, <1>3, <1>4, <1>5

(***************************************************************************)
(* The invariant holds initially and is kept by every action.              *)
(***************************************************************************)

LEMMA WorkersInit == Init => IInv
<1> SUFFICES ASSUME Init PROVE IInv
  OBVIOUS
<1> USE WorkersAssumption DEF Init
<1>1. TypeOK
  BY DEF TypeOK, Actors, Stages, Messages
<1>2. HeapExact
  BY DEF HeapExact, Stored, Actors
<1>3. MailExact
  BY DEF MailExact
<1>4. ChannelExact
  BY DEF ChannelExact, Asked, Settled, Told
<1>5. HandlesExact
  BY DEF HandlesExact, Actors
<1> QED BY <1>1, <1>2, <1>3, <1>4, <1>5 DEF IInv

\* A spawn takes a fresh block, a channel of one sender and the handle.
LEMMA SpawnKeeps ==
  ASSUME IInv, NEW a \in Actors, NEW u \in Threads, Spawn(a, u)
  PROVE  IInv'
<1> USE WorkersAssumption DEF IInv
<1>1. PICK b \in Blocks \ allocated :
         /\ allocated' = allocated \cup {b}
         /\ block' = [block EXCEPT ![u] = b]
  BY DEF Spawn
<1>2. /\ CanAct(a) /\ stage[u] = "unspawned"
      /\ senders' = [senders EXCEPT ![u] = 1]
      /\ owner' = [owner EXCEPT ![u] = a]
      /\ UNCHANGED <<sender, verdict, finished, blocked, awaits, outcome, answer>>
  BY DEF Spawn
<1>3. CASE a = Main
  <2>1. /\ stage' = [stage EXCEPT ![u] = "starting"]
        /\ host' = [host EXCEPT ![u] = Main]
        /\ mail' = mail
    BY <1>3 DEF Spawn, SpawnAt, NewWorker, Goto
  <2>2. TypeOK'
    BY <1>1, <1>2, <2>1 DEF TypeOK, Actors, Stages
  <2>3. HeapExact'
    BY <1>1, <1>2, <2>1 DEF TypeOK, HeapExact, Stored
  <2>4. MailExact'
    BY <1>2, <2>1 DEF TypeOK, MailExact, Messages
  <2>5. ChannelExact'
    BY <1>2, <2>1 DEF TypeOK, ChannelExact, Asked, Settled, Told, Truth
  <2>6. HandlesExact'
    BY <1>2, <2>1 DEF TypeOK, HandlesExact, Actors
  <2> QED BY <2>2, <2>3, <2>4, <2>5, <2>6
<1>4. CASE a # Main
  <2>1. /\ stage' = [stage EXCEPT ![u] = "requested"]
        /\ Post(a, Request(u)) /\ host' = host /\ a \in Threads
        /\ stage[a] \in {"entry", "drain"}
    BY <1>2, <1>4 DEF Spawn, SpawnAt, Goto, CanAct, Actors
  <2>2. mail \in [Threads -> Seq(Messages)]
    BY DEF TypeOK
  <2>3. TypeOK'
    <3>1. mail' \in [Threads -> Seq(Messages)]
      BY <2>1, <2>2, PostMail, MessageKinds
    <3>2. stage' \in [Threads -> Stages] /\ senders' \in [Threads -> 0..2]
      BY <1>2, <2>1 DEF TypeOK, Stages
    <3>3. /\ block' \in [Threads -> Blocks \cup {None}] /\ allocated' \subseteq Blocks
          /\ owner' \in [Threads -> Actors \cup {None}]
      BY <1>1, <1>2 DEF TypeOK
    <3> HIDE DEF IInv
    <3> QED BY <1>2, <2>1, <3>1, <3>2, <3>3 DEF TypeOK, IInv
  <2>4. HeapExact'
    BY <1>1, <1>2, <2>1 DEF TypeOK, HeapExact, Stored
  <2>5. MailExact'
    <3>1. /\ Len(mail[a]) \in Nat /\ Len(mail'[a]) = Len(mail[a]) + 1
          /\ \A v \in Threads : \A i \in 1..Len(mail'[v]) :
               \/ v = a /\ i = Len(mail'[a]) /\ mail'[v][i].new = u
               \/ /\ i \in 1..Len(mail[v]) /\ mail'[v][i] = mail[v][i]
                  /\ v # a => mail'[v] = mail[v]
      BY <2>1, <2>2, PostMail, MessageKinds
    <3>2. \A v \in Threads : \A i \in 1..Len(mail[v]) :
            mail[v][i].new # u /\ (v = a => mail[v][i].new # None)
      BY <1>2, <2>1 DEF MailExact, Actors
    <3>3. u # None
      BY DEF Actors
    <3>4. ASSUME NEW v \in Threads, NEW i \in 1..Len(mail'[v]), mail'[v][i].new = None
          PROVE  stage'[v] = "closed" /\ i = Len(mail'[v])
      <4>1. v # a /\ i \in 1..Len(mail[v]) /\ mail[v][i].new = None /\ mail'[v] = mail[v]
        BY <3>1, <3>2, <3>3, <3>4
      <4>2. stage[v] = "closed" /\ i = Len(mail[v])
        BY <4>1 DEF MailExact
      <4> QED BY <1>2, <2>1, <4>1, <4>2 DEF TypeOK
    <3>5. ASSUME NEW v \in Threads, NEW i \in 1..Len(mail'[v]), mail'[v][i].new # None
          PROVE  /\ stage'[mail'[v][i].new] = "requested"
                 /\ \A w \in Threads : \A j \in 1..Len(mail'[w]) :
                      mail'[w][j].new = mail'[v][i].new => w = v /\ j = i
      <4>1. CASE v = a /\ i = Len(mail'[a]) /\ mail'[v][i].new = u
        BY <2>1, <3>1, <3>2, <4>1 DEF TypeOK
      <4>2. CASE i \in 1..Len(mail[v]) /\ mail'[v][i] = mail[v][i]
        <5>1. /\ stage[mail[v][i].new] = "requested" /\ mail[v][i].new # u
              /\ \A w \in Threads : \A j \in 1..Len(mail[w]) :
                   mail[w][j].new = mail[v][i].new => w = v /\ j = i
          BY <3>2, <3>5, <4>2 DEF MailExact
        <5>2. mail[v][i].new \in Threads
          <6>1. mail[v][i] \in Messages
            BY <2>2, <4>2
          <6> QED BY <3>5, <4>2, <6>1, MessageKinds
        <5>3. stage'[mail'[v][i].new] = "requested"
          BY <2>1, <4>2, <5>1, <5>2 DEF TypeOK
        <5>4. ASSUME NEW w \in Threads, NEW j \in 1..Len(mail'[w]),
                     mail'[w][j].new = mail'[v][i].new
              PROVE  w = v /\ j = i
          BY <3>1, <4>2, <5>1, <5>4
        <5> QED BY <5>3, <5>4
      <4> QED BY <3>1, <4>1, <4>2
    <3> QED BY <3>4, <3>5 DEF MailExact
  <2>6. ChannelExact'
    BY <1>2, <2>1 DEF TypeOK, ChannelExact, Asked, Settled, Told, Truth
  <2>7. HandlesExact'
    BY <1>2, <2>1 DEF TypeOK, HandlesExact, Actors
  <2> QED BY <2>3, <2>4, <2>5, <2>6, <2>7
<1> QED BY <1>3, <1>4

\* The steps of a thread: what it sends and drops keeps its channel exact.
LEMMA ThreadKeeps ==
  ASSUME IInv, NEW t \in Threads,
         \/ Start(t) \/ StartFails(t) \/ Returns(t) \/ MarkFinished(t)
         \/ SendResult(t) \/ Panic(t) \/ SendPanic(t) \/ Traps(t) \/ TaskPanics(t)
  PROVE  IInv'
<1> USE WorkersAssumption DEF IInv
<1>1. CASE Start(t)
  <2> USE <1>1 DEF Start, Goto, Turning, heapVars, joinVars
  <2>1. TypeOK'
    BY DEF TypeOK, Actors, Stages, ChannelExact, Asked, Settled, Told
  <2>2. HeapExact'
    BY DEF TypeOK, Actors, HeapExact, Stored
  <2>3. MailExact'
    BY DEF TypeOK, Messages, MailExact
  <2>4. ChannelExact'
    BY DEF TypeOK, ChannelExact, Asked, Settled, Told, Truth
  <2>5. HandlesExact'
    BY DEF TypeOK, Actors, HandlesExact
  <2> QED BY <2>1, <2>2, <2>3, <2>4, <2>5
<1>2. CASE StartFails(t)
  <2> USE <1>2 DEF StartFails, Goto, Turning, heapVars, joinVars, chanVars
  <2>1. TypeOK'
    BY DEF TypeOK, Actors, Stages, ChannelExact, Asked, Settled, Told
  <2>2. HeapExact'
    BY DEF TypeOK, Actors, HeapExact, Stored
  <2>3. MailExact'
    BY DEF TypeOK, Messages, MailExact
  <2>4. ChannelExact'
    BY DEF TypeOK, ChannelExact, Asked, Settled, Told, Truth
  <2>5. HandlesExact'
    BY DEF TypeOK, Actors, HandlesExact
  <2> QED BY <2>1, <2>2, <2>3, <2>4, <2>5
<1>3. CASE Returns(t)
  <2> USE <1>3 DEF Returns, Goto, heapVars, joinVars
  <2>1. TypeOK'
    BY DEF TypeOK, Actors, Stages, ChannelExact, Asked, Settled, Told
  <2>2. HeapExact'
    BY DEF TypeOK, Actors, HeapExact, Stored
  <2>3. MailExact'
    BY DEF TypeOK, Messages, MailExact
  <2>4. ChannelExact'
    BY DEF TypeOK, ChannelExact, Asked, Settled, Told, Truth
  <2>5. HandlesExact'
    BY DEF TypeOK, Actors, HandlesExact
  <2> QED BY <2>1, <2>2, <2>3, <2>4, <2>5
<1>4. CASE MarkFinished(t)
  <2> USE <1>4 DEF MarkFinished, Goto, heapVars, joinVars
  <2>1. TypeOK'
    BY DEF TypeOK, Actors, Stages, ChannelExact, Asked, Settled, Told
  <2>2. HeapExact'
    BY DEF TypeOK, Actors, HeapExact, Stored
  <2>3. MailExact'
    BY DEF TypeOK, Messages, MailExact
  <2>4. ChannelExact'
    BY DEF TypeOK, ChannelExact, Asked, Settled, Told, Truth
  <2>5. HandlesExact'
    BY DEF TypeOK, Actors, HandlesExact
  <2> QED BY <2>1, <2>2, <2>3, <2>4, <2>5
<1>5. CASE SendResult(t)
  <2>1. /\ stage[t] = "send" /\ verdict[t] = <<>> /\ senders[t] = 1
        /\ Append(<<>>, "ok") = <<"ok">>
    BY <1>5 DEF SendResult, ChannelExact, Settled, Told
  <2>2. verdict' = [verdict EXCEPT ![t] = IF owner[t] = None THEN <<>> ELSE <<"ok">>]
    BY <1>5, <2>1 DEF SendResult, Send
  <2> USE <1>5, <2>1, <2>2 DEF SendResult, Goto, heapVars, joinVars
  <2>3. TypeOK'
    BY DEF TypeOK, Actors, Stages, ChannelExact, Asked, Settled, Told
  <2>4. HeapExact'
    BY DEF TypeOK, Actors, HeapExact, Stored
  <2>5. MailExact'
    BY DEF TypeOK, Messages, MailExact
  <2>6. ChannelExact'
    BY DEF TypeOK, ChannelExact, Asked, Settled, Told, Truth
  <2>7. HandlesExact'
    BY DEF TypeOK, Actors, HandlesExact
  <2> QED BY <2>3, <2>4, <2>5, <2>6, <2>7
<1>6. CASE Panic(t)
  <2> USE <1>6 DEF Panic, Goto, heapVars, joinVars
  <2>1. TypeOK'
    BY DEF TypeOK, Actors, Stages, ChannelExact, Asked, Settled, Told
  <2>2. HeapExact'
    BY DEF TypeOK, Actors, HeapExact, Stored
  <2>3. MailExact'
    BY DEF TypeOK, Messages, MailExact
  <2>4. ChannelExact'
    BY DEF TypeOK, ChannelExact, Asked, Settled, Told, Truth
  <2>5. HandlesExact'
    BY DEF TypeOK, Actors, HandlesExact
  <2> QED BY <2>1, <2>2, <2>3, <2>4, <2>5
<1>7. CASE SendPanic(t)
  <2>1. /\ stage[t] = "panicking" /\ verdict[t] = <<>> /\ sender[t] /\ senders[t] = 2
        /\ Append(<<>>, "err") = <<"err">>
    BY <1>7 DEF SendPanic, ChannelExact, Settled, Told
  <2>2. /\ verdict' = [verdict EXCEPT ![t] = IF owner[t] = None THEN <<>> ELSE <<"err">>]
        /\ senders' = [senders EXCEPT ![t] = 1] /\ senders' \in [Threads -> 0..2]
    <3>1. senders \in [Threads -> 0..2]
      BY DEF TypeOK
    <3>2. senders' = [senders EXCEPT ![t] = 2 - 1]
      BY <1>7, <2>1 DEF SendPanic, HookSends
    <3>3. senders' = [senders EXCEPT ![t] = 1] /\ senders' \in [Threads -> 0..2]
      <4> HIDE DEF IInv
      <4> QED BY <3>1, <3>2
    <3> QED BY <1>7, <2>1, <3>3 DEF SendPanic, HookSends, Send
  <2> USE <1>7, <2>1, <2>2 DEF SendPanic, HookSends, Goto, heapVars
  <2>3. TypeOK'
    <3>1. /\ stage' \in [Threads -> Stages] /\ sender' \in [Threads -> BOOLEAN]
          /\ awaits' \in [Actors -> SUBSET Threads]
      BY DEF TypeOK, Stages, Actors
    <3>2. verdict' \in [Threads -> {<<>>, <<"ok">>, <<"err">>}]
      BY DEF TypeOK
    <3> QED BY <3>1, <3>2 DEF TypeOK
  <2>4. HeapExact'
    BY DEF TypeOK, Actors, HeapExact, Stored
  <2>5. MailExact'
    BY DEF TypeOK, Messages, MailExact
  <2>6. ChannelExact'
    BY DEF TypeOK, ChannelExact, Asked, Settled, Told, Truth
  <2>7. HandlesExact'
    BY DEF TypeOK, Actors, HandlesExact
  <2> QED BY <2>3, <2>4, <2>5, <2>6, <2>7
<1>8. CASE TaskPanics(t)
  <2> USE <1>8 DEF TaskPanics, Turning, HookSends, Send, Goto, heapVars
  <2>1. TypeOK'
    BY DEF TypeOK, Actors, Stages, ChannelExact, Asked, Settled, Told
  <2>2. HeapExact'
    BY DEF TypeOK, Actors, HeapExact, Stored
  <2>3. MailExact'
    BY DEF TypeOK, Messages, MailExact
  <2>4. ChannelExact'
    BY DEF TypeOK, ChannelExact, Asked, Settled, Told, Truth
  <2>5. HandlesExact'
    BY DEF TypeOK, Actors, HandlesExact
  <2> QED BY <2>1, <2>2, <2>3, <2>4, <2>5
<1>9. CASE Traps(t)
  <2> USE <1>9 DEF Traps, Goto, heapVars, chanVars
  <2>1. TypeOK'
    BY DEF TypeOK, Actors, Stages
  <2>2. HeapExact'
    BY DEF TypeOK, Actors, HeapExact, Stored
  <2>3. MailExact'
    BY DEF TypeOK, Messages, MailExact
  <2>4. ChannelExact'
    BY DEF TypeOK, ChannelExact, Asked, Settled, Told, Truth
  <2>5. HandlesExact'
    BY DEF TypeOK, Actors, HandlesExact
  <2> QED BY <2>1, <2>2, <2>3, <2>4, <2>5
<1> QED BY <1>1, <1>2, <1>3, <1>4, <1>5, <1>6, <1>7, <1>8, <1>9

\* A worker posts its completion once, as its last message.
LEMMA ReportKeeps ==
  ASSUME IInv, NEW t \in Threads, Report(t)
  PROVE  IInv'
<1> USE WorkersAssumption DEF IInv
<1>1. /\ stage[t] \in {"trapped", "drain"} /\ awaits[t] = {}
      /\ stage' = [stage EXCEPT ![t] = "closed"] /\ Post(t, Completed)
      /\ UNCHANGED <<host, heapVars, chanVars, joinVars, outcome>>
  BY DEF Report, Turning, Goto, HeapExact, Actors
<1>2. mail \in [Threads -> Seq(Messages)]
  BY DEF TypeOK
<1>3. TypeOK'
  <2>1. mail' \in [Threads -> Seq(Messages)]
    BY <1>1, <1>2, PostMail, MessageKinds
  <2> QED BY <1>1, <2>1 DEF TypeOK, Stages, heapVars, chanVars, joinVars
<1>4. HeapExact'
  BY <1>1 DEF TypeOK, HeapExact, Stored, heapVars, joinVars
<1>5. MailExact'
  <2>1. /\ Len(mail[t]) \in Nat /\ Len(mail'[t]) = Len(mail[t]) + 1
        /\ \A v \in Threads : \A i \in 1..Len(mail'[v]) :
             \/ v = t /\ i = Len(mail'[t]) /\ mail'[v][i].new = None
             \/ /\ i \in 1..Len(mail[v]) /\ mail'[v][i] = mail[v][i]
                /\ v # t => mail'[v] = mail[v]
    BY <1>1, <1>2, PostMail, MessageKinds
  <2>2. \A i \in 1..Len(mail[t]) : mail[t][i].new # None
    BY <1>1 DEF MailExact
  <2>3. ASSUME NEW v \in Threads, NEW i \in 1..Len(mail'[v]), mail'[v][i].new = None
        PROVE  stage'[v] = "closed" /\ i = Len(mail'[v])
    <3>1. CASE v = t
      BY <1>1, <2>1, <2>2, <2>3, <3>1 DEF TypeOK
    <3>2. CASE v # t
      BY <1>1, <2>1, <2>3, <3>2 DEF TypeOK, MailExact
    <3> QED BY <3>1, <3>2
  <2>4. ASSUME NEW v \in Threads, NEW i \in 1..Len(mail'[v]), mail'[v][i].new # None
        PROVE  /\ stage'[mail'[v][i].new] = "requested"
               /\ \A w \in Threads : \A j \in 1..Len(mail'[w]) :
                    mail'[w][j].new = mail'[v][i].new => w = v /\ j = i
    <3>1. i \in 1..Len(mail[v]) /\ mail'[v][i] = mail[v][i]
      BY <2>1, <2>4
    <3>2. /\ stage[mail[v][i].new] = "requested"
          /\ \A w \in Threads : \A j \in 1..Len(mail[w]) :
               mail[w][j].new = mail[v][i].new => w = v /\ j = i
      BY <2>4, <3>1 DEF MailExact
    <3>3. mail[v][i].new \in Threads
      <4>1. mail[v][i] \in Messages
        BY <1>2, <3>1
      <4> QED BY <2>4, <3>1, <4>1, MessageKinds
    <3>4. stage'[mail'[v][i].new] = "requested"
      BY <1>1, <3>1, <3>2, <3>3 DEF TypeOK
    <3>5. ASSUME NEW w \in Threads, NEW j \in 1..Len(mail'[w]),
                 mail'[w][j].new = mail'[v][i].new
          PROVE  w = v /\ j = i
      BY <2>1, <2>4, <3>1, <3>2, <3>5
    <3> QED BY <3>4, <3>5
  <2> QED BY <2>3, <2>4 DEF MailExact
<1>6. ChannelExact'
  BY <1>1 DEF TypeOK, ChannelExact, Asked, Settled, Told, Truth, chanVars, joinVars
<1>7. HandlesExact'
  BY <1>1 DEF TypeOK, HandlesExact, joinVars
<1> QED BY <1>3, <1>4, <1>5, <1>6, <1>7

\* A message starts the one worker it asks for, or ends the one that sent it.
LEMMA OnMessageKeeps ==
  ASSUME IInv, NEW t \in Threads, OnMessage(t)
  PROVE  IInv'
<1> USE WorkersAssumption DEF IInv
<1> DEFINE u == Head(mail[t]).new
<1>1. /\ mail[t] # <<>> /\ mail' = [mail EXCEPT ![t] = Tail(@)]
      /\ UNCHANGED <<block, chanVars, joinVars, outcome>>
  BY DEF OnMessage
<1>2. mail \in [Threads -> Seq(Messages)]
  BY DEF TypeOK
<1>3. /\ mail' \in [Threads -> Seq(Messages)]
      /\ 1 \in 1..Len(mail[t]) /\ mail[t][1].new = u /\ u \in Threads \cup {None}
      /\ Len(mail[t]) = Len(mail'[t]) + 1 /\ Len(mail'[t]) \in Nat
      /\ \A v \in Threads : \A i \in 1..Len(mail'[v]) :
           IF v = t THEN i + 1 \in 1..Len(mail[t]) /\ mail'[t][i] = mail[t][i + 1]
           ELSE i \in 1..Len(mail[v]) /\ mail'[v] = mail[v]
  BY <1>1, <1>2, TakeMail, MessageKinds
<1> HIDE DEF u
<1>4. CASE u = None
  <2>1. /\ stage[t] = "closed" /\ Len(mail'[t]) = 0
        /\ stage' = [stage EXCEPT ![t] = "gone"]
        /\ allocated' = allocated \ {block[t]} /\ host' = host
    BY <1>3, <1>4 DEF MailExact, OnMessage, Goto, u
  <2>2. TypeOK'
    BY <1>1, <1>3, <2>1 DEF TypeOK, Stages, chanVars, joinVars
  <2>3. HeapExact'
    BY <1>1, <2>1 DEF TypeOK, HeapExact, Stored, joinVars
  <2>4. MailExact'
    <3>1. \A v \in Threads : \A i \in 1..Len(mail'[v]) :
             v # t /\ i \in 1..Len(mail[v]) /\ mail'[v] = mail[v]
      BY <1>3, <2>1
    <3>2. \A v \in Threads : stage[v] = "requested" => stage'[v] = "requested"
      BY <2>1 DEF TypeOK
    <3>3. ASSUME NEW v \in Threads, NEW i \in 1..Len(mail[v]), mail[v][i].new # None
          PROVE  mail[v][i].new \in Threads
      <4>1. mail[v][i] \in Messages
        BY <1>2
      <4> QED BY <3>3, <4>1, MessageKinds
    <3> QED BY <2>1, <3>1, <3>2, <3>3 DEF TypeOK, MailExact
  <2>5. ChannelExact'
    BY <1>1, <2>1 DEF TypeOK, ChannelExact, Asked, Settled, Told, Truth, chanVars, joinVars
  <2>6. HandlesExact'
    BY <1>1, <2>1 DEF TypeOK, HandlesExact, joinVars
  <2> QED BY <2>2, <2>3, <2>4, <2>5, <2>6
<1>5. CASE u \in Threads
  <2>1. /\ u # None /\ stage[u] = "requested"
        /\ \A v \in Threads : \A j \in 1..Len(mail[v]) :
             mail[v][j].new = u => v = t /\ j = 1
    <3>1. u # None /\ 1 \in 1..Len(mail[t]) /\ mail[t][1].new = u
      BY <1>3, <1>5 DEF Actors
    <3>2. MailExact
      OBVIOUS
    <3> HIDE DEF u, IInv
    <3> QED BY <3>1, <3>2 DEF MailExact
  <2>2. /\ stage' = [stage EXCEPT ![u] = "starting"]
        /\ host' = [host EXCEPT ![u] = Main] /\ allocated' = allocated
    BY <1>1, <2>1 DEF OnMessage, NewWorker, Goto, u
  <2>3. TypeOK'
    BY <1>1, <1>3, <1>5, <2>2 DEF TypeOK, Actors, Stages, chanVars, joinVars
  <2>4. HeapExact'
    BY <1>1, <1>5, <2>1, <2>2 DEF TypeOK, HeapExact, Stored, joinVars
  <2>5. MailExact'
    <3>1. ASSUME NEW v \in Threads, NEW i \in 1..Len(mail'[v])
          PROVE  \E k \in 1..Len(mail[v]) :
                   /\ mail'[v][i] = mail[v][k] /\ mail[v][k].new # u
                   /\ IF v = t THEN k = i + 1 ELSE k = i /\ mail'[v] = mail[v]
      <4>1. CASE v = t
        <5>1. i + 1 \in 1..Len(mail[t]) /\ i + 1 # 1 /\ mail'[t][i] = mail[t][i + 1]
          BY <1>3, <3>1, <4>1
        <5> QED BY <2>1, <4>1, <5>1
      <4>2. CASE v # t
        BY <1>3, <2>1, <3>1, <4>2
      <4> QED BY <4>1, <4>2
    <3>2. ASSUME NEW v \in Threads, NEW i \in 1..Len(mail'[v]), mail'[v][i].new = None
          PROVE  stage'[v] = "closed" /\ i = Len(mail'[v])
      <4>1. PICK k \in 1..Len(mail[v]) :
                   /\ mail'[v][i] = mail[v][k]
                   /\ IF v = t THEN k = i + 1 ELSE k = i /\ mail'[v] = mail[v]
        BY <3>1
      <4>2. stage[v] = "closed" /\ k = Len(mail[v])
        BY <3>2, <4>1 DEF MailExact
      <4> QED BY <1>3, <2>1, <2>2, <4>1, <4>2 DEF TypeOK
    <3>3. ASSUME NEW v \in Threads, NEW i \in 1..Len(mail'[v]), mail'[v][i].new # None
          PROVE  /\ stage'[mail'[v][i].new] = "requested"
                 /\ \A w \in Threads : \A j \in 1..Len(mail'[w]) :
                      mail'[w][j].new = mail'[v][i].new => w = v /\ j = i
      <4>1. PICK k \in 1..Len(mail[v]) :
                   /\ mail'[v][i] = mail[v][k] /\ mail[v][k].new # u
                   /\ IF v = t THEN k = i + 1 ELSE k = i /\ mail'[v] = mail[v]
        BY <3>1
      <4>2. /\ stage[mail[v][k].new] = "requested"
            /\ \A w \in Threads : \A j \in 1..Len(mail[w]) :
                 mail[w][j].new = mail[v][k].new => w = v /\ j = k
        BY <3>3, <4>1 DEF MailExact
      <4>3. mail[v][k].new \in Threads
        <5>1. mail[v][k] \in Messages
          BY <1>2
        <5> QED BY <3>3, <4>1, <5>1, MessageKinds
      <4>4. stage'[mail'[v][i].new] = "requested"
        BY <2>2, <4>1, <4>2, <4>3 DEF TypeOK
      <4>5. ASSUME NEW w \in Threads, NEW j \in 1..Len(mail'[w]),
                   mail'[w][j].new = mail'[v][i].new
            PROVE  w = v /\ j = i
        <5>1. PICK n \in 1..Len(mail[w]) :
                     /\ mail'[w][j] = mail[w][n]
                     /\ IF w = t THEN n = j + 1 ELSE n = j /\ mail'[w] = mail[w]
          BY <3>1
        <5>2. w = v /\ n = k
          BY <4>1, <4>2, <4>5, <5>1
        <5>3. i \in Int /\ j \in Int
          OBVIOUS
        <5> QED BY <4>1, <5>1, <5>2, <5>3
      <4> QED BY <4>4, <4>5
    <3> QED BY <3>2, <3>3 DEF MailExact
  <2>6. ChannelExact'
    BY <1>1, <1>5, <2>1, <2>2 DEF TypeOK, ChannelExact, Asked, Settled, Told, Truth, chanVars, joinVars
  <2>7. HandlesExact'
    BY <1>1, <1>5, <2>1, <2>2 DEF TypeOK, HandlesExact, joinVars
  <2> QED BY <2>3, <2>4, <2>5, <2>6, <2>7
<1> QED BY <1>3, <1>4, <1>5

\* Who holds a handle joins with it once, or drops it.
LEMMA HandleKeeps ==
  ASSUME IInv, NEW a \in Actors, NEW t \in Threads,
         Join(a, t) \/ JoinAsync(a, t) \/ DropHandle(a, t)
  PROVE  IInv'
<1> USE WorkersAssumption DEF IInv
<1>1. CASE Join(a, t)
  <2>1. /\ owner[t] = a /\ t \notin awaits[a] /\ stage[t] # "unspawned"
        /\ UNCHANGED <<stage, host, mail, block, allocated, sender, senders, verdict,
                       finished, awaits, outcome>>
    BY <1>1 DEF Join, heapVars, chanVars, HandlesExact, Actors
  <2>2. CASE a = Main
    <3>1. /\ answer' = [answer EXCEPT ![t] = "refused"]
          /\ owner' = [owner EXCEPT ![t] = None] /\ blocked' = blocked
      BY <1>1, <2>2 DEF Join
    <3>2. TypeOK'
      BY <2>1, <3>1 DEF TypeOK, Actors
    <3>3. HeapExact' /\ MailExact'
      BY <2>1, <3>1 DEF HeapExact, Stored, MailExact
    <3>4. ChannelExact'
      BY <2>1, <3>1 DEF TypeOK, ChannelExact, Asked, Settled, Told, Truth
    <3>5. HandlesExact'
      BY <2>1, <2>2, <3>1 DEF TypeOK, Actors, HandlesExact
    <3> QED BY <3>2, <3>3, <3>4, <3>5
  <2>3. CASE a # Main
    <3>1. /\ a \in Threads /\ blocked' = [blocked EXCEPT ![a] = t]
          /\ owner' = owner /\ answer' = answer
      BY <1>1, <2>3 DEF Join, Actors
    <3>2. TypeOK'
      BY <2>1, <3>1 DEF TypeOK, Actors
    <3>3. HeapExact' /\ MailExact'
      BY <2>1, <3>1 DEF HeapExact, Stored, MailExact
    <3>4. ChannelExact'
      BY <2>1, <3>1 DEF ChannelExact, Asked, Settled, Told, Truth
    <3>5. HandlesExact'
      BY <2>1, <3>1 DEF TypeOK, Actors, HandlesExact
    <3> QED BY <3>2, <3>3, <3>4, <3>5
  <2> QED BY <2>2, <2>3
<1>2. CASE JoinAsync(a, t)
  <2> USE <1>2 DEF JoinAsync, CanAct, heapVars, chanVars
  <2>1. TypeOK'
    BY DEF TypeOK, Actors, Stages
  <2>2. HeapExact'
    BY DEF TypeOK, Actors, HeapExact, Stored
  <2>3. MailExact'
    BY DEF TypeOK, Messages, MailExact
  <2>4. ChannelExact'
    BY DEF TypeOK, ChannelExact, Asked, Settled, Told, Truth
  <2>5. HandlesExact'
    BY DEF TypeOK, Actors, HandlesExact
  <2> QED BY <2>1, <2>2, <2>3, <2>4, <2>5
<1>3. CASE DropHandle(a, t)
  <2> USE <1>3 DEF DropHandle, CanAct, heapVars, chanVars
  <2>1. TypeOK'
    BY DEF TypeOK, Actors, Stages
  <2>2. HeapExact'
    BY DEF TypeOK, Actors, HeapExact, Stored
  <2>3. MailExact'
    BY DEF TypeOK, Messages, MailExact
  <2>4. ChannelExact'
    BY DEF TypeOK, ChannelExact, Asked, Settled, Told, Truth
  <2>5. HandlesExact'
    BY DEF TypeOK, Actors, HandlesExact
  <2> QED BY <2>1, <2>2, <2>3, <2>4, <2>5
<1> QED BY <1>1, <1>2, <1>3

\* A join answers the verdict: its handle is held, so the channel is not dead.
LEMMA AnswerKeeps ==
  ASSUME IInv, NEW a \in Actors, (JoinReturns(a) /\ a \in Threads) \/ JoinAsyncReturns(a)
  PROVE  IInv'
<1> USE WorkersAssumption DEF IInv
<1>1. PICK t \in Threads :
        /\ Answer(t) /\ owner[t] = a
        /\ \/ /\ a \in Threads /\ blocked[a] = t /\ t \notin awaits[a]
              /\ blocked' = [blocked EXCEPT ![a] = None] /\ awaits' = awaits
           \/ /\ t \in awaits[a] /\ blocked' = blocked
              /\ awaits' = [awaits EXCEPT ![a] = @ \ {t}]
  <2>1. CASE JoinReturns(a) /\ a \in Threads
    BY <2>1 DEF JoinReturns, HandlesExact, TypeOK
  <2>2. CASE JoinAsyncReturns(a)
    BY <2>2 DEF JoinAsyncReturns, HandlesExact, TypeOK
  <2> QED BY <2>1, <2>2
<1>2. /\ Told(t) /\ verdict[t] = <<Truth(t)>>
      /\ Head(<<Truth(t)>>) = Truth(t) /\ Tail(<<Truth(t)>>) = <<>>
  <2>1. stage[t] # "unspawned" /\ owner[t] # None
    BY <1>1 DEF HandlesExact, Actors
  <2>2. stage[t] \in Stages /\ (verdict[t] # <<>> \/ senders[t] = 0)
    BY <1>1 DEF Answer, TypeOK
  <2>3. Told(t)
    BY <2>1, <2>2 DEF TypeOK, ChannelExact, Stages, Settled, Told, Asked
  <2>4. verdict[t] = <<Truth(t)>>
    BY <2>1, <2>3 DEF ChannelExact
  <2>5. Head(<<Truth(t)>>) = Truth(t) /\ Tail(<<Truth(t)>>) = <<>>
    OBVIOUS
  <2> QED BY <2>3, <2>4, <2>5
<1>10. /\ blocked' \in [Threads -> Threads \cup {None}]
       /\ awaits' \in [Actors -> SUBSET Threads]
       /\ \A c \in Threads : blocked'[c] # None => /\ blocked'[c] = blocked[c]
                                                    /\ blocked[c] # t
       /\ \A c \in Actors : awaits'[c] \subseteq awaits[c] /\ t \notin awaits'[c]
  <2>1. /\ blocked \in [Threads -> Threads \cup {None}]
        /\ awaits \in [Actors -> SUBSET Threads]
        /\ \A c \in Actors : t \in awaits[c] => c = a
        /\ \A c \in Threads : blocked[c] = t => c = a /\ t \notin awaits[a]
    BY <1>1 DEF TypeOK, HandlesExact, Actors
  <2>2. CASE /\ a \in Threads /\ blocked[a] = t /\ t \notin awaits[a]
             /\ blocked' = [blocked EXCEPT ![a] = None] /\ awaits' = awaits
    BY <2>1, <2>2
  <2>3. CASE /\ t \in awaits[a] /\ blocked' = blocked
             /\ awaits' = [awaits EXCEPT ![a] = @ \ {t}]
    <3>1. awaits' \in [Actors -> SUBSET Threads]
      BY <2>1, <2>3
    <3>2. ASSUME NEW c \in Actors PROVE awaits'[c] \subseteq awaits[c] /\ t \notin awaits'[c]
      BY <2>1, <2>3
    <3>3. ASSUME NEW c \in Threads PROVE blocked[c] # t
      BY <2>1, <2>3
    <3> QED BY <2>1, <2>3, <3>1, <3>2, <3>3
  <2> QED BY <1>1, <2>2, <2>3
<1>3. /\ answer' = [answer EXCEPT ![t] = Truth(t)]
      /\ verdict' = [verdict EXCEPT ![t] = <<>>]
      /\ owner' = [owner EXCEPT ![t] = None]
      /\ UNCHANGED <<stage, host, mail, heapVars, sender, senders, finished, outcome>>
  BY <1>1, <1>2 DEF Answer
<1>4. TypeOK'
  <2>1. /\ owner' \in [Threads -> Actors \cup {None}]
        /\ verdict' \in [Threads -> {<<>>, <<"ok">>, <<"err">>}]
    BY <1>3 DEF TypeOK
  <2>2. Truth(t) \in {"ok", "err"}
    BY DEF Truth
  <2>3. answer' \in [Threads -> {"none", "ok", "err", "disconnected", "refused"}]
    BY <1>3, <2>2 DEF TypeOK
  <2> QED BY <1>3, <1>10, <2>1, <2>3 DEF TypeOK, heapVars
<1>5. HeapExact'
  <2>1. \A u \in Threads : awaits'[u] # {} => awaits[u] # {}
    BY <1>10 DEF Actors
  <2> QED BY <1>3, <2>1 DEF HeapExact, Stored, heapVars
<1>6. MailExact'
  BY <1>3 DEF MailExact
<1>7. ChannelExact'
  <2> SUFFICES ASSUME NEW u \in Threads PROVE ChannelExact!(u)'
    BY DEF ChannelExact
  <2>1. CASE u = t
    <3>1. /\ verdict'[t] = <<>> /\ answer'[t] = Truth(t) /\ owner'[t] = None
          /\ Truth(t)' = Truth(t)
      BY <1>3 DEF TypeOK, Truth
    <3> QED BY <1>2, <1>3, <2>1, <3>1 DEF ChannelExact, Settled, Told, Asked
  <2>2. CASE u # t
    <3>1. /\ verdict'[u] = verdict[u] /\ answer'[u] = answer[u] /\ owner'[u] = owner[u]
          /\ Truth(u)' = Truth(u) /\ Told(u)' = Told(u)
      BY <1>3, <2>2 DEF TypeOK, Truth, Told
    <3> QED BY <1>3, <3>1 DEF ChannelExact
  <2> QED BY <2>1, <2>2
<1>8. HandlesExact'
  <2>1. \A u \in Threads : u # t => owner'[u] = owner[u]
    BY <1>3 DEF TypeOK
  <2>2. \A u \in Threads : stage'[u] = "unspawned" => owner'[u] = None
    BY <1>3, <2>1 DEF TypeOK, HandlesExact
  <2>3. ASSUME NEW c \in Actors, NEW u \in awaits'[c] PROVE owner'[u] = c
    <3>1. u \in awaits[c] /\ u \in Threads /\ u # t
      BY <1>10, <2>3 DEF TypeOK
    <3> QED BY <2>1, <3>1 DEF HandlesExact
  <2>4. ASSUME NEW c \in Threads, blocked'[c] # None
        PROVE  owner'[blocked'[c]] = c /\ blocked'[c] \notin awaits'[c]
    <3>1. /\ blocked'[c] = blocked[c] /\ awaits'[c] \subseteq awaits[c]
          /\ blocked[c] \in Threads /\ blocked[c] # t
      BY <1>10, <2>4 DEF TypeOK, Actors
    <3> QED BY <2>1, <2>4, <3>1 DEF HandlesExact
  <2> QED BY <2>2, <2>3, <2>4 DEF HandlesExact
<1> QED BY <1>4, <1>5, <1>6, <1>7, <1>8

LEMMA WorkersStep == IInv /\ [Next]_vars => IInv'
<1> SUFFICES ASSUME IInv, [Next]_vars PROVE IInv'
  OBVIOUS
<1>1. CASE UNCHANGED vars
  BY <1>1 DEF vars, IInv, TypeOK, HeapExact, Stored, MailExact, ChannelExact, Truth, Told, HandlesExact
<1>2. ASSUME NEW a \in Actors, NEW t \in Threads,
             Spawn(a, t) \/ Join(a, t) \/ JoinAsync(a, t) \/ DropHandle(a, t)
      PROVE  IInv'
  BY <1>2, SpawnKeeps, HandleKeeps
<1>3. ASSUME NEW t \in Threads,
             \/ Running(t) \/ StartFails(t) \/ Panic(t) \/ Traps(t)
             \/ TaskPanics(t) \/ OnMessage(t)
      PROVE  IInv'
  BY <1>3, ThreadKeeps, ReportKeeps, AnswerKeeps, OnMessageKeeps DEF Running, Actors
<1>4. ASSUME NEW a \in Actors, JoinAsyncReturns(a) PROVE IInv'
  BY <1>4, AnswerKeeps
<1> QED BY <1>1, <1>2, <1>3, <1>4 DEF Next

(***************************************************************************)
(* The theorems.                                                           *)
(***************************************************************************)

\* The strengthened invariant holds in every reachable state.
THEOREM WorkersInvariance == Spec => []IInv
  BY WorkersInit, WorkersStep, PTL DEF Spec

\* The state of threads and handles keeps its types; in particular a sender is
\* never dropped twice.
THEOREM WorkersTypes == Spec => []TypeOK
<1>1. IInv => TypeOK
  BY DEF IInv
<1> QED BY WorkersInvariance, <1>1, PTL

\* No thread's stack and TLS are freed, or given to another, while it may still
\* run wasm or has tasks to run.
THEOREM StorageIsKept == Spec => []StorageInUse
<1>1. IInv => StorageInUse
  <2> SUFFICES ASSUME IInv, NEW t \in Threads, InUse(t)
               PROVE  /\ block[t] \in allocated
                      /\ \A u \in Threads \ {t} : InUse(u) => block[u] # block[t]
    BY DEF StorageInUse
  <2>1. \A u \in Threads : InUse(u) => Stored(u)
    BY DEF IInv, HeapExact, InUse, InWasm, Stored
  <2> QED BY <2>1 DEF IInv, HeapExact
<1> QED BY WorkersInvariance, <1>1, PTL

\* A thread has one verdict, the true one, and a join never finds its channel
\* disconnected.
THEOREM VerdictIsTrue == Spec => []OneTrueVerdict
<1>1. IInv => OneTrueVerdict
  <2> SUFFICES ASSUME IInv, NEW t \in Threads
               PROVE  /\ answer[t] \in {"ok", "err"} => verdict[t] = <<>>
                      /\ verdict[t] = <<"ok">> \/ answer[t] = "ok" => outcome[t] = "returned"
                      /\ verdict[t] = <<"err">> \/ answer[t] = "err" => outcome[t] = "panicked"
                      /\ answer[t] # "disconnected"
                      /\ verdict[t] # <<>> \/ answer[t] \in {"ok", "err"} => finished[t]
    BY DEF OneTrueVerdict
  <2>1. ChannelExact /\ TypeOK
    BY DEF IInv
  <2>2. CASE Told(t)
    <3>1. /\ finished[t] /\ outcome[t] # "none"
          /\ verdict[t] \in {<<>>, <<Truth(t)>>}
          /\ answer[t] \in {"none", "refused", Truth(t)}
          /\ answer[t] = Truth(t) => verdict[t] = <<>>
      BY <2>1, <2>2 DEF ChannelExact, Settled, Told, Asked
    <3>2. \/ Truth(t) = "ok" /\ outcome[t] = "returned"
          \/ Truth(t) = "err" /\ outcome[t] = "panicked"
      BY <2>1, <2>2, <3>1 DEF TypeOK, Truth, Told
    <3>3. <<"ok">> # <<"err">> /\ <<"ok">> # <<>> /\ <<"err">> # <<>>
      OBVIOUS
    <3> QED BY <3>1, <3>2, <3>3
  <2>3. CASE ~Told(t)
    BY <2>1, <2>3 DEF ChannelExact
  <2> QED BY <2>2, <2>3
<1> QED BY WorkersInvariance, <1>1, PTL

(***************************************************************************)
(* Promises: the registry of the two closures of each future.              *)
(***************************************************************************)

\* Free ids are in the registry, hold nothing, and are listed once.
FreeExact(sl, fr) ==
  \A i \in 1..Len(fr) : /\ fr[i] \in 1..Len(sl) /\ sl[fr[i]] = F!Gone
                        /\ \A k \in 1..Len(fr) : fr[i] = fr[k] => i = k

\* The last element of a sequence and what is before it.
LEMMA LastAndFront ==
  ASSUME NEW E, NEW s \in Seq(E), s # <<>>
  PROVE  /\ Len(s) \in Nat /\ Len(s) > 0 /\ F!Last(s) = s[Len(s)]
         /\ F!Front(s) \in Seq(E) /\ Len(F!Front(s)) = Len(s) - 1
         /\ \A i \in 1..(Len(s) - 1) : F!Front(s)[i] = s[i]
<1> DEFINE n == Len(s) - 1
<1>1. Len(s) \in Nat /\ Len(s) # 0
  BY EmptySeq
<1>2. n \in Int /\ 1 \in Int /\ \A i \in 1..n : s[i] \in E
  BY <1>1
<1>3. F!Front(s) = SubSeq(s, 1, n) /\ F!Last(s) = s[Len(s)]
  BY DEF F!Front, F!Last
<1>4. n = Len(s) - 1
  OBVIOUS
<1> HIDE DEF n
<1>5. /\ SubSeq(s, 1, n) \in Seq(E) /\ Len(SubSeq(s, 1, n)) = IF 1 <= n THEN n - 1 + 1 ELSE 0
      /\ \A i \in 1..(n - 1 + 1) : SubSeq(s, 1, n)[i] = s[1 + i - 1]
  BY <1>2, SubSeqProperties
<1>6. n >= 0 /\ n - 1 + 1 = n /\ \A i \in 1..n : 1 + i - 1 = i
  BY <1>1, <1>4
<1>7. Len(F!Front(s)) = n /\ \A i \in 1..n : F!Front(s)[i] = s[i]
  BY <1>3, <1>5, <1>6
<1> QED BY <1>1, <1>3, <1>4, <1>5, <1>7

\* A callback is stored at a free or a new id, and nothing else is moved.
LEMMA InsertStores ==
  ASSUME NEW sl \in Seq(F!Callbacks), NEW fr \in Seq(Nat), FreeExact(sl, fr),
         NEW c \in F!Callbacks, c # F!Gone,
         NEW slN, NEW frN, NEW id,
         F!Insert([slots |-> sl, free |-> fr], c) = [slots |-> slN, free |-> frN, id |-> id]
  PROVE  /\ slN \in Seq(F!Callbacks) /\ frN \in Seq(Nat) /\ FreeExact(slN, frN)
         /\ Len(sl) \in Nat /\ Len(slN) \in Nat /\ Len(slN) >= Len(sl)
         /\ id \in 1..Len(slN) /\ slN[id] = c
         /\ id \in 1..Len(sl) => sl[id] = F!Gone
         /\ \A i \in 1..Len(sl) : i # id => slN[i] = sl[i]
<1> HIDE DEF F!Callbacks
<1>1. Len(sl) \in Nat /\ Len(fr) \in Nat
  OBVIOUS
<1>2. CASE fr = <<>>
  <2>1. slN = Append(sl, c) /\ frN = <<>> /\ id = Len(sl) + 1
    BY <1>2 DEF F!Insert
  <2>2. slN \in Seq(F!Callbacks) /\ Len(slN) = Len(sl) + 1
        /\ slN[Len(sl) + 1] = c /\ \A i \in 1..Len(sl) : slN[i] = sl[i]
    BY <2>1, AppendProperties
  <2>3. frN \in Seq(Nat) /\ Len(frN) = 0
    BY <2>1, EmptySeq
  <2>4. FreeExact(slN, frN)
    BY <2>3 DEF FreeExact
  <2>5. id \in 1..Len(slN) /\ id \notin 1..Len(sl) /\ Len(slN) \in Nat
    BY <1>1, <2>1, <2>2
  <2>6. slN[id] = c
    BY <2>1, <2>2
  <2> QED BY <1>1, <2>2, <2>3, <2>4, <2>5, <2>6
<1>3. CASE fr # <<>>
  <2>1. slN = [sl EXCEPT ![F!Last(fr)] = c] /\ frN = F!Front(fr) /\ id = F!Last(fr)
    BY <1>3 DEF F!Insert
  <2>2. /\ Len(fr) > 0 /\ id = fr[Len(fr)] /\ frN \in Seq(Nat) /\ Len(frN) = Len(fr) - 1
        /\ \A i \in 1..(Len(fr) - 1) : frN[i] = fr[i]
    BY <1>3, <2>1, LastAndFront
  <2>3. id \in 1..Len(sl) /\ sl[id] = F!Gone
    BY <1>1, <2>2 DEF FreeExact
  <2>4. /\ slN \in Seq(F!Callbacks) /\ Len(slN) = Len(sl)
        /\ slN[id] = c
        /\ \A i \in 1..Len(sl) : i # id => slN[i] = sl[i]
    BY <2>1, <2>3, ExceptSeq
  <2>5. \A i \in 1..(Len(fr) - 1) : fr[i] # id
    <3>1. \A i, k \in 1..Len(fr) : fr[i] = fr[k] => i = k
      BY DEF FreeExact
    <3>2. Len(fr) \in 1..Len(fr) /\ \A i \in 1..(Len(fr) - 1) : i \in 1..Len(fr) /\ i # Len(fr)
      BY <1>1, <2>2
    <3> QED BY <2>2, <3>1, <3>2
  <2>6. FreeExact(slN, frN)
    <3>1. \A i \in 1..Len(frN) : i \in 1..Len(fr) /\ frN[i] = fr[i] /\ fr[i] # id
      BY <1>1, <2>2, <2>5
    <3>2. \A i \in 1..Len(fr) : fr[i] \in 1..Len(sl) /\ sl[fr[i]] = F!Gone
      BY DEF FreeExact
    <3>3. \A i, k \in 1..Len(fr) : fr[i] = fr[k] => i = k
      BY DEF FreeExact
    <3>4. \A i \in 1..Len(frN) : frN[i] \in 1..Len(slN) /\ slN[frN[i]] = F!Gone
      BY <2>4, <3>1, <3>2
    <3>5. \A i, k \in 1..Len(frN) : frN[i] = frN[k] => i = k
      BY <3>1, <3>3
    <3> QED BY <3>4, <3>5 DEF FreeExact
  <2>7. Len(slN) \in Nat /\ Len(slN) >= Len(sl) /\ id \in 1..Len(slN)
    BY <1>1, <2>3, <2>4
  <2> QED BY <1>1, <2>2, <2>3, <2>4, <2>6, <2>7
<1> QED BY <1>2, <1>3

LEMMA PromisesInit == F!Init => F!IInv
<1> SUFFICES ASSUME F!Init PROVE F!IInv
  OBVIOUS
<1>1. slots = <<>> /\ free = <<>> /\ Len(free) = 0
  BY DEF F!Init
<1>2. slots \in Seq(F!Callbacks) /\ free \in Seq(Nat)
  BY <1>1, EmptySeq
<1>3. F!TypeOK
  BY <1>2 DEF F!Init, F!TypeOK, F!Unmade, F!Unsettled, F!Kinds
<1>4. \A f \in Futures : fut[f] = F!Unmade /\ fut[f].st = "unmade" /\ ~promise[f].told
  BY DEF F!Init, F!Unmade
<1> QED BY <1>1, <1>3, <1>4 DEF F!IInv

\* A new future takes two ids, and every other future keeps both of its own.
LEMMA NewKeeps == ASSUME F!IInv, NEW f \in Futures, F!New(f) PROVE F!IInv'
<1> DEFINE okC == [f |-> f, kind |-> "ok"]
           errC == [f |-> f, kind |-> "err"]
           r1 == F!Insert([slots |-> slots, free |-> free], okC)
           r2 == F!Insert([slots |-> r1.slots, free |-> r1.free], errC)
<1>1. /\ okC \in F!Callbacks /\ errC \in F!Callbacks /\ okC # errC
      /\ okC # F!Gone /\ errC # F!Gone
  BY DEF F!Callbacks, F!Kinds, F!Gone
<1>2. /\ slots \in Seq(F!Callbacks) /\ free \in Seq(Nat) /\ FreeExact(slots, free)
  BY DEF F!IInv, F!TypeOK, FreeExact
<1>3. /\ fut[f] = F!Unmade /\ slots' = r2.slots /\ free' = r2.free
      /\ fut' = [fut EXCEPT ![f] = [st |-> "idle", ok |-> r1.id, err |-> r2.id]]
      /\ promise' = promise /\ settled' = settled
  BY DEF F!New
<1>4. /\ r1 = [slots |-> r1.slots, free |-> r1.free, id |-> r1.id]
      /\ r2 = [slots |-> r2.slots, free |-> r2.free, id |-> r2.id]
  BY DEF F!Insert
<1> HIDE DEF okC, errC
<1>5. /\ r1.slots \in Seq(F!Callbacks) /\ r1.free \in Seq(Nat) /\ FreeExact(r1.slots, r1.free)
      /\ Len(slots) \in Nat /\ Len(r1.slots) \in Nat /\ Len(r1.slots) >= Len(slots)
      /\ r1.id \in 1..Len(r1.slots) /\ r1.slots[r1.id] = okC
      /\ r1.id \in 1..Len(slots) => slots[r1.id] = F!Gone
      /\ \A i \in 1..Len(slots) : i # r1.id => r1.slots[i] = slots[i]
  <2> HIDE DEF r1, r2
  <2> QED BY <1>1, <1>2, <1>4, InsertStores DEF r1
<1>6. /\ r2.slots \in Seq(F!Callbacks) /\ r2.free \in Seq(Nat) /\ FreeExact(r2.slots, r2.free)
      /\ Len(r2.slots) \in Nat /\ Len(r2.slots) >= Len(r1.slots)
      /\ r2.id \in 1..Len(r2.slots) /\ r2.slots[r2.id] = errC
      /\ r2.id \in 1..Len(r1.slots) => r1.slots[r2.id] = F!Gone
      /\ \A i \in 1..Len(r1.slots) : i # r2.id => r2.slots[i] = r1.slots[i]
  <2> HIDE DEF r1
  <2> SUFFICES ASSUME NEW sl, NEW fr, sl = r1.slots, fr = r1.free
               PROVE  /\ r2.slots \in Seq(F!Callbacks) /\ r2.free \in Seq(Nat)
                      /\ FreeExact(r2.slots, r2.free)
                      /\ Len(r2.slots) \in Nat /\ Len(r2.slots) >= Len(sl)
                      /\ r2.id \in 1..Len(r2.slots) /\ r2.slots[r2.id] = errC
                      /\ r2.id \in 1..Len(sl) => sl[r2.id] = F!Gone
                      /\ \A i \in 1..Len(sl) : i # r2.id => r2.slots[i] = sl[i]
    OBVIOUS
  <2>1. sl \in Seq(F!Callbacks) /\ fr \in Seq(Nat) /\ FreeExact(sl, fr)
    BY <1>5
  <2>2. F!Insert([slots |-> sl, free |-> fr], errC)
          = [slots |-> r2.slots, free |-> r2.free, id |-> r2.id]
    BY <1>4
  <2> HIDE DEF r2
  <2> QED BY <1>1, <2>1, <2>2, InsertStores
<1> HIDE DEF r1, r2
<1>7. r1.id \in Nat /\ r2.id \in Nat
  BY <1>5, <1>6
<1>8. F!TypeOK'
  BY <1>3, <1>6, <1>7 DEF F!IInv, F!TypeOK
<1>9. FreeExact(slots', free')
  BY <1>3, <1>6
<1>10. r1.id # r2.id /\ r1.id \in 1..Len(r2.slots) /\ r2.slots[r1.id] = okC
  <2>1. r1.id # r2.id
    BY <1>1, <1>5, <1>6
  <2>2. r1.id \in 1..Len(r2.slots)
    BY <1>5, <1>6
  <2> QED BY <1>5, <1>6, <2>1, <2>2
<1>11. \A i \in 1..Len(slots) : slots[i] # F!Gone =>
          i \in 1..Len(slots') /\ slots'[i] = slots[i]
  <2> SUFFICES ASSUME NEW i \in 1..Len(slots), slots[i] # F!Gone
               PROVE  i \in 1..Len(slots') /\ slots'[i] = slots[i]
    OBVIOUS
  <2>1. i # r1.id /\ i \in 1..Len(r1.slots) /\ r1.slots[i] = slots[i]
    BY <1>5
  <2>2. i # r2.id /\ i \in 1..Len(r2.slots) /\ r2.slots[i] = r1.slots[i]
    BY <1>5, <1>6, <2>1
  <2> QED BY <1>3, <2>1, <2>2
<1>12. ASSUME NEW g \in Futures
       PROVE  /\ IF fut'[g].st = "unmade" THEN fut'[g] = F!Unmade
                 ELSE fut'[g].ok \in 1..Len(slots') /\ fut'[g].err \in 1..Len(slots')
              /\ fut'[g].st \notin {"unmade", "dropped"} =>
                    F!Holds(fut[g].ok, g, "ok")' /\ F!Holds(fut[g].err, g, "err")'
              /\ promise'[g].told =>
                    fut'[g] # F!Unmade /\ (fut'[g].st # "dropped" => settled'[g] # F!Unsettled)
              /\ fut'[g].st = "waiting" => settled'[g] = F!Unsettled
  <2>1. CASE g = f
    <3>1. fut'[g] = [st |-> "idle", ok |-> r1.id, err |-> r2.id]
      BY <1>3, <2>1 DEF F!IInv, F!TypeOK
    <3>2. ~promise[f].told
      BY <1>3 DEF F!IInv
    <3>3. F!Holds(fut[g].ok, g, "ok")' /\ F!Holds(fut[g].err, g, "err")'
      BY <1>3, <1>6, <1>10, <2>1, <3>1 DEF F!Holds, okC, errC
    <3> QED BY <1>3, <2>1, <3>1, <3>2, <3>3 DEF F!Holds
  <2>2. CASE g # f
    <3>1. fut'[g] = fut[g] /\ promise'[g] = promise[g] /\ settled'[g] = settled[g]
      BY <1>3, <2>2 DEF F!IInv, F!TypeOK
    <3>2. ASSUME NEW id, NEW kind, F!Holds(id, g, kind), kind \in {"ok", "err"}
          PROVE  id \in 1..Len(slots') /\ slots'[id] = [f |-> g, kind |-> kind]
      BY <1>11, <3>2 DEF F!Holds, F!Gone
    <3>3. \A i \in 1..Len(slots) : i \in 1..Len(slots')
      BY <1>3, <1>5, <1>6
    <3> QED BY <3>1, <3>2, <3>3 DEF F!IInv, F!Holds
  <2> QED BY <2>1, <2>2
<1> QED BY <1>8, <1>9, <1>12 DEF F!IInv, FreeExact

\* A dropped future's ids are freed, and no other future holds them.
LEMMA DropKeeps == ASSUME F!IInv, NEW f \in Futures, F!Drop(f) PROVE F!IInv'
<1> DEFINE ok == fut[f].ok
           err == fut[f].err
<1>1. /\ fut[f].st \notin {"unmade", "dropped"} /\ fut' = [fut EXCEPT ![f].st = "dropped"]
      /\ slots' = [slots EXCEPT ![ok] = F!Gone, ![err] = F!Gone]
      /\ free' = free \o <<ok, err>> /\ promise' = promise /\ settled' = settled
  BY DEF F!Drop
<1>2. /\ slots \in Seq(F!Callbacks) /\ free \in Seq(Nat) /\ FreeExact(slots, free)
      /\ F!Gone \in F!Callbacks
  BY DEF F!IInv, F!TypeOK, FreeExact, F!Callbacks
<1>3. /\ ok \in 1..Len(slots) /\ slots[ok] = [f |-> f, kind |-> "ok"]
      /\ err \in 1..Len(slots) /\ slots[err] = [f |-> f, kind |-> "err"]
      /\ ok \in Nat /\ err \in Nat
  BY <1>1 DEF F!IInv, F!Holds
<1>4. slots[ok] # F!Gone /\ slots[err] # F!Gone /\ ok # err
  BY <1>3 DEF F!Gone
<1> HIDE DEF ok, err
<1>5. /\ slots' \in Seq(F!Callbacks) /\ Len(slots') = Len(slots)
      /\ slots'[ok] = F!Gone /\ slots'[err] = F!Gone
      /\ \A i \in 1..Len(slots) : i # ok /\ i # err => slots'[i] = slots[i]
  <2> DEFINE sl == [slots EXCEPT ![ok] = F!Gone]
  <2>1. sl \in Seq(F!Callbacks) /\ Len(sl) = Len(slots)
        /\ \A i \in 1..Len(slots) : sl[i] = IF i = ok THEN F!Gone ELSE slots[i]
    BY <1>2, <1>3, ExceptSeq
  <2>2. slots' = [sl EXCEPT ![err] = F!Gone]
    BY <1>1
  <2> HIDE DEF sl
  <2>3. slots' \in Seq(F!Callbacks) /\ Len(slots') = Len(sl)
        /\ \A i \in 1..Len(sl) : slots'[i] = IF i = err THEN F!Gone ELSE sl[i]
    BY <1>2, <1>3, <2>1, <2>2, ExceptSeq
  <2> QED BY <1>3, <2>1, <2>3
<1>6. /\ free' \in Seq(Nat) /\ Len(free) \in Nat /\ Len(free') = Len(free) + 2
      /\ \A i \in 1..Len(free) : free'[i] = free[i]
      /\ free'[Len(free) + 1] = ok /\ free'[Len(free) + 2] = err
  <2>1. <<ok, err>> \in Seq(Nat) /\ Len(<<ok, err>>) = 2 /\ <<ok, err>>[1] = ok
        /\ <<ok, err>>[2] = err
    BY <1>3
  <2> QED BY <1>1, <1>2, <2>1, ConcatProperties
<1>7. \A i \in 1..Len(free) : /\ free[i] \in 1..Len(slots) /\ slots[free[i]] = F!Gone
                             /\ free[i] # ok /\ free[i] # err
  BY <1>2, <1>4 DEF FreeExact
<1>8. \A i, k \in 1..Len(free) : free[i] = free[k] => i = k
  BY <1>2 DEF FreeExact
<1>9. \A i \in 1..Len(free') : i \in 1..Len(free) \/ i = Len(free) + 1 \/ i = Len(free) + 2
  BY <1>6
<1>10. \A i \in 1..Len(free') : free'[i] \in 1..Len(slots') /\ slots'[free'[i]] = F!Gone
  BY <1>3, <1>5, <1>6, <1>7, <1>9
<1>11. ASSUME NEW i \in 1..Len(free'), NEW k \in 1..Len(free'), free'[i] = free'[k] PROVE i = k
  <2>1. CASE i \in 1..Len(free) /\ k \in 1..Len(free)
    BY <1>6, <1>8, <1>11, <2>1
  <2>2. CASE i \in 1..Len(free) /\ k \notin 1..Len(free)
    BY <1>6, <1>7, <1>9, <1>11, <2>2
  <2>3. CASE i \notin 1..Len(free) /\ k \in 1..Len(free)
    BY <1>6, <1>7, <1>9, <1>11, <2>3
  <2>4. CASE i \notin 1..Len(free) /\ k \notin 1..Len(free)
    BY <1>4, <1>6, <1>9, <1>11, <2>4
  <2> QED BY <2>1, <2>2, <2>3, <2>4
<1>12. F!TypeOK'
  BY <1>1, <1>3, <1>5, <1>6 DEF F!IInv, F!TypeOK
<1>13. ASSUME NEW g \in Futures
       PROVE  /\ IF fut'[g].st = "unmade" THEN fut'[g] = F!Unmade
                 ELSE fut'[g].ok \in 1..Len(slots') /\ fut'[g].err \in 1..Len(slots')
              /\ fut'[g].st \notin {"unmade", "dropped"} =>
                    F!Holds(fut[g].ok, g, "ok")' /\ F!Holds(fut[g].err, g, "err")'
              /\ promise'[g].told =>
                    fut'[g] # F!Unmade /\ (fut'[g].st # "dropped" => settled'[g] # F!Unsettled)
              /\ fut'[g].st = "waiting" => settled'[g] = F!Unsettled
  <2>1. CASE g = f
    <3>1. fut'[g].st = "dropped" /\ fut'[g].ok = ok /\ fut'[g].err = err
      BY <1>1, <2>1 DEF F!IInv, F!TypeOK, ok, err
    <3> QED BY <1>3, <1>5, <3>1 DEF F!Unmade
  <2>2. CASE g # f
    <3>1. fut'[g] = fut[g] /\ promise'[g] = promise[g] /\ settled'[g] = settled[g]
      BY <1>1, <2>2 DEF F!IInv, F!TypeOK
    <3>2. ASSUME NEW id, NEW kind, F!Holds(id, g, kind)
          PROVE  id \in 1..Len(slots') /\ slots'[id] = [f |-> g, kind |-> kind]
      BY <1>3, <1>5, <2>2, <3>2 DEF F!Holds
    <3>3. /\ fut[g].st \notin {"unmade", "dropped"} =>
                F!Holds(fut[g].ok, g, "ok") /\ F!Holds(fut[g].err, g, "err")
          /\ IF fut[g].st = "unmade" THEN fut[g] = F!Unmade
             ELSE fut[g].ok \in 1..Len(slots) /\ fut[g].err \in 1..Len(slots)
          /\ promise[g].told =>
                fut[g] # F!Unmade /\ (fut[g].st # "dropped" => settled[g] # F!Unsettled)
          /\ fut[g].st = "waiting" => settled[g] = F!Unsettled
      BY DEF F!IInv
    <3>4. fut[g].st \notin {"unmade", "dropped"} =>
             F!Holds(fut[g].ok, g, "ok")' /\ F!Holds(fut[g].err, g, "err")'
      BY <3>1, <3>2, <3>3 DEF F!Holds
    <3> QED BY <1>5, <3>1, <3>3, <3>4
  <2> QED BY <2>1, <2>2
<1> QED BY <1>10, <1>11, <1>12, <1>13 DEF F!IInv

LEMMA PollKeeps == ASSUME F!IInv, NEW f \in Futures, F!Poll(f) PROVE F!IInv'
<1>1. /\ fut[f].st \in {"idle", "waiting", "woken"} /\ slots' = slots /\ free' = free
      /\ promise' = promise /\ settled' = settled
      /\ fut' = [fut EXCEPT ![f].st = IF settled[f] = F!Unsettled THEN "waiting" ELSE "done"]
  BY DEF F!Poll
<1>2. F!TypeOK'
  <2>1. fut' \in [Futures -> [st : {"unmade", "idle", "waiting", "woken", "done", "dropped"},
                              ok : Nat, err : Nat]]
    <3>1. PICK st \in {"waiting", "done"} : fut' = [fut EXCEPT ![f].st = st]
      BY <1>1
    <3> QED BY <3>1 DEF F!IInv, F!TypeOK
  <2> QED BY <1>1, <2>1 DEF F!IInv, F!TypeOK
<1>3. /\ fut'[f].st = IF settled[f] = F!Unsettled THEN "waiting" ELSE "done"
      /\ fut'[f].ok = fut[f].ok /\ fut'[f].err = fut[f].err
      /\ \A g \in Futures : g # f => fut'[g] = fut[g]
  BY <1>1 DEF F!IInv, F!TypeOK
<1> QED BY <1>1, <1>2, <1>3 DEF F!IInv, F!Holds, F!Unmade

LEMMA ResolveKeeps ==
  ASSUME F!IInv, NEW f \in Futures, NEW kind \in F!Kinds, F!Resolve(f, kind) PROVE F!IInv'
<1>1. /\ promise' = [promise EXCEPT ![f].kind = kind] /\ slots' = slots /\ free' = free
      /\ fut' = fut /\ settled' = settled
  BY DEF F!Resolve
<1>2. /\ promise' \in [Futures -> [kind : F!Kinds \cup {"none"}, told : BOOLEAN]]
      /\ \A g \in Futures : promise'[g].told = promise[g].told
  <2>1. promise \in [Futures -> [kind : F!Kinds \cup {"none"}, told : BOOLEAN]]
    BY DEF F!IInv, F!TypeOK
  <2>2. kind \in F!Kinds \cup {"none"}
    OBVIOUS
  <2> HIDE DEF F!Kinds
  <2> QED BY <1>1, <2>1, <2>2
<1>3. F!TypeOK'
  BY <1>1, <1>2 DEF F!IInv, F!TypeOK
<1> QED BY <1>1, <1>2, <1>3 DEF F!IInv, F!Holds

\* A settled promise tells its own future, unless that one is dropped.
LEMMA TellKeeps == ASSUME F!IInv, NEW p \in Futures, F!Tell(p) PROVE F!IInv'
<1> DEFINE c == slots[IF promise[p].kind = "ok" THEN fut[p].ok ELSE fut[p].err]
<1>1. /\ promise[p].kind # "none" /\ ~promise[p].told /\ fut[p] # F!Unmade
      /\ promise' = [promise EXCEPT ![p].told = TRUE] /\ slots' = slots /\ free' = free
      /\ IF c = F!Gone THEN UNCHANGED <<settled, fut>> ELSE F!Settle(c.f, c.kind, p)
  BY DEF F!Tell
<1>2. F!TypeOK
  BY DEF F!IInv
<1>3. fut[p].st # "unmade" /\ fut[p].ok \in 1..Len(slots) /\ fut[p].err \in 1..Len(slots)
  BY <1>1 DEF F!IInv
<1>4. c \in F!Callbacks
  BY <1>2, <1>3 DEF F!TypeOK
<1>5. promise[p].kind = "ok" \/ promise[p].kind = "err"
  BY <1>1, <1>2 DEF F!TypeOK, F!Kinds
<1>6. fut[p].st # "dropped" => c # F!Gone /\ c.f = p
  <2> SUFFICES ASSUME fut[p].st # "dropped" PROVE c # F!Gone /\ c.f = p
    OBVIOUS
  <2>1. /\ slots[fut[p].ok] = [f |-> p, kind |-> "ok"]
        /\ slots[fut[p].err] = [f |-> p, kind |-> "err"]
    BY <1>3 DEF F!IInv, F!Holds
  <2> QED BY <1>5, <2>1 DEF F!Gone
<1> HIDE DEF c
<1>7. /\ promise' \in [Futures -> [kind : F!Kinds \cup {"none"}, told : BOOLEAN]]
      /\ \A g \in Futures : promise'[g].told => promise[g].told \/ g = p
  BY <1>1, <1>2 DEF F!TypeOK
<1>8. CASE settled' = settled /\ fut' = fut /\ (c = F!Gone \/ settled[c.f] # F!Unsettled)
  <2>1. F!TypeOK'
    BY <1>1, <1>2, <1>7, <1>8 DEF F!TypeOK
  <2>2. fut[p].st # "dropped" => settled[p] # F!Unsettled
    BY <1>6, <1>8
  <2> QED BY <1>1, <1>7, <1>8, <2>1, <2>2 DEF F!IInv, F!Holds
<1>9. ASSUME c # F!Gone, settled[c.f] = F!Unsettled,
             settled' = [settled EXCEPT ![c.f] = [kind |-> c.kind, from |-> p]],
             fut' = IF fut[c.f].st = "waiting" THEN [fut EXCEPT ![c.f].st = "woken"] ELSE fut
      PROVE  F!IInv'
  <2>1. c.f \in Futures /\ c.kind \in F!Kinds
    BY <1>4, <1>9 DEF F!Callbacks
  <2>2. settled' \in [Futures -> [kind : F!Kinds \cup {"none"}, from : Futures \cup {"nobody"}]]
    BY <1>2, <1>9, <2>1 DEF F!TypeOK
  <2>3. fut' \in [Futures -> [st : {"unmade", "idle", "waiting", "woken", "done", "dropped"},
                              ok : Nat, err : Nat]]
    <3> DEFINE E == [st : {"unmade", "idle", "waiting", "woken", "done", "dropped"},
                     ok : Nat, err : Nat]
    <3>1. fut \in [Futures -> E] /\ fut[c.f] \in E
      BY <1>2, <2>1 DEF F!TypeOK
    <3>2. PICK e : e = [fut[c.f] EXCEPT !.st = "woken"]
      OBVIOUS
    <3>3. e \in E
      BY <3>1, <3>2
    <3>4. fut' = fut \/ fut' = [fut EXCEPT ![c.f] = e]
      BY <1>9, <2>1, <3>1, <3>2
    <3> HIDE DEF E
    <3>5. fut' \in [Futures -> E]
      BY <2>1, <3>1, <3>3, <3>4
    <3> QED BY <3>5 DEF E
  <2>4. F!TypeOK'
    BY <1>1, <1>2, <1>7, <2>2, <2>3 DEF F!TypeOK
  <2>5. settled'[c.f] # F!Unsettled /\ \A g \in Futures : g # c.f => settled'[g] = settled[g]
    <3>1. settled'[c.f] = [kind |-> c.kind, from |-> p]
      BY <1>2, <1>9, <2>1 DEF F!TypeOK
    <3> QED BY <1>2, <1>9, <2>1, <3>1 DEF F!TypeOK, F!Unsettled, F!Kinds
  <2>6. \A g \in Futures :
           /\ fut'[g].ok = fut[g].ok /\ fut'[g].err = fut[g].err
           /\ \/ fut'[g] = fut[g]
              \/ g = c.f /\ fut[g].st = "waiting" /\ fut'[g].st = "woken"
    BY <1>2, <1>9, <2>1 DEF F!TypeOK
  <2>7. fut'[c.f].st # "waiting"
    BY <1>2, <1>9, <2>1 DEF F!TypeOK
  <2>8. fut'[p].st # "dropped" => p = c.f
    BY <1>6, <2>6
  <2> QED BY <1>1, <1>7, <2>1, <2>4, <2>5, <2>6, <2>7, <2>8 DEF F!IInv, F!Holds, F!Unmade
<1> QED BY <1>1, <1>8, <1>9 DEF F!Settle

LEMMA PromisesStep == F!IInv /\ [F!Next]_promiseVars => F!IInv'
<1> SUFFICES ASSUME F!IInv, [F!Next]_promiseVars PROVE F!IInv'
  OBVIOUS
<1>1. CASE UNCHANGED promiseVars
  BY <1>1 DEF promiseVars, F!IInv, F!TypeOK, F!Holds
<1>2. CASE F!Next
  BY <1>2, NewKeeps, DropKeeps, PollKeeps, TellKeeps, ResolveKeeps DEF F!Next
<1> QED BY <1>1, <1>2

LEMMA PromisesAwaited == F!IInv => F!AwaitedSettles
  BY DEF F!IInv, F!AwaitedSettles

(***************************************************************************)
(* Suite: the runner and its page.                                         *)
(***************************************************************************)

\* The cases of a module are a sequence.
LEMMA CasesAreASeq == ASSUME module \in Modules PROVE Len(S!Cases) \in Nat
<1> DEFINE D == S!Decls
           ran == IF module.tests # <<>> THEN module.tests ELSE module.benches
           last == IF S!Bare \/ module.entry THEN <<S!OwnMain>> ELSE <<>>
<1>1. /\ module.tests \in Seq({d \in D : d.kind = "test"})
      /\ module.benches \in Seq({d \in D : d.kind = "bench"})
      /\ module.selected \in BOOLEAN
  BY ModulesAssumption DEF S!Modular
<1>2. S!OwnMain \in D
  BY <1>1 DEF S!OwnMain, S!Decls
<1> HIDE DEF D
<1>3. ran \in Seq(D)
  BY <1>1
<1>4. last \in Seq(D)
  BY <1>2
<1>5. S!Cases = ran \o last
  BY DEF S!Cases
<1> HIDE DEF ran, last
<1> QED BY <1>3, <1>4, <1>5, ConcatProperties, LenProperties

\* The cases of a run and which of them run do not change.
LEMMA CasesStay ==
  ASSUME module' = module, args' = args
  PROVE  /\ S!Cases' = S!Cases /\ (S!Watches' <=> S!Watches)
         /\ \A d : S!Runs(d)' <=> S!Runs(d)
<1>1. (S!Bare' <=> S!Bare) /\ S!OwnMain' = S!OwnMain
  BY DEF S!Bare, S!OwnMain
<1> QED BY <1>1 DEF S!Cases, S!Watches, S!Runs, S!AdmitsIgnored

LEMMA SuiteInit == S!Init => S!IInv
<1> SUFFICES ASSUME S!Init PROVE S!IInv
  OBVIOUS
<1>1. /\ results = <<>> /\ Len(results) = 0 /\ case = 1 /\ code = -1 /\ step = "open"
      /\ seen = "nothing" /\ page = S!NoPage
      /\ args \in [only : BOOLEAN, include : BOOLEAN, measure : BOOLEAN, seconds : BOOLEAN]
      /\ module \in Modules
  BY DEF S!Init
<1>2. page.waiting = 0 /\ page.count = 0 /\ page.done = "none" /\ page.st = "blank"
  BY <1>1 DEF S!NoPage, S!Fresh
<1>3. results \in Seq({"ok", "FAILED", "ignored", "filtered"})
  BY <1>1, EmptySeq
<1>4. page \in S!Pages
  BY <1>1 DEF S!NoPage, S!Fresh, S!Pages
<1>5. S!TypeOK
  BY <1>1, <1>3, <1>4, CasesAreASeq DEF S!TypeOK
<1> QED BY <1>1, <1>2, <1>5 DEF S!IInv

\* The bodies of a page end one by one, and the last publishes the pass.
LEMMA PageKeeps == ASSUME S!IInv, S!Page PROVE S!IInv'
<1>1. UNCHANGED <<module, args, case, step, looks, seen, results, code>>
  BY DEF S!Page
<1>2. S!TypeOK
  BY DEF S!IInv
<1>3. ASSUME page' \in S!Pages, page'.waiting = page'.count,
             page'.done = "ok" => page'.waiting = 0,
             page'.st = "loading" => page'.done = "none",
             page.done = "ok" => page'.done = "ok"
      PROVE  S!IInv'
  <2>1. /\ S!Count("FAILED")' = S!Count("FAILED") /\ S!Cases' = S!Cases
        /\ (S!Watches' <=> S!Watches) /\ \A d : S!Runs(d)' <=> S!Runs(d)
    BY <1>1, CasesStay DEF S!Count
  <2>2. S!TypeOK'
    BY <1>1, <1>2, <1>3, <2>1 DEF S!TypeOK
  <2> QED BY <1>1, <1>3, <2>1, <2>2 DEF S!IInv
<1>4. ASSUME NEW n \in 0..MaxBodies, NEW traps \in BOOLEAN, NEW message \in BOOLEAN,
             NEW measures \in BOOLEAN, S!Boot(n, traps, message, measures)
      PROVE  S!IInv'
  <2>1. n \in Nat /\ page.st = "loading" /\ page.done = "none"
    BY <1>4, HostAssumption DEF S!Boot, S!IInv
  <2>2. /\ page'.waiting = n /\ page'.count = n /\ page'.st = "live"
        /\ page'.done = IF traps THEN "failed" ELSE IF n = 0 THEN "ok" ELSE "none"
    BY <1>4, <2>1 DEF S!Boot, S!Fail
  <2>3. page' \in S!Pages
    BY <1>2, <1>4, <2>1 DEF S!Boot, S!Fail, S!TypeOK, S!Pages
  <2> QED BY <1>3, <2>1, <2>2, <2>3
<1>5. ASSUME S!Finish PROVE S!IInv'
  <2>1. /\ page.st = "live" /\ page.waiting \in Nat /\ page.waiting > 0 /\ page.count = page.waiting
        /\ page' = S!Pass([page EXCEPT !.waiting = @ - 1])
    BY <1>2, <1>5 DEF S!Finish, S!IInv, S!TypeOK, S!Pages
  <2>2. /\ page'.waiting = page.waiting - 1 /\ page'.count = page.count - 1 /\ page'.st = "live"
        /\ page'.done = IF page.count - 1 = 0 THEN "ok" ELSE page.done
    BY <1>2, <2>1 DEF S!Pass, S!TypeOK, S!Pages
  <2>3. page' \in S!Pages
    <3> DEFINE q == [page EXCEPT !.waiting = page.waiting - 1]
    <3>1. q \in S!Pages /\ q.count = page.count
      BY <1>2, <2>1 DEF S!TypeOK, S!Pages
    <3> DEFINE left == (IF q.count = 0 THEN 1 ELSE q.count) - 1
               d == IF left = 0 THEN "ok" ELSE q.done
    <3>2. page' = [q EXCEPT !.count = left, !.done = d]
      BY <2>1 DEF S!Pass
    <3>3. q.done \in {"none", "ok", "failed"} /\ q.count \in Nat
      BY <3>1 DEF S!Pages
    <3> HIDE DEF q
    <3>4. left \in Nat /\ d \in {"none", "ok", "failed"}
      BY <3>3
    <3> HIDE DEF left, d
    <3> QED BY <3>1, <3>2, <3>4 DEF S!Pages
  <2> QED BY <1>2, <1>3, <2>1, <2>2, <2>3 DEF S!IInv, S!TypeOK, S!Pages
<1>6. ASSUME NEW message \in BOOLEAN, S!Panic(message) PROVE S!IInv'
  <2>1. /\ page'.waiting = page.waiting /\ page'.count = page.count /\ page'.done = "failed"
        /\ page'.st = "live" /\ page.waiting > 0
    BY <1>2, <1>6 DEF S!Panic, S!Fail, S!TypeOK, S!Pages
  <2>3. page' \in S!Pages
    BY <1>2, <1>6 DEF S!Panic, S!Fail, S!TypeOK, S!Pages
  <2>2. page.done # "ok"
    BY <1>2, <2>1 DEF S!IInv, S!TypeOK, S!Pages
  <2> QED BY <1>2, <1>3, <2>1, <2>2, <2>3 DEF S!IInv, S!TypeOK, S!Pages
<1>7. ASSUME S!Measure \/ S!StartFails \/ S!Discard PROVE S!IInv'
  <2>1. /\ page'.waiting = page.waiting /\ page'.count = page.count /\ page'.done = page.done
        /\ page'.st # "loading"
    BY <1>2, <1>7 DEF S!Measure, S!StartFails, S!Discard, S!TypeOK, S!Pages
  <2>2. page' \in S!Pages
    BY <1>2, <1>7 DEF S!Measure, S!StartFails, S!Discard, S!TypeOK, S!Pages
  <2> QED BY <1>2, <1>3, <2>1, <2>2 DEF S!IInv, S!TypeOK, S!Pages
<1> QED BY <1>4, <1>5, <1>6, <1>7 DEF S!Page

\* What the runner reports of a case is added at the end.
LEMMA ReportedKeeps ==
  ASSUME S!IInv, NEW r \in {"ok", "FAILED", "ignored", "filtered"}, S!Reported(r),
         case <= Len(S!Cases), step # "end",
         r \in {"ok", "FAILED"} <=> S!Runs(S!Cases[case])
  PROVE  S!IInv'
<1> DEFINE R == {"ok", "FAILED", "ignored", "filtered"}
<1>1. /\ results' = Append(results, r) /\ case' = case + 1 /\ step' = "next" /\ seen' = "nothing"
      /\ args' = args /\ module' = module /\ code' = code /\ page' = page
  BY DEF S!Reported
<1>2. /\ results \in Seq(R) /\ Len(results) = case - 1 /\ case \in 1..(Len(S!Cases) + 1)
      /\ S!TypeOK /\ code = -1 /\ module \in Modules
  BY DEF S!IInv, S!TypeOK
<1> HIDE DEF R
<1>3. r \in R
  BY DEF R
<1>4. /\ results' \in Seq(R) /\ Len(results') = Len(results) + 1
      /\ \A i \in 1..Len(results) : results'[i] = results[i]
      /\ results'[Len(results) + 1] = r
  BY <1>1, <1>2, <1>3, AppendProperties
<1>5. case' \in 1..(Len(S!Cases) + 1) /\ Len(results') = case' - 1 /\ Len(results) + 1 = case
  BY <1>1, <1>2, <1>4, CasesAreASeq
<1>6. S!TypeOK'
  BY <1>1, <1>2, <1>4, <1>5, CasesStay DEF S!TypeOK, R
<1>7. ASSUME NEW i \in 1..Len(results')
      PROVE  results'[i] \in {"ok", "FAILED"} <=> S!Runs(S!Cases[i])
  <2>1. CASE i \in 1..Len(results)
    BY <1>1, <1>4, <2>1 DEF S!IInv
  <2>2. CASE i \notin 1..Len(results)
    <3>1. i = case
      BY <1>2, <1>4, <1>5, <2>2
    <3> QED BY <1>1, <1>4, <1>5, <3>1
  <2> QED BY <2>1, <2>2
<1> QED BY <1>1, <1>2, <1>5, <1>6, <1>7, CasesStay DEF S!IInv

\* Each step of the runner keeps what it has reported.
LEMMA RunnerKeeps == ASSUME S!IInv, S!Runner PROVE S!IInv'
<1>1. S!TypeOK /\ module \in Modules
  BY DEF S!IInv, S!TypeOK
<1>2. ASSUME S!Abort, seen = "ok" => page.done = "ok", seen = "unfailed" => S!Watches PROVE S!IInv'
  BY <1>1, <1>2, CasesStay DEF S!Abort, S!IInv, S!TypeOK
<1>3. ASSUME NEW s \in {"poll", "start", "verdict", "look"}, S!Continue(s),
             step \notin {"open", "next", "report", "end"}, s = "look" => step = "watch"
      PROVE  S!IInv'
  BY <1>1, <1>3, CasesStay DEF S!Continue, S!IInv, S!TypeOK
<1>4. ASSUME S!NextCase PROVE S!IInv'
  <2>1. step = "next" /\ case <= Len(S!Cases) /\ seen = "nothing" /\ case \in Nat
    BY <1>1, <1>4, CasesAreASeq DEF S!NextCase, S!IInv, S!TypeOK
  <2>2. CASE ~S!Runs(S!Cases[case])
    BY <1>4, <2>1, <2>2, ReportedKeeps DEF S!NextCase
  <2>3. CASE S!Runs(S!Cases[case])
    <3>1. CASE S!Abort
      BY <1>2, <2>1, <3>1
    <3>2. CASE /\ page' = S!Fresh /\ step' = IF S!Watches THEN "watch" ELSE "poll"
               /\ UNCHANGED <<module, args, case, looks, seen, results, code>>
      <4>1. page'.waiting = 0 /\ page'.count = 0 /\ page'.done = "none"
        BY <3>2 DEF S!Fresh
      <4>2. S!TypeOK'
        BY <1>1, <3>2, CasesStay DEF S!TypeOK, S!Fresh, S!Pages
      <4> QED BY <1>1, <2>1, <2>3, <3>2, <4>1, <4>2, CasesStay DEF S!IInv
    <3> QED BY <1>4, <2>3, <3>1, <3>2 DEF S!NextCase
  <2> QED BY <2>2, <2>3
<1>5. ASSUME step \in {"poll", "start", "verdict", "watch", "look", "report"},
             NEW r \in {"ok", "FAILED"}, S!Reported(r)
      PROVE  S!IInv'
  <2>1. case <= Len(S!Cases) /\ S!Runs(S!Cases[case])
    BY <1>5 DEF S!IInv
  <2> QED BY <1>5, <2>1, ReportedKeeps
<1>6. ASSUME S!PollDone PROVE S!IInv'
  BY <1>3, <1>5, <1>6 DEF S!PollDone
<1>7. ASSUME S!PollStart PROVE S!IInv'
  <2>1. step = "start"
    BY <1>7 DEF S!PollStart
  <2>2. CASE S!Reported("FAILED")
    BY <1>5, <2>1, <2>2
  <2>3. CASE step' = "poll" /\ UNCHANGED <<module, args, case, seen, results, code, page>>
    BY <1>1, <2>1, <2>3, CasesStay DEF S!IInv, S!TypeOK
  <2> QED BY <1>7, <2>2, <2>3 DEF S!PollStart
<1>8. ASSUME S!ReadVerdict PROVE S!IInv'
  <2>1. step = "verdict" /\ seen = "nothing"
    BY <1>8 DEF S!ReadVerdict, S!IInv
  <2>2. CASE S!Abort
    BY <1>2, <2>1, <2>2
  <2>3. CASE /\ seen' = page.done /\ step' = "report"
             /\ UNCHANGED <<module, args, case, results, code, page>>
    BY <1>1, <2>1, <2>3, CasesStay DEF S!IInv, S!TypeOK, S!Pages
  <2> QED BY <1>8, <2>2, <2>3 DEF S!ReadVerdict
<1>9. ASSUME S!Report PROVE S!IInv'
  <2>1. step = "report" /\ (seen = "ok" => page.done = "ok") /\ (seen = "unfailed" => S!Watches)
    BY <1>9 DEF S!Report, S!IInv
  <2>2. CASE S!Abort
    BY <1>2, <2>1, <2>2
  <2>3. CASE \E r \in {"ok", "FAILED"} : S!Reported(r)
    BY <1>5, <2>1, <2>3
  <2> QED BY <1>9, <2>2, <2>3 DEF S!Report
<1>11. ASSUME S!Open PROVE S!IInv'
  <2>1. step = "open" /\ seen = "nothing"
    BY <1>11 DEF S!Open, S!IInv
  <2>2. CASE S!Abort
    BY <1>2, <2>1, <2>2
  <2>3. CASE S!Continue("next")
    BY <1>1, <2>1, <2>3, CasesStay DEF S!Continue, S!IInv, S!TypeOK
  <2> QED BY <1>11, <2>2, <2>3 DEF S!Open
<1>12. ASSUME S!Watch PROVE S!IInv'
  <2>1. step = "watch" /\ seen = "nothing"
    BY <1>12 DEF S!Watch, S!IInv
  <2>2. CASE S!Abort
    BY <1>2, <2>1, <2>2
  <2>3. CASE S!Continue("look")
    BY <1>3, <2>1, <2>3
  <2>4. CASE UNCHANGED <<module, args, case, step, seen, results, code, page>>
    BY <1>1, <2>1, <2>4, CasesStay DEF S!IInv, S!TypeOK, S!Count
  <2> QED BY <1>12, <2>2, <2>3, <2>4 DEF S!Watch
<1>13. ASSUME S!Look PROVE S!IInv'
  <2>1. step = "look" /\ seen = "nothing" /\ S!Watches
    BY <1>13 DEF S!Look, S!IInv
  <2>2. CASE S!Abort
    BY <1>2, <2>1, <2>2
  <2>3. CASE /\ seen' \in {"failed", "unfailed"} /\ step' = "report"
             /\ UNCHANGED <<module, args, case, results, code, page>>
    BY <1>1, <2>1, <2>3, CasesStay DEF S!IInv, S!TypeOK
  <2> QED BY <1>13, <2>2, <2>3 DEF S!Look
<1>10. ASSUME S!Summary PROVE S!IInv'
  <2>1. /\ step = "next" /\ case > Len(S!Cases) /\ step' = "end"
        /\ code' = IF S!Count("FAILED") = 0 THEN 0 ELSE 1
        /\ UNCHANGED <<module, args, case, looks, seen, results, page>>
    BY <1>10 DEF S!Summary
  <2>2. case = Len(S!Cases) + 1
    BY <1>1, <2>1, CasesAreASeq DEF S!TypeOK
  <2>3. S!Count("FAILED")' = S!Count("FAILED")
    BY <2>1 DEF S!Count
  <2> QED BY <1>1, <2>1, <2>2, <2>3, CasesStay DEF S!IInv, S!TypeOK
<1> QED BY <1>4, <1>6, <1>7, <1>8, <1>9, <1>10, <1>11, <1>12, <1>13 DEF S!Runner

\* A step of the page or of the runner preserves the invariant.
LEMMA SuiteStep == S!IInv /\ [S!Next]_suiteVars => S!IInv'
<1> SUFFICES ASSUME S!IInv, [S!Next]_suiteVars PROVE S!IInv'
  OBVIOUS
<1>1. CASE UNCHANGED suiteVars
  <2>1. /\ S!Count("FAILED")' = S!Count("FAILED") /\ S!Cases' = S!Cases
        /\ (S!Watches' <=> S!Watches) /\ \A d : S!Runs(d)' <=> S!Runs(d)
    BY <1>1, CasesStay DEF suiteVars, S!Count
  <2>2. S!TypeOK'
    BY <1>1, <2>1 DEF suiteVars, S!IInv, S!TypeOK
  <2> QED BY <1>1, <2>1, <2>2 DEF suiteVars, S!IInv
<1>2. CASE S!Next
  BY <1>2, PageKeeps, RunnerKeeps DEF S!Next
<1> QED BY <1>1, <1>2

LEMMA SuitePassed == S!IInv => S!PassMeansAllDone /\ S!RunReports
<1> SUFFICES ASSUME S!IInv PROVE S!PassMeansAllDone /\ S!RunReports
  OBVIOUS
<1>1. S!PassMeansAllDone
  BY DEF S!IInv, S!PassMeansAllDone
<1>2. S!RunReports
  BY CasesAreASeq DEF S!IInv, S!TypeOK, S!RunReports
<1> QED BY <1>1, <1>2

(***************************************************************************)
(* NativeTimers: the driver thread.                                        *)
(***************************************************************************)

LEMMA NeverIsLater ==
  /\ N!Never \in Nat /\ N!Never > 0 /\ N!Nothing \notin Alarms
  /\ \A d \in AlarmDurations : d \in 0..N!Never /\ d # N!Never
<1> DEFINE m == CHOOSE d \in AlarmDurations : \A e \in AlarmDurations : e <= d
<1>1. m \in AlarmDurations /\ \A e \in AlarmDurations : e <= m
  BY HostAssumption
<1>2. N!Never = 1 + m
  BY DEF N!Never
<1> HIDE DEF m
<1>3. m \in Nat /\ \A e \in AlarmDurations : e \in Nat
  BY <1>1, HostAssumption
<1>4. N!Nothing \notin Alarms
  BY HostAssumption DEF N!Nothing
<1> QED BY <1>1, <1>2, <1>3, <1>4

LEMMA NativeInit == N!Init => N!IInv
  BY NeverIsLater DEF N!Init, N!IInv, N!TypeOK, N!DriverOnTime

LEMMA ArmKeeps ==
  ASSUME N!IInv, NEW t \in Alarms, NEW d \in AlarmDurations, N!Arm(t, d) PROVE N!IInv'
<1>1. /\ timer[t].st = "unmade" /\ timer' = [timer EXCEPT ![t] = [st |-> "waiting", toGo |-> d]]
      /\ heap' = [heap EXCEPT ![t] = d] /\ pending' = pending \cup {t}
      /\ driver' = IF driver = "asleep" THEN "run" ELSE driver
      /\ alarm' = alarm /\ target' = target
  BY DEF N!Arm, N!Notify
<1>2. d \in 0..N!Never /\ d # N!Never /\ d \in Nat
  BY NeverIsLater
<1>3. N!TypeOK /\ N!DriverOnTime
  BY DEF N!IInv
<1>4. N!TypeOK'
  BY <1>1, <1>2, <1>3 DEF N!TypeOK
<1>5. t \notin pending /\ target # t
  BY <1>1, <1>3 DEF N!DriverOnTime
<1>6. /\ timer'[t].st = "waiting" /\ timer'[t].toGo = d /\ heap'[t] = d
      /\ \A u \in Alarms : u # t => timer'[u] = timer[u] /\ heap'[u] = heap[u]
  BY <1>1, <1>3 DEF N!TypeOK
<1>7. driver' # "asleep" /\ (driver' = "waking" <=> driver = "waking")
  BY <1>1
<1>8. N!DriverOnTime'
  BY <1>1, <1>3, <1>5, <1>6, <1>7 DEF N!DriverOnTime
<1> QED BY <1>1, <1>2, <1>3, <1>4, <1>5, <1>6, <1>7, <1>8, NeverIsLater DEF N!IInv, N!TypeOK

LEMMA CancelKeeps == ASSUME N!IInv, NEW t \in Alarms, N!Cancel(t) PROVE N!IInv'
<1>1. /\ timer[t].st \in {"waiting", "woken"} /\ timer' = [timer EXCEPT ![t].st = "dropped"]
      /\ pending' = pending \ {t} /\ heap' = heap /\ alarm' = alarm /\ target' = target
      /\ driver' = driver \/ (driver = "asleep" /\ driver' = "run")
  BY DEF N!Cancel, N!Notify
<1>2. N!TypeOK /\ N!DriverOnTime
  BY DEF N!IInv
<1>3. N!TypeOK'
  BY <1>1, <1>2 DEF N!TypeOK
<1>4. /\ timer'[t].st = "dropped" /\ timer'[t].toGo = timer[t].toGo
      /\ \A u \in Alarms : u # t => timer'[u] = timer[u]
  BY <1>1, <1>2 DEF N!TypeOK
<1>5. N!DriverOnTime'
  BY <1>1, <1>2, <1>4 DEF N!DriverOnTime
<1>6. pending' \subseteq pending /\ pending \subseteq Alarms
      /\ \A u \in Alarms : timer'[u].toGo = timer[u].toGo
  BY <1>1, <1>2, <1>4 DEF N!TypeOK
<1> QED BY <1>1, <1>2, <1>3, <1>5, <1>6, NeverIsLater DEF N!IInv, N!TypeOK

LEMMA NativePollKeeps == ASSUME N!IInv, NEW t \in Alarms, N!Poll(t) PROVE N!IInv'
<1>1. /\ timer[t].st = "woken" /\ timer' = [timer EXCEPT ![t].st = "done"]
      /\ UNCHANGED <<heap, pending, driver, alarm, target>>
  BY DEF N!Poll
<1>2. N!TypeOK /\ N!DriverOnTime
  BY DEF N!IInv
<1>3. N!TypeOK'
  BY <1>1, <1>2 DEF N!TypeOK
<1>4. /\ timer'[t].st = "done" /\ timer'[t].toGo = timer[t].toGo
      /\ \A u \in Alarms : u # t => timer'[u] = timer[u]
  BY <1>1, <1>2 DEF N!TypeOK
<1>5. N!DriverOnTime'
  BY <1>1, <1>2, <1>4 DEF N!DriverOnTime
<1> QED BY <1>1, <1>2, <1>3, <1>4, <1>5 DEF N!IInv, N!TypeOK

\* The driver sleeps until the earliest deadline, or takes the wake that is due.
LEMMA ScanKeeps == ASSUME N!IInv, N!Scan PROVE N!IInv'
<1> DEFINE live == [t \in Alarms |->
              IF t \notin pending /\ \A u \in pending : heap[t] <= heap[u]
              THEN N!Never ELSE heap[t]]
<1>1. N!TypeOK /\ N!DriverOnTime /\ driver = "run" /\ timer' = timer
  BY DEF N!IInv, N!Scan
<1>2. live \in [Alarms -> 0..N!Never] /\ \A t \in pending : live[t] = heap[t]
  BY <1>1, NeverIsLater DEF N!TypeOK
<1>3. target = N!Nothing /\ \A t \in Alarms : target # t
  BY <1>1, NeverIsLater DEF N!IInv
<1>4. /\ \A t \in Alarms : timer[t].st = "waiting" <=> t \in pending
      /\ \A t \in Alarms : timer[t].st = "woken" => timer[t].toGo = 0
      /\ \A t \in pending : t \in Alarms /\ heap[t] # N!Never /\ timer[t].toGo <= heap[t]
  BY <1>1, <1>3 DEF N!DriverOnTime, N!IInv, N!TypeOK
<1>5. CASE /\ \A t \in Alarms : live[t] = N!Never
           /\ driver' = "asleep" /\ alarm' = N!Never /\ heap' = live
           /\ UNCHANGED <<pending, target>>
  <2>1. pending = {}
    BY <1>2, <1>4, <1>5
  <2>2. N!TypeOK'
    BY <1>1, <1>2, <1>5, NeverIsLater DEF N!TypeOK
  <2>3. N!DriverOnTime'
    BY <1>1, <1>3, <1>4, <1>5, <2>1 DEF N!DriverOnTime
  <2> QED BY <1>3, <1>5, <2>1, <2>2, <2>3 DEF N!IInv
<1>6. ASSUME NEW t \in N!Earliest(live) \cap pending, live[t] > 0,
             driver' = "asleep", alarm' = live[t], heap' = live, UNCHANGED <<pending, target>>
      PROVE  N!IInv'
  <2>1. t \in Alarms /\ live[t] # N!Never /\ \A u \in Alarms : live[t] <= live[u]
    BY <1>4 DEF N!Earliest
  <2> HIDE DEF live
  <2>2. N!TypeOK'
    BY <1>1, <1>2, <1>6, <2>1 DEF N!TypeOK
  <2>3. N!DriverOnTime'
    BY <1>1, <1>3, <1>4, <1>6, <2>1 DEF N!DriverOnTime
  <2> QED BY <1>1, <1>2, <1>3, <1>4, <1>6, <2>2, <2>3 DEF N!IInv
<1>7. ASSUME NEW t \in N!Earliest(live) \cap pending, ~(live[t] > 0),
             driver' = "waking", target' = t, alarm' = N!Never,
             heap' = [live EXCEPT ![t] = N!Never], pending' = pending \ {t}
      PROVE  N!IInv'
  <2>1. t \in Alarms /\ live[t] = heap[t] /\ heap[t] \in Nat /\ t # N!Nothing
    BY <1>1, <1>2, <1>4, NeverIsLater DEF N!TypeOK
  <2>2. timer[t].toGo = 0 /\ timer[t].st = "waiting"
    <3>1. timer[t].toGo \in Nat /\ heap[t] = 0 /\ timer[t].toGo <= heap[t]
      BY <1>1, <1>4, <1>7, <2>1 DEF N!TypeOK
    <3> QED BY <1>4, <2>1, <3>1
  <2> HIDE DEF live
  <2>3. /\ heap' \in [Alarms -> 0..N!Never]
        /\ \A u \in pending' : u # t /\ u \in pending /\ heap'[u] = heap[u]
    BY <1>1, <1>2, <1>4, <1>7, <2>1, NeverIsLater DEF N!TypeOK
  <2>4. N!TypeOK'
    BY <1>1, <1>7, <2>1, <2>3, NeverIsLater DEF N!TypeOK
  <2>5. N!DriverOnTime'
    BY <1>1, <1>3, <1>4, <1>7, <2>1, <2>2 DEF N!DriverOnTime
  <2>6. \A u \in pending' : heap'[u] # N!Never /\ timer'[u].toGo <= heap'[u]
    BY <1>1, <1>4, <2>3
  <2> QED BY <1>1, <1>7, <2>1, <2>2, <2>4, <2>5, <2>6 DEF N!IInv
<1> QED BY <1>5, <1>6, <1>7 DEF N!Scan

LEMMA WakeKeeps == ASSUME N!IInv, N!Wake PROVE N!IInv'
<1>1. /\ N!TypeOK /\ N!DriverOnTime /\ driver = "waking" /\ driver' = "run"
      /\ target' = N!Nothing /\ UNCHANGED <<heap, pending, alarm>>
      /\ timer' = IF timer[target].st = "waiting"
                  THEN [timer EXCEPT ![target].st = "woken"] ELSE timer
  BY DEF N!IInv, N!Wake
<1>2. target \in Alarms /\ target \notin pending /\ timer[target].toGo = 0
      /\ (timer[target].st = "waiting" <=> timer[target].st # "dropped")
      /\ N!Nothing \notin Alarms
  BY <1>1, NeverIsLater DEF N!IInv, N!TypeOK, N!DriverOnTime
<1>3. N!TypeOK'
  BY <1>1, <1>2 DEF N!TypeOK
<1>4. /\ \A u \in Alarms : u # target => timer'[u] = timer[u]
      /\ \A u \in Alarms : timer'[u].toGo = timer[u].toGo
      /\ timer'[target].st = IF timer[target].st = "waiting" THEN "woken" ELSE timer[target].st
  BY <1>1, <1>2 DEF N!TypeOK
<1>5. N!DriverOnTime'
  BY <1>1, <1>2, <1>4 DEF N!DriverOnTime
<1> QED BY <1>1, <1>2, <1>3, <1>4, <1>5 DEF N!IInv, N!TypeOK

LEMMA NativeTickKeeps == ASSUME N!IInv, N!Tick PROVE N!IInv'
<1>1. /\ N!TypeOK /\ N!DriverOnTime /\ UNCHANGED <<pending, driver, target>>
      /\ heap' = [t \in Alarms |-> N!Less(heap[t])] /\ alarm' = N!Less(alarm)
      /\ timer' = [t \in Alarms |-> [timer[t] EXCEPT !.toGo = IF @ = 0 THEN 0 ELSE @ - 1]]
  BY DEF N!IInv, N!Tick
<1>2. \A n \in 0..N!Never : /\ N!Less(n) \in 0..N!Never
                            /\ N!Less(n) = N!Never <=> n = N!Never
                            /\ n # N!Never => N!Less(n) = IF n = 0 THEN 0 ELSE n - 1
  BY NeverIsLater DEF N!Less
<1>3. \A t \in Alarms : /\ heap[t] \in 0..N!Never /\ heap'[t] = N!Less(heap[t])
                        /\ heap'[t] \in 0..N!Never
  BY <1>1, <1>2 DEF N!TypeOK
<1>4. \A t \in Alarms :
         /\ timer[t].toGo \in Nat /\ timer'[t].st = timer[t].st
         /\ timer'[t].toGo = IF timer[t].toGo = 0 THEN 0 ELSE timer[t].toGo - 1
  BY <1>1 DEF N!TypeOK
<1>5. timer' \in [Alarms -> [st : {"unmade", "waiting", "woken", "done", "dropped"}, toGo : Nat]]
  <2> DEFINE E == [st : {"unmade", "waiting", "woken", "done", "dropped"}, toGo : Nat]
  <2>1. ASSUME NEW t \in Alarms
        PROVE  [timer[t] EXCEPT !.toGo = IF @ = 0 THEN 0 ELSE @ - 1] \in E
    <3> DEFINE n == IF timer[t].toGo = 0 THEN 0 ELSE timer[t].toGo - 1
    <3>1. timer[t] \in E
      BY <1>1 DEF N!TypeOK
    <3>3. n \in Nat
      BY <1>4
    <3>2. [timer[t] EXCEPT !.toGo = IF @ = 0 THEN 0 ELSE @ - 1] = [timer[t] EXCEPT !.toGo = n]
      OBVIOUS
    <3> HIDE DEF n
    <3> QED BY <3>1, <3>2, <3>3
  <2> HIDE DEF E
  <2>2. timer' \in [Alarms -> E]
    BY <1>1, <2>1
  <2> QED BY <2>2 DEF E
<1>6. N!TypeOK'
  BY <1>1, <1>2, <1>3, <1>5 DEF N!TypeOK
<1>7. ASSUME NEW t \in pending
      PROVE  /\ heap'[t] # N!Never /\ timer'[t].toGo <= heap'[t]
             /\ driver = "asleep" => alarm' # N!Never /\ alarm' <= heap'[t]
  <2>1. t \in Alarms /\ heap[t] # N!Never /\ timer[t].toGo <= heap[t] /\ alarm \in 0..N!Never
        /\ (driver = "asleep" => alarm # N!Never /\ alarm <= heap[t])
    BY <1>1 DEF N!IInv, N!TypeOK, N!DriverOnTime
  <2>2. heap'[t] = IF heap[t] = 0 THEN 0 ELSE heap[t] - 1
    BY <1>2, <1>3, <2>1
  <2>3. alarm # N!Never => alarm' # N!Never /\ alarm' = IF alarm = 0 THEN 0 ELSE alarm - 1
    BY <1>1, <1>2, <2>1
  <2> QED BY <1>2, <1>3, <1>4, <2>1, <2>2, <2>3, NeverIsLater
<1>8. N!DriverOnTime'
  BY <1>1, <1>4, <1>7 DEF N!DriverOnTime
<1> QED BY <1>1, <1>4, <1>6, <1>7, <1>8 DEF N!IInv, N!TypeOK

LEMMA NativeStep == N!IInv /\ [N!Next]_nativeVars => N!IInv'
<1> SUFFICES ASSUME N!IInv, [N!Next]_nativeVars PROVE N!IInv'
  OBVIOUS
<1>1. CASE UNCHANGED nativeVars
  BY <1>1 DEF nativeVars, N!IInv, N!TypeOK, N!DriverOnTime
<1>2. ASSUME N!TimedOut \/ N!Spurious PROVE N!IInv'
  BY <1>2 DEF N!TimedOut, N!Spurious, N!IInv, N!TypeOK, N!DriverOnTime
<1>3. CASE N!Next
  BY <1>2, <1>3, ArmKeeps, CancelKeeps, NativePollKeeps, ScanKeeps, WakeKeeps, NativeTickKeeps
     DEF N!Next, N!Driver
<1> QED BY <1>1, <1>3

(***************************************************************************)
(* PinnedFile: what a request answers.                                     *)
(***************************************************************************)

\* A run of the file's bytes, one by one.
LEMMA BytesProperties ==
  ASSUME NEW i \in Nat, NEW j \in Int
  PROVE  /\ P!Bytes(i, j) \in Seq(Nat)
         /\ Len(P!Bytes(i, j)) = IF j >= i THEN j - i + 1 ELSE 0
         /\ \A n \in 1..Len(P!Bytes(i, j)) : P!Bytes(i, j)[n] = i + n - 1
<1> DEFINE k == IF j >= i THEN j - i + 1 ELSE 0
           s == P!Bytes(i, j)
<1>1. k \in Nat /\ 1..k = 1..(j - i + 1)
  OBVIOUS
<1>2. s = [n \in 1..k |-> i + n - 1]
  BY <1>1 DEF P!Bytes
<1> HIDE DEF k
<1>3. s \in [1..k -> Nat] /\ \A n \in 1..k : s[n] = i + n - 1
  BY <1>1, <1>2
<1> HIDE DEF s
<1>4. s \in Seq(Nat) /\ Len(s) = k
  BY <1>1, <1>3
<1> QED BY <1>3, <1>4 DEF s, k

\* A sequence that counts up is a run of bytes.
LEMMA CountsUp ==
  ASSUME NEW s \in Seq(Nat), NEW i \in Nat, \A n \in 1..Len(s) : s[n] = i + n - 1
  PROVE  s = P!Bytes(i, i + Len(s) - 1)
<1> DEFINE t == P!Bytes(i, i + Len(s) - 1)
<1>1. Len(s) \in Nat /\ i + Len(s) - 1 \in Int
  OBVIOUS
<1>2. t \in Seq(Nat) /\ \A n \in 1..Len(t) : t[n] = i + n - 1
  BY <1>1, BytesProperties
<1>3. Len(t) = IF i + Len(s) - 1 >= i THEN (i + Len(s) - 1) - i + 1 ELSE 0
  BY <1>1, BytesProperties
<1> HIDE DEF t
<1>4. Len(t) = Len(s)
  BY <1>1, <1>3
<1>5. \A n \in 1..Len(s) : s[n] = t[n]
  BY <1>2, <1>4
<1>6. s = t
  BY <1>2, <1>4, <1>5, SeqEqual
<1> QED BY <1>6 DEF t

LEMMA NoBytes ==
  ASSUME NEW i \in Nat
  PROVE  <<>> \in Seq(Nat) /\ Len(<<>>) = 0 /\ <<>> = P!Bytes(i, i + Len(<<>>) - 1)
<1> SUFFICES ASSUME NEW e, e = <<>> PROVE e \in Seq(Nat) /\ Len(e) = 0 /\ e = P!Bytes(i, i + Len(e) - 1)
  OBVIOUS
<1>1. e \in Seq(Nat) /\ Len(e) = 0
  BY EmptySeq
<1>2. \A n \in 1..Len(e) : e[n] = i + n - 1
  BY <1>1
<1> QED BY <1>1, <1>2, CountsUp

LEMMA RunOfBytes ==
  ASSUME NEW i \in Nat, NEW j \in Int
  PROVE  /\ P!Bytes(i, j) \in Seq(Nat)
         /\ P!Bytes(i, j) = P!Bytes(i, i + Len(P!Bytes(i, j)) - 1)
<1> DEFINE s == P!Bytes(i, j)
<1>1. s \in Seq(Nat) /\ \A n \in 1..Len(s) : s[n] = i + n - 1
  BY BytesProperties
<1> HIDE DEF s
<1>2. s = P!Bytes(i, i + Len(s) - 1)
  BY <1>1, CountsUp
<1> QED BY <1>1, <1>2 DEF s

\* What is handed out of a body are the bytes from where the request started.
LEMMA BodyAnswers ==
  ASSUME NEW from \in Nat, NEW want \in Int, NEW r,
         r.from \in Nat, r.to \in Int, r.cut \in {0, 1},
         \/ r.status = 206 /\ r.from = from
         \/ r.status = 200 /\ r.from = 0
  PROVE  \/ P!Body(r, from, want) = P!Refused
         \/ \E data \in Seq(Nat) : /\ P!Body(r, from, want) = P!Got(data)
                                   /\ data = P!Bytes(from, from + Len(data) - 1)
<1> DEFINE first == IF r.status = 200 THEN r.from + from ELSE r.from
           limit == IF r.status = 206 THEN r.to - r.from + 1 ELSE want
           last == P!Min2(r.to - r.cut, first + limit - 1)
<1>1. first = from /\ limit \in Int
  OBVIOUS
<1>2. last \in Int
  BY <1>1 DEF P!Min2
<1>3. P!Body(r, from, want) \in {P!Refused, P!Got(P!Bytes(first, last))}
  BY DEF P!Body
<1> HIDE DEF first, limit, last
<1>4. /\ P!Bytes(from, last) \in Seq(Nat)
      /\ P!Bytes(from, last) = P!Bytes(from, from + Len(P!Bytes(from, last)) - 1)
  BY <1>2, RunOfBytes
<1> QED BY <1>1, <1>3, <1>4

LEMMA RangeAnswers ==
  ASSUME NEW from \in Nat, NEW want \in Int, NEW r \in P!Responses(from, want)
  PROVE  \/ P!RangeOutcome(r, from, want) = P!Refused
         \/ \E data \in Seq(Nat) : /\ P!RangeOutcome(r, from, want) = P!Got(data)
                                   /\ data = P!Bytes(from, from + Len(data) - 1)
<1>1. /\ r.status \in {200, 204, 206, 404, 416, 500} /\ r.from \in Nat /\ r.to \in Int
      /\ r.cut \in {0, 1}
      /\ r.status = 200 => r.from = 0
  <2> DEFINE to == from + want - 1
  <2>1. CASE r \in [status : {206}, from : {from, from + 1}, to : 0..(to + 1),
                    total : {-1, to, Length}, cut : {0, 1}, plain : BOOLEAN]
    <3> HIDE DEF to
    <3> QED BY <2>1
  <2>2. CASE r \in [status : {200}, from : {0}, to : {Length - 1}, total : {-1}, cut : {0, 1},
                    plain : BOOLEAN]
    BY <2>2, HostAssumption
  <2>3. CASE r \in [status : {204, 404, 416, 500}, from : {0}, to : {0}, total : {-1, Length},
                    cut : {0}, plain : {TRUE}]
    BY <2>3
  <2> QED BY <2>1, <2>2, <2>3 DEF P!Responses
<1>2. P!RangeOutcome(r, from, want) \in {P!Refused, P!Got(<<>>), P!Body(r, from, want)}
  BY <1>1 DEF P!RangeOutcome
<1>3. CASE P!RangeOutcome(r, from, want) = P!Got(<<>>)
  <2>1. <<>> \in Seq(Nat) /\ <<>> = P!Bytes(from, from + Len(<<>>) - 1)
    BY NoBytes
  <2> QED BY <1>3, <2>1
<1>4. CASE /\ P!RangeOutcome(r, from, want) = P!Body(r, from, want)
           /\ P!RangeOutcome(r, from, want) # P!Refused
           /\ P!RangeOutcome(r, from, want) # P!Got(<<>>)
  <2>1. \/ r.status = 206 /\ r.from = from
        \/ r.status = 200 /\ r.from = 0
    BY <1>1, <1>4 DEF P!RangeOutcome, P!PartialOk
  <2> QED BY <1>1, <1>4, <2>1, BodyAnswers
<1> QED BY <1>2, <1>3, <1>4

LEMMA PinnedInit == P!Init => P!IInv
<1> SUFFICES ASSUME P!Init PROVE P!IInv
  OBVIOUS
<1>1. <<>> \in Seq(Nat) /\ P!Range(<<>>) = {}
  BY EmptySeq DEF P!Range
<1>2. P!NewOp \in P!Operations
  BY <1>1 DEF P!NewOp, P!Operations, P!Kinds
<1>3. P!NewJob \in P!Bridges
  BY <1>1 DEF P!NewJob, P!Bridges, P!Pending, P!Outputs
<1>4. /\ \A r \in Readers : op[r] = P!NewOp /\ place[r] = "idle"
      /\ \A j \in Jobs : job[j] = P!NewJob
  BY DEF P!Init
<1>5. P!TypeOK
  BY <1>2, <1>3 DEF P!Init, P!TypeOK
<1>6. /\ P!NewOp.st = "new" /\ P!NewOp.kind = "read" /\ P!NewOp.job = "none" /\ P!NewOp.all = <<>>
      /\ P!NewOp.from = 0 /\ P!NewJob.st = "unused"
  BY DEF P!NewOp, P!NewJob
<1>7. P!NothingSkipped
  <2>1. pos = 0
    BY DEF P!Init
  <2>2. <<>> = P!Bytes(0, 0 + Len(<<>>) - 1)
    BY NoBytes
  <2> QED BY <1>4, <1>6, <2>1, <2>2 DEF P!NothingSkipped
<1>8. \A r \in Readers : P!ReaderOK(r)
  BY <1>4, <1>6 DEF P!ReaderOK, P!Waiting
<1> QED BY <1>4, <1>5, <1>6, <1>7, <1>8 DEF P!IInv

\* A reader whose operation, place and bridge a step leaves alone stays as it is.
LEMMA OtherReader ==
  ASSUME P!IInv, NEW q \in Readers,
         op'[q] = op[q], place'[q] = place[q], woken'[q] = woken[q],
         P!Waiting(q) => job'[op[q].job] = job[op[q].job],
         \A b \in Nat : P!Handed(b) => P!Handed(b)'
  PROVE  P!ReaderOK(q)'
<1>1. P!ReaderOK(q)
  BY DEF P!IInv
<1>2. P!Waiting(q)' <=> P!Waiting(q)
  BY DEF P!Waiting
<1>3. IF P!Waiting(q)' THEN P!OwnJob(q)' ELSE op'[q].job = "none" /\ place'[q] = "idle"
  <2>1. CASE P!Waiting(q)
    <3>1. P!OwnJob(q)
      BY <1>1, <2>1 DEF P!ReaderOK
    <3>2. job'[op'[q].job] = job[op[q].job]
      BY <2>1
    <3>3. P!OwnJob(q)'
      BY <3>1, <3>2 DEF P!OwnJob
    <3> QED BY <1>2, <2>1, <3>3
  <2>2. CASE ~P!Waiting(q)
    BY <1>1, <1>2, <2>2 DEF P!ReaderOK
  <2> QED BY <2>1, <2>2
<1>4. op'[q].st = "get" => \A b \in 0..(op'[q].from - 1) : P!Handed(b)'
  <2> SUFFICES ASSUME op[q].st = "get", NEW b \in 0..(op[q].from - 1) PROVE P!Handed(b)'
    OBVIOUS
  <2>1. op[q].from \in Nat
    BY DEF P!IInv, P!TypeOK, P!Operations
  <2>2. b \in Nat
    BY <2>1
  <2>3. P!Handed(b)
    BY <1>1 DEF P!ReaderOK
  <2> QED BY <2>2, <2>3
<1> QED BY <1>1, <1>3, <1>4 DEF P!ReaderOK

\* What was handed out stays so when an operation only reads on.
LEMMA HandedGrows ==
  ASSUME P!TypeOK, NEW r \in Readers, NEW o, op' = [op EXCEPT ![r] = o],
         \A b \in Nat : b \in P!Range(op[r].all) => b \in P!Range(o.all)
  PROVE  \A b \in Nat : /\ P!Handed(b) => P!Handed(b)'
                        /\ b \in P!Range(o.all) => P!Handed(b)'
<1>1. op'[r] = o /\ \A q \in Readers : q # r => op'[q] = op[q]
  BY DEF P!TypeOK
<1> TAKE b \in Nat
<1>2. ASSUME P!Handed(b) PROVE P!Handed(b)'
  <2>1. PICK q \in Readers : b \in P!Range(op[q].all)
    BY <1>2 DEF P!Handed
  <2>2. b \in P!Range(op'[q].all)
    BY <1>1, <2>1
  <2> QED BY <2>2 DEF P!Handed
<1>3. ASSUME b \in P!Range(o.all) PROVE P!Handed(b)'
  <2>1. b \in P!Range(op'[r].all)
    BY <1>1, <1>3
  <2> QED BY <2>1 DEF P!Handed
<1> QED BY <1>2, <1>3

\* What a reader may make of its operation: the conditions on the new one alone.
GoodOp(o) ==
  /\ o \in P!Operations
  /\ o.kind = "read" => o.all = P!Bytes(o.from, o.from + Len(o.all) - 1)

\* An operation that ends, or that will go on with another request.
LEMMA EndKeeps ==
  ASSUME P!IInv, NEW r \in Readers, NEW o, GoodOp(o),
         NEW st \in {"again", "done", "failed", "dropped"}, P!Answer(r, st, o),
         st = "again" => o.kind # "read",
         \A b \in Nat : b \in P!Range(op[r].all) => b \in P!Range(o.all),
         pos' \in Nat, \A b \in 0..(pos' - 1) : P!Handed(b) \/ b \in P!Range(o.all),
         place' \in [Readers -> {"idle", "missed", "registered"}], place'[r] = "idle",
         \A q \in Readers : q # r => place'[q] = place[q] /\ woken'[q] = woken[q],
         woken' \in [Readers -> BOOLEAN],
         job' \in [Jobs -> P!Bridges],
         \A j \in Jobs : job'[j] = job[j] \/ (j = op[r].job /\ P!Waiting(r)),
         \A j \in Jobs : job'[j].st # "unused" => job'[j].for \in Readers
  PROVE  P!IInv'
<1>1. PICK n : n = IF st = "again" THEN o.len ELSE 0
  OBVIOUS
<1>2. n \in Int
  BY <1>1 DEF GoodOp, P!Operations
<1>3. PICK o3 : o3 = [o EXCEPT !.st = st, !.job = "none", !.len = n]
  OBVIOUS
<1>4. /\ o3 \in P!Operations /\ o3.st = st /\ o3.job = "none" /\ o3.kind = o.kind
      /\ o3.from = o.from /\ o3.all = o.all
  BY <1>2, <1>3 DEF GoodOp, P!Operations
<1>5. op' = [op EXCEPT ![r] = o3]
  BY <1>1, <1>3 DEF P!Answer
<1>6. P!TypeOK
  BY DEF P!IInv
<1>7. op'[r] = o3 /\ \A q \in Readers : q # r => op'[q] = op[q]
  BY <1>5, <1>6 DEF P!TypeOK
<1>8. P!TypeOK'
  <2>1. op' \in [Readers -> P!Operations]
    BY <1>4, <1>5, <1>6 DEF P!TypeOK
  <2> QED BY <2>1 DEF P!TypeOK
<1>9. \A b \in Nat : /\ P!Handed(b) => P!Handed(b)'
                     /\ b \in P!Range(o3.all) => P!Handed(b)'
  BY <1>4, <1>5, <1>6, HandedGrows
<1>10. P!NothingSkipped'
  <2>1. ASSUME NEW b \in 0..(pos' - 1) PROVE P!Handed(b)'
    <3>1. b \in Nat
      OBVIOUS
    <3>2. CASE P!Handed(b)
      BY <1>9, <3>1, <3>2
    <3>3. CASE b \in P!Range(o.all)
      BY <1>4, <1>9, <3>1, <3>3
    <3> QED BY <3>2, <3>3
  <2>2. ASSUME NEW q \in Readers, op'[q].kind = "read"
        PROVE  op'[q].all = P!Bytes(op'[q].from, op'[q].from + Len(op'[q].all) - 1)
    <3>1. CASE q = r
      BY <1>4, <1>7, <2>2, <3>1 DEF GoodOp
    <3>2. CASE q # r
      BY <1>7, <2>2, <3>2 DEF P!IInv, P!NothingSkipped
    <3> QED BY <3>1, <3>2
  <2> QED BY <2>1, <2>2 DEF P!NothingSkipped, P!Handed
<1>11. ASSUME NEW q \in Readers PROVE P!ReaderOK(q)'
  <2>1. CASE q = r
    BY <1>4, <1>7, <2>1 DEF P!ReaderOK, P!Waiting
  <2>2. CASE q # r
    <3>1. ASSUME P!Waiting(q) PROVE job'[op[q].job] = job[op[q].job]
      <4>1. op[q].job \in Jobs /\ job[op[q].job].for = q
        BY <3>1 DEF P!IInv, P!ReaderOK, P!OwnJob
      <4>2. P!Waiting(r) => job[op[r].job].for = r
        BY DEF P!IInv, P!ReaderOK, P!OwnJob
      <4> QED BY <2>2, <4>1, <4>2
    <3> QED BY <1>7, <1>9, <2>2, <3>1, OtherReader
  <2> QED BY <2>1, <2>2
<1> QED BY <1>8, <1>10, <1>11 DEF P!IInv

\* An operation that makes a request.
LEMMA PinKeeps ==
  ASSUME P!IInv, NEW r \in Readers, NEW o, GoodOp(o), ~P!Waiting(r), P!Pin(r, o),
         o.st \in {"head", "get"}, o.all = op[r].all,
         o.kind = "read" \/ o.st = "head" => o.all = <<>>,
         o.st = "head" => o.kind # "read",
         o.st = "get" => \A b \in 0..(o.from - 1) : P!Handed(b),
         UNCHANGED <<pos, place>>
  PROVE  P!IInv'
<1> DEFINE k == CHOOSE j \in P!Unused : TRUE
           new == [P!NewJob EXCEPT !.st = "working", !.for = r]
<1>1. PICK o3 : o3 = [o EXCEPT !.job = k]
  OBVIOUS
<1>2. PICK b3 : b3 = new
  OBVIOUS
<1>3. k \in Jobs /\ job[k].st = "unused"
  BY DEF P!Pin, P!Unused
<1>4. /\ job' = [job EXCEPT ![k] = b3] /\ op' = [op EXCEPT ![r] = o3]
      /\ woken' = [woken EXCEPT ![r] = TRUE]
  BY <1>1, <1>2 DEF P!Pin
<1> HIDE DEF k
<1>5. /\ o3 \in P!Operations /\ o3.st = o.st /\ o3.job = k /\ o3.kind = o.kind
      /\ o3.from = o.from /\ o3.all = o.all
  BY <1>1, <1>3 DEF GoodOp, P!Operations
<1>6. /\ b3 \in P!Bridges /\ b3.st = "working" /\ b3.for = r /\ b3.out = P!Pending
  <2>1. <<>> \in Seq(Nat)
    BY EmptySeq
  <2> QED BY <1>2, <2>1 DEF P!NewJob, P!Bridges, P!Outputs, P!Pending
<1>7. P!TypeOK
  BY DEF P!IInv
<1>8. /\ op'[r] = o3 /\ woken'[r] = TRUE /\ job'[k] = b3
      /\ \A q \in Readers : q # r => op'[q] = op[q] /\ woken'[q] = woken[q]
      /\ \A j \in Jobs : j # k => job'[j] = job[j]
  BY <1>3, <1>4, <1>7 DEF P!TypeOK
<1>9. P!TypeOK'
  <2>1. op' \in [Readers -> P!Operations]
    BY <1>4, <1>5, <1>7 DEF P!TypeOK
  <2>2. job' \in [Jobs -> P!Bridges]
    BY <1>3, <1>4, <1>6, <1>7 DEF P!TypeOK
  <2> QED BY <1>4, <1>7, <2>1, <2>2 DEF P!TypeOK
<1>10. \A b \in Nat : P!Handed(b) => P!Handed(b)'
  <2>1. \A b \in Nat : b \in P!Range(op[r].all) => b \in P!Range(o3.all)
    BY <1>5
  <2> QED BY <1>4, <1>7, <2>1, HandedGrows
<1>11. P!NothingSkipped'
  <2>1. ASSUME NEW b \in 0..(pos' - 1) PROVE P!Handed(b)'
    <3>1. b \in 0..(pos - 1) /\ b \in Nat
      BY <1>7 DEF P!TypeOK
    <3>2. P!Handed(b)
      BY <3>1 DEF P!IInv, P!NothingSkipped, P!Handed
    <3> QED BY <1>10, <3>1, <3>2
  <2>2. ASSUME NEW q \in Readers, op'[q].kind = "read"
        PROVE  op'[q].all = P!Bytes(op'[q].from, op'[q].from + Len(op'[q].all) - 1)
    <3>1. CASE q = r
      BY <1>5, <1>8, <2>2, <3>1 DEF GoodOp
    <3>2. CASE q # r
      BY <1>8, <2>2, <3>2 DEF P!IInv, P!NothingSkipped
    <3> QED BY <3>1, <3>2
  <2> QED BY <2>1, <2>2 DEF P!NothingSkipped, P!Handed
<1>12. ASSUME NEW q \in Readers PROVE P!ReaderOK(q)'
  <2>1. CASE q = r
    <3>1. op[r].job = "none" /\ place[r] = "idle"
      BY DEF P!IInv, P!ReaderOK
    <3>2. place'[r] = "idle"
      BY <3>1
    <3>3. P!OwnJob(r)'
      BY <1>3, <1>5, <1>6, <1>8, <3>2 DEF P!OwnJob
    <3>4. o3.st = "get" => \A b \in 0..(o3.from - 1) : P!Handed(b)'
      <4> SUFFICES ASSUME o3.st = "get", NEW b \in 0..(o3.from - 1) PROVE P!Handed(b)'
        OBVIOUS
      <4>1. b \in Nat /\ b \in 0..(o.from - 1)
        BY <1>5
      <4>2. P!Handed(b)
        BY <1>5, <4>1
      <4> QED BY <1>10, <4>1, <4>2
    <3>5. P!Waiting(r)'
      BY <1>5, <1>8 DEF P!Waiting
    <3> QED BY <1>5, <1>8, <2>1, <3>3, <3>4, <3>5 DEF P!ReaderOK
  <2>2. CASE q # r
    <3>1. ASSUME P!Waiting(q) PROVE job'[op[q].job] = job[op[q].job]
      <4>1. op[q].job \in Jobs /\ job[op[q].job].st # "unused"
        BY <3>1 DEF P!IInv, P!ReaderOK, P!OwnJob
      <4> QED BY <1>3, <1>8, <4>1
    <3>2. place'[q] = place[q]
      OBVIOUS
    <3> QED BY <1>8, <1>10, <2>2, <3>1, <3>2, OtherReader
  <2> QED BY <2>1, <2>2
<1>13. \A j \in Jobs : job'[j].st # "unused" => job'[j].for \in Readers
  BY <1>6, <1>8 DEF P!IInv
<1> QED BY <1>9, <1>11, <1>12, <1>13 DEF P!IInv

LEMMA GoodNow ==
  ASSUME P!IInv, NEW r \in Readers
  PROVE  GoodOp(op[r]) /\ P!TypeOK /\ pos \in Nat
  BY DEF P!IInv, P!TypeOK, P!NothingSkipped, GoodOp

\* What is before the position was handed out.
LEMMA BeforeHanded ==
  ASSUME P!IInv, NEW b \in 0..(pos - 1)
  PROVE  P!Handed(b)
  BY DEF P!IInv, P!NothingSkipped, P!Handed

\* A reader of a request lets its bridge go.
LEMMA LetGoKeeps ==
  ASSUME P!IInv, NEW r \in Readers, P!Waiting(r), NEW bridge \in P!Bridges,
         bridge.for \in Readers, P!LetGo(r, bridge)
  PROVE  /\ job' \in [Jobs -> P!Bridges]
         /\ \A j \in Jobs : job'[j] = job[j] \/ (j = op[r].job /\ P!Waiting(r))
         /\ \A j \in Jobs : job'[j].st # "unused" => job'[j].for \in Readers
<1>1. PICK b : b = IF bridge.st = "finished" THEN P!NewJob ELSE bridge
  OBVIOUS
<1>2. job' = [job EXCEPT ![op[r].job] = b]
  BY <1>1 DEF P!LetGo
<1>3. b \in P!Bridges /\ (b.st # "unused" => b.for \in Readers)
  <2>1. P!NewJob \in P!Bridges /\ P!NewJob.st = "unused"
    <3>1. <<>> \in Seq(Nat)
      BY EmptySeq
    <3> QED BY <3>1 DEF P!NewJob, P!Bridges, P!Outputs, P!Pending
  <2> QED BY <1>1, <2>1
<1>4. job \in [Jobs -> P!Bridges]
  BY DEF P!IInv, P!TypeOK
<1> QED BY <1>2, <1>3, <1>4 DEF P!IInv

\* No operation reads on: it failed, or there was nothing to read.
LEMMA StopKeeps ==
  ASSUME P!IInv, NEW r \in Readers, NEW o, GoodOp(o), o.all = op[r].all,
         ~P!Waiting(r), NEW st \in {"done", "failed"}, P!Answer(r, st, o),
         UNCHANGED <<pos, place, job, woken>>
  PROVE  P!IInv'
<1>1. P!TypeOK /\ pos \in Nat /\ place[r] = "idle"
  BY DEF P!IInv, P!TypeOK, P!ReaderOK
<1>2. \A b \in 0..(pos' - 1) : P!Handed(b) \/ b \in P!Range(o.all)
  BY BeforeHanded
<1>3. /\ place' \in [Readers -> {"idle", "missed", "registered"}] /\ woken' \in [Readers -> BOOLEAN]
      /\ job' \in [Jobs -> P!Bridges] /\ pos' \in Nat
  BY <1>1 DEF P!TypeOK
<1>4. \A j \in Jobs : job'[j].st # "unused" => job'[j].for \in Readers
  BY DEF P!IInv
<1>5. place'[r] = "idle" /\ \A q \in Readers : q # r => place'[q] = place[q] /\ woken'[q] = woken[q]
  BY <1>1
<1>6. \A j \in Jobs : job'[j] = job[j] \/ (j = op[r].job /\ P!Waiting(r))
  OBVIOUS
<1>7. \A b \in Nat : b \in P!Range(op[r].all) => b \in P!Range(o.all)
  OBVIOUS
<1>8. st \in {"again", "done", "failed", "dropped"} /\ (st = "again" => o.kind # "read")
  OBVIOUS
<1> QED BY <1>2, <1>3, <1>4, <1>5, <1>6, <1>7, <1>8, EndKeeps

\* A request from the position on.
LEMMA RequestKeeps ==
  ASSUME P!IInv, NEW r \in Readers, NEW o, GoodOp(o), o.all = op[r].all, ~P!Waiting(r),
         o.kind = "read" => o.all = <<>>,
         NEW len \in Int, P!Request(r, o, len), UNCHANGED <<pos, place>>
  PROVE  P!IInv'
<1>1. CASE pos + len - 1 > MaxU64
  <2>1. P!Answer(r, "failed", o) /\ UNCHANGED <<job, woken>>
    BY <1>1 DEF P!Request
  <2> QED BY <2>1, StopKeeps
<1>2. CASE ~(pos + len - 1 > MaxU64)
  <2>1. PICK o2 : o2 = [o EXCEPT !.st = "get", !.from = pos, !.len = len]
    OBVIOUS
  <2>2. P!Pin(r, o2)
    BY <1>2, <2>1 DEF P!Request
  <2>3. pos \in Nat
    BY GoodNow
  <2>4. /\ o2 \in P!Operations /\ o2.st = "get" /\ o2.from = pos /\ o2.all = o.all
        /\ o2.kind = o.kind
    BY <2>1, <2>3 DEF GoodOp, P!Operations
  <2>5. GoodOp(o2)
    <3> SUFFICES ASSUME o2.kind = "read" PROVE o2.all = P!Bytes(o2.from, o2.from + Len(o2.all) - 1)
      BY <2>4 DEF GoodOp
    <3>1. o2.all = <<>>
      BY <2>4
    <3>2. o2.from \in Nat
      BY <2>3, <2>4
    <3>3. <<>> = P!Bytes(o2.from, o2.from + Len(<<>>) - 1)
      BY <3>2, NoBytes
    <3> QED BY <3>1, <3>3
  <2>6. \A b \in 0..(o2.from - 1) : P!Handed(b)
    BY <2>4, BeforeHanded
  <2>7. o2.all = op[r].all /\ (o2.kind = "read" \/ o2.st = "head" => o2.all = <<>>)
    BY <2>4
  <2>8. o2.st \in {"head", "get"} /\ (o2.st = "head" => o2.kind # "read")
    BY <2>4
  <2> QED BY <2>2, <2>5, <2>6, <2>7, <2>8, PinKeeps
<1> QED BY <1>1, <1>2

LEMMA StartKeeps ==
  ASSUME P!IInv, NEW r \in Readers, NEW kind \in P!Kinds, NEW len \in 0..MaxLen,
         P!Start(r, kind, len)
  PROVE  P!IInv'
<1>1. PICK o : o = [P!NewOp EXCEPT !.kind = kind]
  OBVIOUS
<1>2. /\ o \in P!Operations /\ o.kind = kind /\ o.all = <<>> /\ o.from = 0
  <2>1. <<>> \in Seq(Nat)
    BY EmptySeq
  <2>2. P!NewOp \in P!Operations /\ P!NewOp.all = <<>> /\ P!NewOp.from = 0
    BY <2>1 DEF P!NewOp, P!Operations, P!Kinds
  <2> QED BY <1>1, <2>2 DEF P!Operations
<1>3. o.all = P!Bytes(o.from, o.from + Len(o.all) - 1)
  <2>1. <<>> = P!Bytes(0, 0 + Len(<<>>) - 1)
    BY NoBytes
  <2> QED BY <1>2, <2>1
<1>4. op[r].st = "new" /\ ~P!Waiting(r) /\ op[r].all = <<>> /\ len \in Int
      /\ UNCHANGED <<pos, place>>
  BY DEF P!Start, P!Waiting, P!IInv, P!ReaderOK
<1>5. GoodOp(o)
  BY <1>2, <1>3 DEF GoodOp
<1>6. CASE kind # "read"
  <2>1. PICK o2 : o2 = [o EXCEPT !.st = "head"]
    OBVIOUS
  <2>2. P!Pin(r, o2)
    BY <1>1, <1>6, <2>1 DEF P!Start
  <2>3. o2 \in P!Operations /\ o2.st = "head" /\ o2.kind = kind /\ o2.all = <<>>
    BY <1>2, <2>1 DEF P!Operations
  <2>4. GoodOp(o2)
    BY <1>6, <2>3 DEF GoodOp
  <2> QED BY <1>4, <1>6, <2>2, <2>3, <2>4, PinKeeps
<1>7. CASE kind = "read" /\ len = 0
  <2>1. P!Answer(r, "done", o) /\ UNCHANGED <<job, woken>>
    BY <1>1, <1>7 DEF P!Start
  <2> QED BY <1>2, <1>4, <1>5, <2>1, StopKeeps
<1>8. CASE kind = "read" /\ len # 0
  <2>1. P!Request(r, o, len)
    BY <1>1, <1>8 DEF P!Start
  <2> QED BY <1>2, <1>4, <1>5, <2>1, RequestKeeps
<1> QED BY <1>6, <1>7, <1>8

LEMMA ReadMoreKeeps ==
  ASSUME P!IInv, NEW r \in Readers, P!ReadMore(r)
  PROVE  P!IInv'
<1>1. /\ op[r].st = "again" /\ P!Request(r, op[r], op[r].len) /\ UNCHANGED <<pos, place>>
  BY DEF P!ReadMore
<1>2. ~P!Waiting(r) /\ op[r].kind # "read"
  BY <1>1 DEF P!Waiting, P!IInv, P!ReaderOK
<1>3. GoodOp(op[r]) /\ op[r].len \in Int
  BY GoodNow DEF GoodOp, P!Operations
<1> QED BY <1>1, <1>2, <1>3, RequestKeeps

LEMMA DropOpKeeps ==
  ASSUME P!IInv, NEW r \in Readers, P!DropOp(r)
  PROVE  P!IInv'
<1>1. /\ P!Waiting(r) /\ place[r] = "idle" /\ P!Answer(r, "dropped", op[r])
      /\ P!LetGo(r, job[op[r].job]) /\ UNCHANGED <<pos, place, woken>>
  BY DEF P!DropOp
<1>2. GoodOp(op[r]) /\ P!TypeOK /\ pos \in Nat
  BY GoodNow
<1>3. job[op[r].job] \in P!Bridges /\ job[op[r].job].for = r
  BY <1>1, <1>2 DEF P!IInv, P!ReaderOK, P!OwnJob, P!TypeOK
<1>4. /\ job' \in [Jobs -> P!Bridges]
      /\ \A j \in Jobs : job'[j] = job[j] \/ (j = op[r].job /\ P!Waiting(r))
      /\ \A j \in Jobs : job'[j].st # "unused" => job'[j].for \in Readers
  BY <1>1, <1>3, LetGoKeeps
<1>5. \A b \in 0..(pos' - 1) : P!Handed(b) \/ b \in P!Range(op[r].all)
  BY <1>1, BeforeHanded
<1>6. /\ place' \in [Readers -> {"idle", "missed", "registered"}] /\ woken' \in [Readers -> BOOLEAN]
      /\ pos' \in Nat /\ place'[r] = "idle"
      /\ \A q \in Readers : q # r => place'[q] = place[q] /\ woken'[q] = woken[q]
  BY <1>1, <1>2 DEF P!TypeOK
<1> QED BY <1>1, <1>2, <1>4, <1>5, <1>6, EndKeeps

\* A request was answered: the reader takes it.
LEMMA HeadTakenKeeps ==
  ASSUME P!IInv, NEW r \in Readers, NEW out, P!HeadTaken(r, out),
         place' \in [Readers -> {"idle", "missed", "registered"}], place'[r] = "idle",
         woken' \in [Readers -> BOOLEAN],
         \A q \in Readers : q # r => place'[q] = place[q] /\ woken'[q] = woken[q],
         NEW bridge \in P!Bridges, bridge.for \in Readers, P!LetGo(r, bridge)
  PROVE  P!IInv'
<1>1. op[r].st = "head" /\ P!Waiting(r) /\ pos' = pos /\ op[r].kind # "read" /\ op[r].all = <<>>
  BY DEF P!HeadTaken, P!Waiting, P!IInv, P!ReaderOK
<1>2. GoodOp(op[r]) /\ P!TypeOK /\ pos \in Nat
  BY GoodNow
<1>3. PICK remaining : remaining = IF pos < Length THEN Length - pos ELSE 0
  OBVIOUS
<1>4. remaining \in Int
  BY <1>2, <1>3, HostAssumption
<1>5. PICK o2 : o2 = [op[r] EXCEPT !.len = remaining]
  OBVIOUS
<1>6. /\ o2 \in P!Operations /\ o2.kind = op[r].kind /\ o2.from = op[r].from
      /\ o2.all = op[r].all
  BY <1>2, <1>4, <1>5 DEF GoodOp, P!Operations
<1>7. GoodOp(o2)
  BY <1>1, <1>6 DEF GoodOp
<1>8. \/ P!Answer(r, "failed", op[r]) \/ P!Answer(r, "done", op[r])
      \/ P!Answer(r, "again", o2)
  BY <1>3, <1>5 DEF P!HeadTaken
<1>9. PICK o \in {op[r], o2}, st \in {"failed", "done", "again"} : P!Answer(r, st, o)
  BY <1>8
<1>10. /\ GoodOp(o) /\ o.all = op[r].all /\ o.kind = op[r].kind
  BY <1>2, <1>6, <1>7, <1>9
<1>11. \A b \in 0..(pos' - 1) : P!Handed(b) \/ b \in P!Range(o.all)
  BY <1>1, BeforeHanded
<1>12. /\ job' \in [Jobs -> P!Bridges]
       /\ \A j \in Jobs : job'[j] = job[j] \/ (j = op[r].job /\ P!Waiting(r))
       /\ \A j \in Jobs : job'[j].st # "unused" => job'[j].for \in Readers
  BY <1>1, LetGoKeeps
<1>13. pos' \in Nat /\ (st = "again" => o.kind # "read")
       /\ \A b \in Nat : b \in P!Range(op[r].all) => b \in P!Range(o.all)
  BY <1>1, <1>2, <1>10
<1> QED BY <1>9, <1>10, <1>11, <1>12, <1>13, EndKeeps

\* What two sequences hold is in their concatenation.
LEMMA ConcatRange ==
  ASSUME NEW s \in Seq(Nat), NEW t \in Seq(Nat), NEW u, u = s \o t
  PROVE  /\ u \in Seq(Nat) /\ Len(u) = Len(s) + Len(t)
         /\ \A b \in Nat : b \in P!Range(s) \/ b \in P!Range(t) => b \in P!Range(u)
<1>1. /\ u \in Seq(Nat) /\ Len(s) \in Nat /\ Len(t) \in Nat /\ Len(u) = Len(s) + Len(t)
      /\ DOMAIN s = 1..Len(s) /\ DOMAIN t = 1..Len(t) /\ DOMAIN u = 1..Len(u)
  BY ConcatProperties
<1>2. \A n \in 1..Len(s) : u[n] = s[n] /\ n \in DOMAIN u
  BY <1>1, ConcatProperties
<1>3. \A n \in 1..Len(t) : u[Len(s) + n] = t[n] /\ Len(s) + n \in DOMAIN u
  BY <1>1, ConcatProperties
<1>4. ASSUME NEW b \in Nat, b \in P!Range(s) PROVE b \in P!Range(u)
  BY <1>1, <1>2, <1>4 DEF P!Range
<1>5. ASSUME NEW b \in Nat, b \in P!Range(t) PROVE b \in P!Range(u)
  BY <1>1, <1>3, <1>5 DEF P!Range
<1> QED BY <1>1, <1>4, <1>5

\* The bytes from a place on are all handed out.
LEMMA RunHanded ==
  ASSUME NEW i \in Nat, NEW s \in Seq(Nat), s = P!Bytes(i, i + Len(s) - 1)
  PROVE  \A b \in Nat : i <= b /\ b < i + Len(s) => b \in P!Range(s)
<1>1. Len(s) \in Nat /\ DOMAIN s = 1..Len(s)
  BY LenProperties
<1>2. \A n \in 1..Len(s) : s[n] = i + n - 1
  <2>1. PICK last : last = i + Len(s) - 1
    OBVIOUS
  <2>2. last \in Int /\ s = P!Bytes(i, last)
    BY <1>1, <2>1
  <2>3. \A n \in 1..Len(P!Bytes(i, last)) : P!Bytes(i, last)[n] = i + n - 1
    BY <2>2, BytesProperties
  <2> QED BY <2>2, <2>3
<1> TAKE b \in Nat
<1>3. ASSUME i <= b, b < i + Len(s) PROVE b \in P!Range(s)
  <2>1. b - i + 1 \in 1..Len(s)
    BY <1>1, <1>3
  <2>2. s[b - i + 1] = b
    BY <1>2, <2>1
  <2> QED BY <1>1, <2>1, <2>2 DEF P!Range
<1> QED BY <1>3

LEMMA DataTakenKeeps ==
  ASSUME P!IInv, NEW r \in Readers, NEW out, P!DataTaken(r, out), P!Answered(op[r], out),
         place' \in [Readers -> {"idle", "missed", "registered"}], place'[r] = "idle",
         woken' \in [Readers -> BOOLEAN], out \in P!Outputs,
         \A q \in Readers : q # r => place'[q] = place[q] /\ woken'[q] = woken[q],
         NEW bridge \in P!Bridges, bridge.for \in Readers, P!LetGo(r, bridge)
  PROVE  P!IInv'
<1>1. /\ op[r].st = "get" /\ P!Waiting(r)
      /\ op[r].kind = "read" => op[r].all = <<>>
      /\ \A b \in 0..(op[r].from - 1) : P!Handed(b)
  BY DEF P!DataTaken, P!Waiting, P!IInv, P!ReaderOK
<1>2. GoodOp(op[r]) /\ P!TypeOK /\ pos \in Nat
  BY GoodNow
<1>3. /\ op[r] \in P!Operations /\ op[r].from \in Nat /\ op[r].all \in Seq(Nat) /\ op[r].len \in Int
  BY <1>2 DEF GoodOp, P!Operations
<1>4. /\ job' \in [Jobs -> P!Bridges]
      /\ \A j \in Jobs : job'[j] = job[j] \/ (j = op[r].job /\ P!Waiting(r))
      /\ \A j \in Jobs : job'[j].st # "unused" => job'[j].for \in Readers
  BY <1>1, LetGoKeeps
<1>5. CASE out.st = "error"
  <2>1. P!Answer(r, "failed", op[r]) /\ pos' = pos
    BY <1>5 DEF P!DataTaken
  <2>2. \A b \in 0..(pos' - 1) : P!Handed(b) \/ b \in P!Range(op[r].all)
    BY <2>1, BeforeHanded
  <2> QED BY <1>2, <1>4, <2>1, <2>2, EndKeeps
<1>6. CASE out.st # "error"
  <2>1. PICK data : data = out.data
    OBVIOUS
  <2>2. data \in Seq(Nat) /\ Len(data) \in Nat
    <3>1. data \in Seq(Nat)
      BY <2>1 DEF P!Outputs
    <3> QED BY <3>1, LenProperties
  <2>3. data = P!Bytes(op[r].from, op[r].from + Len(data) - 1)
    BY <1>1, <1>6, <2>1 DEF P!Answered, P!Refused, P!Got
  <2>4. PICK all : all = op[r].all \o data
    OBVIOUS
  <2>5. /\ all \in Seq(Nat)
        /\ \A b \in Nat : b \in P!Range(op[r].all) \/ b \in P!Range(data) => b \in P!Range(all)
    <3>1. PICK s \in Seq(Nat) : s = op[r].all
      BY <1>3
    <3>2. all = s \o data
      BY <2>4, <3>1
    <3> QED BY <2>2, <3>1, <3>2, ConcatRange
  <2>6. PICK len \in Int : len = op[r].len - Len(data)
    BY <1>3, <2>2
  <2>61. PICK o : o = [op[r] EXCEPT !.all = all, !.len = len]
    OBVIOUS
  <2>7. /\ o \in P!Operations /\ o.all = all /\ o.kind = op[r].kind /\ o.from = op[r].from
    BY <1>3, <2>5, <2>6, <2>61 DEF P!Operations
  <2>8. GoodOp(o)
    <3> SUFFICES ASSUME o.kind = "read" PROVE o.all = P!Bytes(o.from, o.from + Len(o.all) - 1)
      BY <2>7 DEF GoodOp
    <3>1. all = data
      <4>1. op[r].all = <<>>
        BY <1>1, <2>7
      <4> QED BY <2>2, <2>4, <4>1, ConcatEmptySeq
    <3> QED BY <2>3, <2>7, <3>1
  <2>9. /\ pos' = op[r].from + Len(data)
        /\ \/ P!Answer(r, "done", o)
           \/ o.kind # "read" /\ P!Answer(r, "again", o)
    BY <1>6, <2>1, <2>4, <2>6, <2>61, <2>7 DEF P!DataTaken
  <2>10. \A b \in 0..(pos' - 1) : P!Handed(b) \/ b \in P!Range(o.all)
    <3> SUFFICES ASSUME NEW b \in 0..(pos' - 1) PROVE P!Handed(b) \/ b \in P!Range(all)
      BY <2>7
    <3>1. b \in Nat /\ b < op[r].from + Len(data)
      BY <1>3, <2>2, <2>9
    <3>2. CASE b < op[r].from
      <4>1. b \in 0..(op[r].from - 1)
        BY <1>3, <3>1, <3>2
      <4> QED BY <1>1, <4>1
    <3>3. CASE op[r].from <= b
      <4>1. b \in P!Range(data)
        BY <1>3, <2>2, <2>3, <3>1, <3>3, RunHanded
      <4> QED BY <2>5, <4>1
    <3> QED BY <1>3, <3>1, <3>2, <3>3
  <2>11. PICK st \in {"done", "again"} : P!Answer(r, st, o) /\ (st = "again" => o.kind # "read")
    BY <2>9
  <2>12. pos' \in Nat /\ \A b \in Nat : b \in P!Range(op[r].all) => b \in P!Range(o.all)
    BY <1>3, <2>2, <2>5, <2>7, <2>9
  <2> QED BY <1>4, <2>8, <2>10, <2>11, <2>12, EndKeeps
<1> QED BY <1>5, <1>6

\* Whichever of the two looks finds the output.
LEMMA TakenKeeps ==
  ASSUME P!IInv, NEW r \in Readers, P!Waiting(r), NEW j, j = op[r].job,
         job[j].out # P!Pending, P!Taken(r, job[j].out),
         place' \in [Readers -> {"idle", "missed", "registered"}], place'[r] = "idle",
         woken' \in [Readers -> BOOLEAN],
         \A q \in Readers : q # r => place'[q] = place[q] /\ woken'[q] = woken[q],
         NEW bridge, bridge \in {job[j], [job[j] EXCEPT !.waker = FALSE]}, P!LetGo(r, bridge)
  PROVE  P!IInv'
<1>1. j \in Jobs /\ job[j] \in P!Bridges /\ job[j].for = r /\ P!Answered(op[r], job[j].out)
  BY DEF P!IInv, P!ReaderOK, P!OwnJob, P!TypeOK
<1>2. bridge \in P!Bridges /\ bridge.for \in Readers
  BY <1>1 DEF P!Bridges
<1>3. job[j].out \in P!Outputs
  BY <1>1 DEF P!Bridges
<1> QED BY <1>1, <1>2, <1>3, HeadTakenKeeps, DataTakenKeeps DEF P!Taken

\* A step that leaves the operations and the position alone: every reader it
\* touches has to be looked at again, and nothing else.
LEMMA ReadersKeep ==
  ASSUME P!IInv, UNCHANGED <<pos, op>>,
         place' \in [Readers -> {"idle", "missed", "registered"}],
         woken' \in [Readers -> BOOLEAN], job' \in [Jobs -> P!Bridges],
         \A j \in Jobs : job'[j].st # "unused" => job'[j].for \in Readers,
         \A q \in Readers : \/ P!Waiting(q) /\ P!OwnJob(q)'
                            \/ /\ place'[q] = place[q] /\ woken'[q] = woken[q]
                               /\ P!Waiting(q) => job'[op[q].job] = job[op[q].job]
  PROVE  P!IInv'
<1>1. P!TypeOK /\ op' = op /\ pos' = pos
  BY DEF P!IInv
<1>2. P!TypeOK'
  BY <1>1 DEF P!TypeOK
<1>3. \A b : P!Handed(b)' <=> P!Handed(b)
  BY <1>1 DEF P!Handed
<1>4. P!NothingSkipped'
  BY <1>1 DEF P!IInv, P!NothingSkipped
<1>5. ASSUME NEW q \in Readers PROVE P!ReaderOK(q)'
  <2>1. CASE P!Waiting(q) /\ P!OwnJob(q)'
    <3>1. P!Waiting(q)' /\ P!ReaderOK(q)
      BY <1>1, <2>1 DEF P!Waiting, P!IInv
    <3>2. op'[q].st = "get" => \A b \in 0..(op'[q].from - 1) : P!Handed(b)'
      BY <1>1, <1>3, <3>1 DEF P!ReaderOK
    <3> QED BY <1>1, <2>1, <3>1, <3>2 DEF P!ReaderOK
  <2>2. CASE /\ place'[q] = place[q] /\ woken'[q] = woken[q]
             /\ P!Waiting(q) => job'[op[q].job] = job[op[q].job]
    <3>1. op'[q] = op[q] /\ \A b \in Nat : P!Handed(b) => P!Handed(b)'
      BY <1>1, <1>3
    <3> QED BY <2>2, <3>1, OtherReader
  <2> QED BY <2>1, <2>2
<1> QED BY <1>2, <1>4, <1>5 DEF P!IInv

\* A request belongs to one reader.
LEMMA OwnRequests ==
  ASSUME P!IInv, NEW q \in Readers, P!Waiting(q)
  PROVE  /\ op[q].job \in Jobs /\ job[op[q].job].for = q /\ job[op[q].job].st # "unused"
         /\ job[op[q].job] \in P!Bridges /\ P!OwnJob(q) /\ P!ReaderOK(q)
  BY DEF P!IInv, P!TypeOK, P!ReaderOK, P!OwnJob

LEMMA FirstLookKeeps ==
  ASSUME P!IInv, NEW r \in Readers, P!FirstLook(r)
  PROVE  P!IInv'
<1> DEFINE j == op[r].job
<1>1. P!Waiting(r) /\ place[r] = "idle" /\ woken' = [woken EXCEPT ![r] = FALSE]
  BY DEF P!FirstLook
<1>2. P!TypeOK
  BY DEF P!IInv
<1>3. /\ woken' \in [Readers -> BOOLEAN] /\ woken'[r] = FALSE
      /\ \A q \in Readers : q # r => woken'[q] = woken[q]
  BY <1>1, <1>2 DEF P!TypeOK
<1>4. CASE job[j].out # P!Pending
  <2>1. P!Taken(r, job[j].out) /\ P!LetGo(r, job[j]) /\ place' = place
    BY <1>4 DEF P!FirstLook
  <2>2. place' \in [Readers -> {"idle", "missed", "registered"}] /\ place'[r] = "idle"
        /\ \A q \in Readers : q # r => place'[q] = place[q]
    BY <1>1, <1>2, <2>1 DEF P!TypeOK
  <2> QED BY <1>1, <1>3, <1>4, <2>1, <2>2, TakenKeeps
<1>5. CASE job[j].out = P!Pending
  <2>1. place' = [place EXCEPT ![r] = "missed"] /\ UNCHANGED <<pos, op, job>>
    BY <1>5 DEF P!FirstLook
  <2>2. place' \in [Readers -> {"idle", "missed", "registered"}] /\ place'[r] = "missed"
        /\ \A q \in Readers : q # r => place'[q] = place[q]
    BY <1>2, <2>1 DEF P!TypeOK
  <2>3. job' = job /\ job' \in [Jobs -> P!Bridges] /\ op' = op
    BY <1>2, <2>1 DEF P!TypeOK
  <2>4. P!OwnJob(r)'
    BY <1>1, <2>2, <2>3, OwnRequests DEF P!OwnJob
  <2>5. \A i \in Jobs : job'[i].st # "unused" => job'[i].for \in Readers
    BY <2>3 DEF P!IInv
  <2> QED BY <1>1, <1>3, <2>1, <2>2, <2>3, <2>4, <2>5, ReadersKeep
<1> QED BY <1>4, <1>5

LEMMA RegisterKeeps ==
  ASSUME P!IInv, NEW r \in Readers, P!Register(r)
  PROVE  P!IInv'
<1>1. /\ place[r] = "missed" /\ place' = [place EXCEPT ![r] = "registered"]
      /\ UNCHANGED <<pos, op, woken>>
  BY DEF P!Register
<1>2. P!TypeOK /\ P!Waiting(r)
  BY <1>1 DEF P!IInv, P!ReaderOK
<1>3. PICK j \in Jobs : j = op[r].job
  BY <1>2, OwnRequests
<1>4. PICK b : b = [job[j] EXCEPT !.waker = TRUE]
  OBVIOUS
<1>5. job[j] \in P!Bridges /\ job[j].for = r
  BY <1>2, <1>3, OwnRequests
<1>6. /\ b \in P!Bridges /\ b.st = job[j].st /\ b.for = r /\ b.out = job[j].out /\ b.waker = TRUE
  BY <1>4, <1>5 DEF P!Bridges
<1>7. job' = [job EXCEPT ![j] = b]
  BY <1>3, <1>4, <1>2 DEF P!Register, P!TypeOK
<1>8. job' \in [Jobs -> P!Bridges] /\ job'[j] = b /\ \A i \in Jobs : i # j => job'[i] = job[i]
  BY <1>2, <1>6, <1>7 DEF P!TypeOK
<1>9. place' \in [Readers -> {"idle", "missed", "registered"}] /\ place'[r] = "registered"
      /\ \A q \in Readers : q # r => place'[q] = place[q]
  BY <1>1, <1>2 DEF P!TypeOK
<1>10. P!OwnJob(r)'
  <2>1. P!OwnJob(r)
    BY <1>2, OwnRequests
  <2> QED BY <1>1, <1>3, <1>5, <1>6, <1>8, <1>9, <2>1 DEF P!OwnJob
<1>11. \A i \in Jobs : job'[i].st # "unused" => job'[i].for \in Readers
  BY <1>6, <1>8 DEF P!IInv
<1>12. \A q \in Readers : q # r /\ P!Waiting(q) => job'[op[q].job] = job[op[q].job]
  BY <1>3, <1>5, <1>8, OwnRequests
<1>13. woken' \in [Readers -> BOOLEAN] /\ woken' = woken
  BY <1>1, <1>2 DEF P!TypeOK
<1> QED BY <1>1, <1>2, <1>8, <1>9, <1>10, <1>11, <1>12, <1>13, ReadersKeep

LEMMA SecondLookKeeps ==
  ASSUME P!IInv, NEW r \in Readers, P!SecondLook(r)
  PROVE  P!IInv'
<1> DEFINE j == op[r].job
<1>1. /\ place[r] = "registered" /\ place' = [place EXCEPT ![r] = "idle"] /\ woken' = woken
  BY DEF P!SecondLook
<1>2. P!TypeOK /\ P!Waiting(r)
  BY <1>1 DEF P!IInv, P!ReaderOK
<1>3. place' \in [Readers -> {"idle", "missed", "registered"}] /\ place'[r] = "idle"
      /\ \A q \in Readers : q # r => place'[q] = place[q]
  BY <1>1, <1>2 DEF P!TypeOK
<1>4. woken' \in [Readers -> BOOLEAN] /\ \A q \in Readers : q # r => woken'[q] = woken[q]
  BY <1>1, <1>2 DEF P!TypeOK
<1>5. CASE job[j].out # P!Pending
  <2>1. PICK bridge : bridge = [job[j] EXCEPT !.waker = FALSE]
    OBVIOUS
  <2>2. P!Taken(r, job[j].out) /\ P!LetGo(r, bridge)
    BY <1>5, <2>1 DEF P!SecondLook
  <2> QED BY <1>2, <1>3, <1>4, <1>5, <2>1, <2>2, TakenKeeps
<1>6. CASE job[j].out = P!Pending
  <2>1. UNCHANGED <<pos, op, job>>
    BY <1>6 DEF P!SecondLook
  <2>2. job' = job /\ job' \in [Jobs -> P!Bridges] /\ op' = op
    BY <1>2, <2>1 DEF P!TypeOK
  <2>3. P!OwnJob(r)'
    <3>1. P!OwnJob(r) /\ job[j].st = "working"
      BY <1>2, <1>6, OwnRequests DEF P!OwnJob
    <3> QED BY <1>1, <1>3, <2>2, <3>1 DEF P!OwnJob
  <2>4. \A i \in Jobs : job'[i].st # "unused" => job'[i].for \in Readers
    BY <2>2 DEF P!IInv
  <2> QED BY <1>1, <1>2, <1>3, <1>4, <2>1, <2>2, <2>3, <2>4, ReadersKeep
<1> QED BY <1>5, <1>6

\* What a pinned task stores answers the operation that waits for it.
LEMMA OutcomeAnswers ==
  ASSUME P!IInv, NEW r \in Readers, P!Waiting(r), NEW out \in P!Outcomes(r)
  PROVE  P!Answered(op[r], out) /\ out \in P!Outputs /\ out # P!Pending
<1>1. op[r].from \in Nat /\ op[r].len \in Int
  BY GoodNow DEF GoodOp, P!Operations
<1>2. <<>> \in Seq(Nat)
  BY EmptySeq
<1>3. CASE out = P!Refused
  BY <1>2, <1>3 DEF P!Answered, P!Outputs, P!Refused, P!Pending
<1>4. CASE op[r].st = "head" /\ out # P!Refused
  <2>1. out = P!Got(<<>>)
    BY <1>4 DEF P!Outcomes, P!HeadOutcome
  <2> QED BY <1>2, <1>4, <2>1 DEF P!Answered, P!Outputs, P!Got, P!Pending
<1>5. CASE op[r].st = "get" /\ out # P!Refused
  <2>1. PICK h \in P!Responses(op[r].from, op[r].len) :
           out = P!RangeOutcome(h, op[r].from, op[r].len)
    BY <1>5 DEF P!Outcomes
  <2>2. PICK data \in Seq(Nat) :
           /\ out = P!Got(data) /\ data = P!Bytes(op[r].from, op[r].from + Len(data) - 1)
    BY <1>1, <1>5, <2>1, RangeAnswers
  <2>3. out.st = "ok" /\ out.data = data /\ out \in P!Outputs /\ out # P!Pending
    BY <2>2 DEF P!Got, P!Outputs, P!Pending
  <2> QED BY <1>5, <2>2, <2>3 DEF P!Answered
<1> QED BY <1>3, <1>4, <1>5 DEF P!Waiting

LEMMA StoreKeeps ==
  ASSUME P!IInv, NEW j \in Jobs, P!Store(j)
  PROVE  P!IInv'
<1>1. job[j].st = "working" /\ UNCHANGED <<pos, op, place, woken>>
  BY DEF P!Store
<1>2. PICK out \in P!Answers(j) : job' = [job EXCEPT ![j].st = "stored", ![j].out = out]
  BY DEF P!Store
<1>3. P!TypeOK /\ job[j] \in P!Bridges /\ job[j].for \in Readers
  BY <1>1 DEF P!IInv, P!TypeOK
<1>4. PICK r \in Readers : r = job[j].for
  BY <1>3
<1>5. op[r].job = j => P!Waiting(r)
  <2>1. P!ReaderOK(r) /\ j # "none"
    BY HostAssumption DEF P!IInv
  <2> QED BY <2>1 DEF P!ReaderOK
<1>6. /\ out \in P!Outputs /\ out # P!Pending
      /\ op[r].job = j => P!Answered(op[r], out)
  <2>1. CASE op[r].job = j
    <3>1. out \in P!Outcomes(r)
      BY <1>2, <1>4, <2>1 DEF P!Answers
    <3> QED BY <1>5, <2>1, <3>1, OutcomeAnswers
  <2>2. CASE op[r].job # j
    <3>1. out = P!Refused /\ <<>> \in Seq(Nat)
      BY <1>2, <1>4, <2>2, EmptySeq DEF P!Answers
    <3> QED BY <2>2, <3>1 DEF P!Refused, P!Outputs, P!Pending
  <2> QED BY <2>1, <2>2
<1>7. PICK b : b = [job[j] EXCEPT !.st = "stored", !.out = out]
  OBVIOUS
<1>8. /\ b \in P!Bridges /\ b.st = "stored" /\ b.for = r /\ b.out = out /\ b.waker = job[j].waker
  BY <1>3, <1>4, <1>6, <1>7 DEF P!Bridges
<1>9. job' = [job EXCEPT ![j] = b]
  BY <1>2, <1>3, <1>7 DEF P!TypeOK
<1>10. job' \in [Jobs -> P!Bridges] /\ job'[j] = b /\ \A i \in Jobs : i # j => job'[i] = job[i]
  BY <1>3, <1>8, <1>9 DEF P!TypeOK
<1>11. \A i \in Jobs : job'[i].st # "unused" => job'[i].for \in Readers
  BY <1>8, <1>10 DEF P!IInv
<1>12. /\ place' \in [Readers -> {"idle", "missed", "registered"}] /\ place' = place
       /\ woken' \in [Readers -> BOOLEAN] /\ woken' = woken /\ op' = op
  BY <1>1, <1>3 DEF P!TypeOK
<1>13. ASSUME NEW q \in Readers
       PROVE  \/ P!Waiting(q) /\ P!OwnJob(q)'
              \/ P!Waiting(q) => job'[op[q].job] = job[op[q].job]
  <2>1. CASE P!Waiting(q) /\ op[q].job = j
    <3>1. P!OwnJob(q) /\ q = r
      BY <1>4, <2>1, OwnRequests
    <3>2. P!OwnJob(q)'
      BY <1>1, <1>6, <1>8, <1>10, <1>12, <2>1, <3>1 DEF P!OwnJob
    <3> QED BY <2>1, <3>2
  <2>2. CASE P!Waiting(q) /\ op[q].job # j
    BY <1>10, <2>2, OwnRequests
  <2> QED BY <2>1, <2>2
<1> QED BY <1>1, <1>10, <1>11, <1>12, <1>13, ReadersKeep

LEMMA WakeReaderKeeps ==
  ASSUME P!IInv, NEW j \in Jobs, P!WakeReader(j)
  PROVE  P!IInv'
<1>1. job[j].st = "stored" /\ UNCHANGED <<pos, op, place>>
  BY DEF P!WakeReader
<1>2. P!TypeOK /\ job[j] \in P!Bridges /\ job[j].for \in Readers
  BY <1>1 DEF P!IInv, P!TypeOK
<1>3. PICK r \in Readers : r = job[j].for
  BY <1>2
<1>4. /\ place' \in [Readers -> {"idle", "missed", "registered"}] /\ place' = place /\ op' = op
  BY <1>1, <1>2 DEF P!TypeOK
<1>5. CASE op[r].job = j
  <2>1. PICK b : b = [job[j] EXCEPT !.st = "finished", !.waker = FALSE]
    OBVIOUS
  <2>2. /\ b \in P!Bridges /\ b.st = "finished" /\ b.for = r /\ b.out = job[j].out
    BY <1>2, <1>3, <2>1 DEF P!Bridges
  <2>3. job' = [job EXCEPT ![j] = b] /\ woken' = [woken EXCEPT ![r] = @ \/ job[j].waker]
    BY <1>2, <1>3, <1>5, <2>1 DEF P!WakeReader, P!TypeOK
  <2>4. job' \in [Jobs -> P!Bridges] /\ job'[j] = b /\ \A i \in Jobs : i # j => job'[i] = job[i]
    BY <1>2, <2>2, <2>3 DEF P!TypeOK
  <2>5. job[j].waker \in BOOLEAN /\ woken \in [Readers -> BOOLEAN]
    BY <1>2 DEF P!Bridges, P!TypeOK
  <2>6. /\ woken' \in [Readers -> BOOLEAN] /\ (woken'[r] <=> woken[r] \/ job[j].waker)
        /\ \A q \in Readers : q # r => woken'[q] = woken[q]
    BY <2>3, <2>5
  <2>7. \A i \in Jobs : job'[i].st # "unused" => job'[i].for \in Readers
    BY <2>2, <2>4 DEF P!IInv
  <2>8. P!Waiting(r) /\ P!OwnJob(r)'
    <3>1. P!Waiting(r)
      BY <1>5, HostAssumption DEF P!IInv, P!ReaderOK
    <3>2. P!OwnJob(r)
      BY <3>1, OwnRequests
    <3>3. P!OwnJob(r)'
      BY <1>1, <1>4, <1>5, <2>2, <2>4, <2>6, <3>2 DEF P!OwnJob
    <3> QED BY <3>1, <3>3
  <2>9. \A q \in Readers : q # r /\ P!Waiting(q) => job'[op[q].job] = job[op[q].job]
    BY <1>3, <2>4, OwnRequests
  <2> QED BY <1>1, <1>4, <2>4, <2>6, <2>7, <2>8, <2>9, ReadersKeep
<1>6. CASE op[r].job # j
  <2>1. job' = [job EXCEPT ![j] = P!NewJob] /\ woken' = woken
    BY <1>3, <1>6 DEF P!WakeReader
  <2>2. P!NewJob \in P!Bridges /\ P!NewJob.st = "unused"
    <3>1. <<>> \in Seq(Nat)
      BY EmptySeq
    <3> QED BY <3>1 DEF P!NewJob, P!Bridges, P!Outputs, P!Pending
  <2>3. job' \in [Jobs -> P!Bridges] /\ job'[j] = P!NewJob /\ \A i \in Jobs : i # j => job'[i] = job[i]
    BY <1>2, <2>1, <2>2 DEF P!TypeOK
  <2>4. \A i \in Jobs : job'[i].st # "unused" => job'[i].for \in Readers
    BY <2>2, <2>3 DEF P!IInv
  <2>5. \A q \in Readers : P!Waiting(q) => job'[op[q].job] = job[op[q].job]
    BY <1>3, <1>6, <2>3, OwnRequests
  <2>6. woken' \in [Readers -> BOOLEAN]
    BY <1>2, <2>1 DEF P!TypeOK
  <2> QED BY <1>1, <1>4, <2>1, <2>3, <2>4, <2>5, <2>6, ReadersKeep
<1> QED BY <1>5, <1>6

LEMMA PinnedStep == P!IInv /\ [P!Next]_pinnedVars => P!IInv'
<1> SUFFICES ASSUME P!IInv, [P!Next]_pinnedVars PROVE P!IInv'
  OBVIOUS
<1>1. CASE UNCHANGED pinnedVars
  BY <1>1 DEF pinnedVars, P!IInv, P!TypeOK, P!NothingSkipped, P!ReaderOK, P!OwnJob, P!Handed, P!Waiting
<1>2. ASSUME NEW j \in Jobs, P!Store(j) \/ P!WakeReader(j) PROVE P!IInv'
  BY <1>2, StoreKeeps, WakeReaderKeeps
<1>3. ASSUME NEW r \in Readers, NEW kind \in P!Kinds, NEW len \in 0..MaxLen, P!Start(r, kind, len)
      PROVE  P!IInv'
  BY <1>3, StartKeeps
<1>4. ASSUME NEW r \in Readers,
             P!DropOp(r) \/ P!ReadMore(r) \/ P!FirstLook(r) \/ P!Register(r) \/ P!SecondLook(r)
      PROVE  P!IInv'
  BY <1>4, DropOpKeeps, ReadMoreKeeps, FirstLookKeeps, RegisterKeeps, SecondLookKeeps
<1> QED BY <1>1, <1>2, <1>3, <1>4 DEF P!Next

\* A reader that sleeps has its waker registered, so it is woken by the store.
LEMMA PinnedAnswered == P!IInv => P!OutputIsTaken /\ P!NothingSkipped
<1> SUFFICES ASSUME P!IInv PROVE P!OutputIsTaken
  BY DEF P!IInv
<1>1. ASSUME NEW r \in Readers, P!Waiting(r), place[r] = "idle", job[op[r].job].st = "finished"
      PROVE  woken[r]
  BY <1>1, OwnRequests DEF P!OwnJob
<1> QED BY <1>1 DEF P!OutputIsTaken

(***************************************************************************)
(* Timers: the tokens of a browser's sleeps.                               *)
(***************************************************************************)

\* A token counter that has not gone round hands out what it counts.
LEMMA NextToken ==
  ASSUME T!IInv
  PROVE  /\ next \in T!Tokens /\ next \notin registry /\ T!FreshToken = next
         /\ (next + 1) % TokenSpace \in 0..(TokenSpace - 1)
         /\ (next + 1) % TokenSpace # 0 => (next + 1) % TokenSpace = next + 1
<1> DEFINE steps(t) == (t - next) % TokenSpace
<1>1. TokenSpace \in Nat \ {0} /\ next \in Nat /\ next < TokenSpace /\ next # 0
  BY HostAssumption DEF T!IInv, T!TypeOK
<1>2. next \in T!Tokens /\ next \notin registry
  BY <1>1 DEF T!IInv, T!Tokens
<1>3. \A t \in T!Tokens \ registry : steps(t) \in 0..(TokenSpace - 1)
  BY <1>1 DEF T!Tokens
<1>4. steps(next) = 0
  <2>1. next - next = 0 /\ 0 % TokenSpace = 0
    BY <1>1
  <2> QED BY <2>1
<1>5. T!FreshToken = CHOOSE t \in T!Tokens \ registry : \A u \in T!Tokens \ registry : steps(t) <= steps(u)
  BY DEF T!FreshToken
<1>6. T!FreshToken \in T!Tokens \ registry /\ steps(T!FreshToken) <= steps(next)
  <2> HIDE DEF steps
  <2>1. \A u \in T!Tokens \ registry : steps(next) <= steps(u)
    BY <1>3, <1>4
  <2> QED BY <1>2, <1>5, <2>1
<1>7. T!FreshToken = next
  <2>1. PICK t \in T!Tokens : t = T!FreshToken
    BY <1>6
  <2>2. t \in 1..(TokenSpace - 1) /\ steps(t) \in 0..(TokenSpace - 1) /\ steps(t) <= 0
    BY <1>3, <1>4, <1>6, <2>1 DEF T!Tokens
  <2>3. (t - next) % TokenSpace = 0 /\ t - next < TokenSpace /\ -TokenSpace < t - next
        /\ t - next \in Int
    BY <1>1, <2>2
  <2>4. \A a \in Int : a < TokenSpace /\ -TokenSpace < a /\ a % TokenSpace = 0 => a = 0
    BY <1>1
  <2>5. t - next = 0
    BY <2>3, <2>4
  <2> QED BY <1>1, <2>1, <2>2, <2>5
<1>8. \A a \in 0..TokenSpace : a % TokenSpace = IF a = TokenSpace THEN 0 ELSE a
  BY <1>1
<1> QED BY <1>1, <1>2, <1>7, <1>8

\* A token is arming when an arm message for it is on its way.
LEMMA ArmingSent ==
  ASSUME T!TypeOK
  PROVE  \A t : T!Arming(t) <=> \E m \in T!Messages : T!Sent(m) /\ m.do = "arm" /\ m.t = t
<1>1. \A w \in Proxies : \A i \in 1..Len(post[w]) : post[w][i] \in T!Messages
  BY DEF T!TypeOK
<1> QED BY <1>1 DEF T!Arming, T!Sent

LEMMA ArmingSentNext ==
  ASSUME post' \in [Proxies -> Seq(T!Messages)]
  PROVE  \A t : T!Arming(t)' <=> \E m \in T!Messages : T!Sent(m)' /\ m.do = "arm" /\ m.t = t
<1>1. \A w \in Proxies : \A i \in 1..Len(post'[w]) : post'[w][i] \in T!Messages
  OBVIOUS
<1> QED BY <1>1 DEF T!Arming, T!Sent

\* The first message of a worker leaves its mail.
LEMMA MailDelivered ==
  ASSUME T!TypeOK, T!ArmedOnce, NEW w \in Proxies, post[w] # <<>>,
         post' = [post EXCEPT ![w] = Tail(@)], NEW m, m = Head(post[w])
  PROVE  /\ post' \in [Proxies -> Seq(T!Messages)]
         /\ m \in T!Messages /\ T!Sent(m)
         /\ \A x \in T!Messages : T!Sent(x)' => T!Sent(x)
         /\ \A x \in T!Messages : T!Sent(x) => x = m \/ T!Sent(x)'
         /\ m.do = "arm" => \A x \in T!Messages : T!Sent(x)' /\ x.do = "arm" => x.t # m.t
         /\ T!ArmedOnce'
<1> HIDE DEF T!Messages
<1>1. PICK s \in Seq(T!Messages) : s = post[w] /\ s # <<>>
  BY DEF T!TypeOK
<1>2. PICK u : u = Tail(s)
  OBVIOUS
<1>3. /\ u \in Seq(T!Messages) /\ Len(s) \in Nat /\ Len(s) > 0 /\ Len(u) = Len(s) - 1
      /\ \A i \in 1..Len(u) : u[i] = s[i + 1]
      /\ m = s[1] /\ m \in T!Messages
  <2>1. Len(s) \in Nat /\ Len(s) # 0
    BY <1>1, EmptySeq
  <2>2. m = s[1] /\ m \in T!Messages
    BY <1>1, <2>1
  <2> QED BY <1>1, <1>2, <2>1, <2>2, HeadTailProperties
<1>4. /\ post' \in [Proxies -> Seq(T!Messages)] /\ post'[w] = u
      /\ \A v \in Proxies : v # w => post'[v] = post[v]
  BY <1>1, <1>2, <1>3 DEF T!TypeOK
<1>5. T!Sent(m)
  <2>1. 1 \in 1..Len(post[w]) /\ post[w][1] = m
    BY <1>1, <1>3
  <2> QED BY <2>1 DEF T!Sent
<1>6. ASSUME NEW x \in T!Messages, T!Sent(x)' PROVE T!Sent(x)
  <2>1. PICK v \in Proxies : \E i \in 1..Len(post'[v]) : post'[v][i] = x
    BY <1>6 DEF T!Sent
  <2>2. CASE v = w
    <3>1. PICK i \in 1..Len(u) : u[i] = x
      BY <1>4, <2>1, <2>2
    <3>2. i + 1 \in 1..Len(s) /\ s[i + 1] = x
      BY <1>3, <3>1
    <3> QED BY <1>1, <3>2 DEF T!Sent
  <2>3. CASE v # w
    BY <1>4, <2>1, <2>3 DEF T!Sent
  <2> QED BY <2>2, <2>3
<1>7. ASSUME NEW x \in T!Messages, T!Sent(x), x # m PROVE T!Sent(x)'
  <2>1. PICK v \in Proxies : \E i \in 1..Len(post[v]) : post[v][i] = x
    BY <1>7 DEF T!Sent
  <2>2. CASE v = w
    <3>1. PICK i \in 1..Len(s) : s[i] = x
      BY <1>1, <2>1, <2>2
    <3>2. i # 1
      BY <1>3, <1>7, <3>1
    <3>3. i - 1 \in 1..Len(u) /\ (i - 1) + 1 = i
      BY <1>3, <3>1, <3>2
    <3>4. u[i - 1] = x
      BY <1>3, <3>1, <3>3
    <3> QED BY <1>4, <3>3, <3>4 DEF T!Sent
  <2>3. CASE v # w
    BY <1>4, <2>1, <2>3 DEF T!Sent
  <2> QED BY <2>2, <2>3
<1>8. ASSUME m.do = "arm", NEW x \in T!Messages, T!Sent(x)', x.do = "arm" PROVE x.t # m.t
  <2>1. PICK v \in Proxies : \E i \in 1..Len(post'[v]) : post'[v][i] = x
    BY <1>8 DEF T!Sent
  <2>2. 1 \in 1..Len(post[w]) /\ post[w][1] = m
    BY <1>1, <1>3
  <2>3. CASE v = w
    <3>1. PICK i \in 1..Len(u) : u[i] = x
      BY <1>4, <2>1, <2>3
    <3>2. i + 1 \in 1..Len(post[w]) /\ post[w][i + 1] = x /\ i + 1 # 1
      BY <1>1, <1>3, <3>1
    <3> QED BY <1>8, <2>2, <3>2 DEF T!ArmedOnce
  <2>4. CASE v # w
    <3>1. PICK i \in 1..Len(post[v]) : post[v][i] = x
      BY <1>4, <2>1, <2>4
    <3> QED BY <1>8, <2>2, <2>4, <3>1 DEF T!ArmedOnce
  <2> QED BY <2>3, <2>4
<1>9. T!ArmedOnce'
  <2> DEFINE at(v, i) == IF v = w THEN i + 1 ELSE i
  <2>1. \A v \in Proxies : \A i \in 1..Len(post'[v]) :
           at(v, i) \in 1..Len(post[v]) /\ post'[v][i] = post[v][at(v, i)]
    <3> SUFFICES ASSUME NEW v \in Proxies, NEW i \in 1..Len(post'[v])
                 PROVE  at(v, i) \in 1..Len(post[v]) /\ post'[v][i] = post[v][at(v, i)]
      OBVIOUS
    <3>1. CASE v = w
      BY <1>1, <1>3, <1>4, <3>1
    <3>2. CASE v # w
      BY <1>4, <3>2
    <3> QED BY <3>1, <3>2
  <2>2. \A v \in Proxies : \A i, k \in Int : at(v, i) = at(v, k) => i = k
    OBVIOUS
  <2> HIDE DEF at
  <2> SUFFICES ASSUME NEW v \in Proxies, NEW y \in Proxies,
                      NEW i \in 1..Len(post'[v]), NEW k \in 1..Len(post'[y]),
                      post'[v][i].do = "arm", post'[y][k].do = "arm",
                      post'[v][i].t = post'[y][k].t
               PROVE  v = y /\ i = k
    BY DEF T!ArmedOnce
  <2>3. v = y /\ at(v, i) = at(y, k)
    BY <2>1 DEF T!ArmedOnce
  <2> QED BY <2>2, <2>3
<1> QED BY <1>3, <1>4, <1>5, <1>6, <1>7, <1>8, <1>9

\* Messages are posted behind those of the same worker; the first alone may arm.
LEMMA MailPosted ==
  ASSUME T!TypeOK, T!ArmedOnce, NEW r \in Proxies, NEW msgs \in Seq(T!Messages),
         post' = [post EXCEPT ![r] = @ \o msgs],
         \A i \in 1..Len(msgs) : msgs[i].do = "arm" => i = 1 /\ ~T!Arming(msgs[i].t)
  PROVE  /\ post' \in [Proxies -> Seq(T!Messages)]
         /\ \A x \in T!Messages : T!Sent(x) => T!Sent(x)'
         /\ \A i \in 1..Len(msgs) : T!Sent(msgs[i])'
         /\ \A x \in T!Messages : T!Sent(x)' => T!Sent(x) \/ \E i \in 1..Len(msgs) : x = msgs[i]
         /\ T!ArmedOnce'
<1> HIDE DEF T!Messages
<1>1. PICK s \in Seq(T!Messages) : s = post[r]
  BY DEF T!TypeOK
<1>2. PICK u : u = s \o msgs
  OBVIOUS
<1>3. /\ u \in Seq(T!Messages) /\ Len(s) \in Nat /\ Len(msgs) \in Nat /\ Len(u) = Len(s) + Len(msgs)
  BY <1>2, ConcatProperties
<1>4. /\ \A i \in 1..Len(s) : u[i] = s[i] /\ i \in 1..Len(u)
      /\ \A i \in 1..Len(msgs) : u[Len(s) + i] = msgs[i] /\ Len(s) + i \in 1..Len(u)
  BY <1>2, <1>3, ConcatProperties
<1>5. \A i \in 1..Len(u) : \/ i \in 1..Len(s) /\ u[i] = s[i]
                           \/ i - Len(s) \in 1..Len(msgs) /\ u[i] = msgs[i - Len(s)]
  <2> SUFFICES ASSUME NEW i \in 1..Len(u)
               PROVE  \/ i \in 1..Len(s) /\ u[i] = s[i]
                      \/ i - Len(s) \in 1..Len(msgs) /\ u[i] = msgs[i - Len(s)]
    OBVIOUS
  <2>1. CASE i <= Len(s)
    BY <1>3, <1>4, <2>1
  <2>2. CASE i > Len(s)
    <3>1. i - Len(s) \in 1..Len(msgs) /\ Len(s) + (i - Len(s)) = i
      BY <1>3, <2>2
    <3> QED BY <1>4, <3>1
  <2> QED BY <1>3, <2>1, <2>2
<1>6. /\ post' \in [Proxies -> Seq(T!Messages)] /\ post'[r] = u
      /\ \A v \in Proxies : v # r => post'[v] = post[v]
  BY <1>1, <1>2, <1>3 DEF T!TypeOK
<1>7. ASSUME NEW x \in T!Messages, T!Sent(x) PROVE T!Sent(x)'
  <2>1. PICK v \in Proxies : \E i \in 1..Len(post[v]) : post[v][i] = x
    BY <1>7 DEF T!Sent
  <2>2. \E i \in 1..Len(post'[v]) : post'[v][i] = x
    BY <1>1, <1>4, <1>6, <2>1
  <2> QED BY <2>2 DEF T!Sent
<1>8. ASSUME NEW i \in 1..Len(msgs) PROVE T!Sent(msgs[i])'
  BY <1>4, <1>6 DEF T!Sent
<1>9. ASSUME NEW x \in T!Messages, T!Sent(x)', ~T!Sent(x) PROVE \E i \in 1..Len(msgs) : x = msgs[i]
  <2>1. PICK v \in Proxies : \E i \in 1..Len(post'[v]) : post'[v][i] = x
    BY <1>9 DEF T!Sent
  <2>2. v = r
    BY <1>6, <1>9, <2>1 DEF T!Sent
  <2>3. PICK i \in 1..Len(u) : u[i] = x
    BY <1>6, <2>1, <2>2
  <2>4. ~(i \in 1..Len(s) /\ u[i] = s[i])
    BY <1>1, <1>9, <2>3 DEF T!Sent
  <2> QED BY <1>5, <2>3, <2>4
<1>10. T!ArmedOnce'
  <2> SUFFICES ASSUME NEW v \in Proxies, NEW y \in Proxies,
                      NEW i \in 1..Len(post'[v]), NEW k \in 1..Len(post'[y]),
                      post'[v][i].do = "arm", post'[y][k].do = "arm",
                      post'[v][i].t = post'[y][k].t
               PROVE  v = y /\ i = k
    BY DEF T!ArmedOnce
  <2> DEFINE Old(z, n) == n \in 1..Len(post[z]) /\ post'[z][n] = post[z][n]
             New(z, n) == z = r /\ n - Len(s) = 1 /\ post'[z][n] = msgs[1] /\ ~T!Arming(msgs[1].t)
  <2>1. ASSUME NEW z \in Proxies, NEW n \in 1..Len(post'[z]), post'[z][n].do = "arm"
        PROVE  Old(z, n) \/ New(z, n)
    <3>1. CASE z # r
      BY <1>6, <3>1
    <3>2. CASE z = r /\ n \in 1..Len(s) /\ u[n] = s[n]
      BY <1>1, <1>6, <3>2
    <3>3. CASE z = r /\ n - Len(s) \in 1..Len(msgs) /\ u[n] = msgs[n - Len(s)]
      BY <1>6, <2>1, <3>3
    <3> QED BY <1>5, <1>6, <3>1, <3>2, <3>3
  <2>2. ASSUME NEW z \in Proxies, NEW n \in 1..Len(post'[z]), Old(z, n), post'[z][n].do = "arm"
        PROVE  T!Arming(post'[z][n].t)
    BY <2>2 DEF T!Arming
  <2>3. CASE Old(v, i) /\ Old(y, k)
    BY <2>3 DEF T!ArmedOnce
  <2>4. CASE New(v, i) /\ New(y, k)
    BY <1>3, <1>6, <2>4
  <2>5. CASE (Old(v, i) /\ New(y, k)) \/ (New(v, i) /\ Old(y, k))
    BY <2>2, <2>5
  <2> QED BY <2>1, <2>3, <2>4, <2>5
<1> QED BY <1>6, <1>7, <1>8, <1>9, <1>10

\* The root's map of deadlines and the registry, for the messages on their way.
MapOK(d, g) ==
  /\ d \in [T!Tokens -> 0..T!Never] /\ g \subseteq T!Tokens
  /\ \A t \in T!Tokens : /\ t \in g <=> T!Arming(t) \/ d[t] # T!Never
                         /\ T!Arming(t) => d[t] = T!Never

LEMMA NeverIsLate == T!Never \in Nat /\ MaxTimeout \in Nat /\ \A k \in 0..MaxTimeout : k \in 0..T!Never /\ k # T!Never
  BY HostAssumption DEF T!Never

\* Cancelling a token takes it from the map and the registry, or does nothing.
LEMMA CancelExact ==
  ASSUME NEW d, NEW g, MapOK(d, g), NEW m, m.t \in T!Tokens,
         NEW h, h = T!CancelLocal([deadline |-> d, registry |-> g], m)
  PROVE  /\ MapOK(h.deadline, h.registry) /\ h.registry \subseteq g /\ g \ {m.t} \subseteq h.registry
         /\ \A t \in T!Tokens : /\ h.deadline[t] = d[t] \/ h.deadline[t] = T!Never
                                /\ t # m.t => h.deadline[t] = d[t]
<1>1. d \in [T!Tokens -> 0..T!Never] /\ T!Never \in 0..T!Never
  BY NeverIsLate DEF MapOK
<1>2. CASE d[m.t] = T!Never
  <2>1. h = [deadline |-> d, registry |-> g]
    BY <1>2 DEF T!CancelLocal
  <2>2. h.deadline = d /\ h.registry = g
    BY <2>1
  <2> QED BY <2>2
<1>3. CASE d[m.t] # T!Never
  <2>1. PICK e : e = [d EXCEPT ![m.t] = T!Never]
    OBVIOUS
  <2>2. h = [deadline |-> e, registry |-> g \ {m.t}]
    BY <1>3, <2>1 DEF T!CancelLocal
  <2>3. h.deadline = e /\ h.registry = g \ {m.t}
    BY <2>2
  <2>4. /\ e \in [T!Tokens -> 0..T!Never] /\ e[m.t] = T!Never
        /\ \A t \in T!Tokens : t # m.t => e[t] = d[t]
    BY <1>1, <2>1
  <2>5. ~T!Arming(m.t)
    BY <1>3 DEF MapOK
  <2>6. MapOK(e, g \ {m.t})
    BY <2>4, <2>5 DEF MapOK
  <2> QED BY <2>3, <2>4, <2>6
<1> QED BY <1>2, <1>3

\* Arming a token enters its delay.
LEMMA ArmExact ==
  ASSUME NEW d, d \in [T!Tokens -> 0..T!Never], NEW g, NEW m, m.t \in T!Tokens,
         m.delay \in 0..MaxTimeout,
         NEW h, h = T!ArmLocal([deadline |-> d, registry |-> g], m)
  PROVE  /\ h.registry = g /\ h.deadline \in [T!Tokens -> 0..T!Never]
         /\ h.deadline[m.t] = m.delay
         /\ \A t \in T!Tokens : t # m.t => h.deadline[t] = d[t]
<1>1. PICK e : e = [d EXCEPT ![m.t] = m.delay]
  OBVIOUS
<1>2. h = [deadline |-> e, registry |-> g]
  BY <1>1 DEF T!ArmLocal
<1>3. h.deadline = e /\ h.registry = g
  BY <1>2
<1> QED BY <1>1, <1>3, NeverIsLate

\* What a step may do to the map, the registry and the mail without hurting a
\* sleep that waits for a token other than `gone`.
LEMMA SleepsStay ==
  ASSUME T!IInv, T!TypeOK', next' \in Nat, next' >= next,
         NEW f \in Sleeps, sleep'[f] = sleep[f],
         sleep[f].st = "waiting" => sleep[f].token \in registry',
         \A x \in T!Messages : T!Sent(x)' => T!Sent(x) \/ x.t # sleep[f].token
                                             \/ sleep[f].st # "waiting",
         sleep[f].st = "waiting" =>
            \/ deadline'[sleep[f].token] \in {deadline[sleep[f].token], T!Never}
            \/ T!InTime(sleep[f], deadline'[sleep[f].token])
  PROVE  T!SleepOK(f)'
<1>1. T!SleepOK(f) /\ sleep[f] \in T!Entries /\ next \in Nat
  BY HostAssumption DEF T!IInv, T!TypeOK
<1>2. PICK s : s = sleep[f]
  OBVIOUS
<1>3. s.st # "unmade" => s.token \in T!Tokens /\ s.token < next'
  <2> SUFFICES ASSUME s.st # "unmade" PROVE s.token \in T!Tokens /\ s.token < next'
    OBVIOUS
  <2>1. s.token \in T!Tokens /\ s.token < next
    BY <1>1, <1>2 DEF T!SleepOK
  <2>2. s.token \in Int
    BY <2>1, HostAssumption DEF T!Tokens
  <2> QED BY <1>1, <2>1, <2>2
<1>4. s.st = "waiting" =>
         \A m \in T!Messages : T!Sent(m)' /\ m.t = s.token => m.do = "arm" /\ T!InTime(s, m.delay)
  BY <1>1, <1>2 DEF T!SleepOK
<1>5. s.st = "waiting" =>
         (deadline'[s.token] # T!Never => T!InTime(s, deadline'[s.token]))
  BY <1>1, <1>2 DEF T!SleepOK
<1>6. sleep'[f] = s
  BY <1>2
<1> QED BY <1>1, <1>2, <1>3, <1>4, <1>5, <1>6 DEF T!SleepOK, T!InTime

LEMMA TimersInit == T!Init => T!IInv
<1> SUFFICES ASSUME T!Init PROVE T!IInv
  OBVIOUS
<1>1. <<>> \in Seq(T!Messages) /\ Len(<<>>) = 0
  BY EmptySeq
<1>2. /\ post = [w \in Proxies |-> <<>>] /\ registry = {} /\ next = 1
      /\ deadline = [t \in T!Tokens |-> T!Never] /\ sleep = [f \in Sleeps |-> T!Unmade]
  BY DEF T!Init
<1>3. T!Unmade \in T!Entries /\ T!Unmade.st = "unmade"
  BY DEF T!Unmade, T!Entries, T!NoToken
<1>4. T!TypeOK
  <2>1. deadline \in [T!Tokens -> 0..T!Never]
    BY <1>2, NeverIsLate
  <2>2. next \in 0..(TokenSpace - 1)
    BY <1>2, HostAssumption
  <2>3. post \in [Proxies -> Seq(T!Messages)] /\ sleep \in [Sleeps -> T!Entries]
    BY <1>1, <1>2, <1>3
  <2> QED BY <1>2, <2>1, <2>2, <2>3 DEF T!TypeOK
<1>5. \A w \in Proxies : 1..Len(post[w]) = {}
  BY <1>1, <1>2
<1>6. (\A t : ~T!Arming(t)) /\ (\A m : ~T!Sent(m)) /\ T!ArmedOnce
  BY <1>5 DEF T!Arming, T!Sent, T!ArmedOnce
<1>7. \A t \in T!Tokens : T!Registered(t) /\ t \notin registry
  BY <1>2, <1>6 DEF T!Registered
<1>8. \A f \in Sleeps : sleep[f].st = "unmade" /\ T!SleepOK(f)
  BY <1>2, <1>3 DEF T!SleepOK
<1> QED BY <1>2, <1>4, <1>6, <1>7, <1>8 DEF T!IInv

\* The root handles one message of a worker.
LEMMA DeliverKeeps ==
  ASSUME T!IInv, NEW w \in Proxies, T!Deliver(w)
  PROVE  T!IInv'
<1>0. PICK m : m = Head(post[w])
  OBVIOUS
<1> DEFINE h == T!Handle([deadline |-> deadline, registry |-> registry], m)
<1>1. /\ post[w] # <<>> /\ post' = [post EXCEPT ![w] = Tail(@)] /\ UNCHANGED <<next, sleep>>
  BY DEF T!Deliver
<1>2. T!TypeOK /\ T!ArmedOnce
  BY DEF T!IInv
<1>3. /\ post' \in [Proxies -> Seq(T!Messages)]
      /\ m \in T!Messages /\ T!Sent(m)
      /\ \A x \in T!Messages : T!Sent(x)' => T!Sent(x)
      /\ \A x \in T!Messages : T!Sent(x) => x = m \/ T!Sent(x)'
      /\ m.do = "arm" => \A x \in T!Messages : T!Sent(x)' /\ x.do = "arm" => x.t # m.t
      /\ T!ArmedOnce'
  BY <1>1, <1>2, <1>0, MailDelivered
<1>4. deadline' = h.deadline /\ registry' = h.registry
  <2>1. <<m>> # <<>> /\ Head(<<m>>) = m /\ Len(<<m>>) = 1
    OBVIOUS
  <2> QED BY <1>0, <2>1 DEF T!Deliver, T!Handles
<1>5. m.t \in T!Tokens /\ m.do \in {"arm", "cancel"} /\ m.delay \in 0..MaxTimeout
  BY <1>3 DEF T!Messages
<1>6. MapOK(deadline, registry)
  BY <1>2 DEF MapOK, T!IInv, T!TypeOK, T!Registered
<1>7. \A t : T!Arming(t) <=> \E x \in T!Messages : T!Sent(x) /\ x.do = "arm" /\ x.t = t
  BY <1>2, ArmingSent
<1>8. CASE m.do = "arm"
  <2>1. h = T!ArmLocal([deadline |-> deadline, registry |-> registry], m)
    BY <1>8 DEF T!Handle
  <2>2. /\ registry' = registry /\ deadline' \in [T!Tokens -> 0..T!Never]
        /\ deadline'[m.t] = m.delay
        /\ \A t \in T!Tokens : t # m.t => deadline'[t] = deadline[t]
    BY <1>2, <1>4, <1>5, <2>1, ArmExact DEF T!TypeOK
  <2>3. T!TypeOK'
    BY <1>1, <1>2, <1>3, <2>2 DEF T!TypeOK
  <2>4. \A t : T!Arming(t)' <=> \E x \in T!Messages : T!Sent(x)' /\ x.do = "arm" /\ x.t = t
    BY <1>3, ArmingSentNext
  <2>5. T!Arming(m.t) /\ ~T!Arming(m.t)'
    <3>1. T!Arming(m.t)
      BY <1>3, <1>7, <1>8
    <3>2. ~T!Arming(m.t)'
      <4> SUFFICES ASSUME T!Arming(m.t)' PROVE FALSE
        OBVIOUS
      <4>1. PICK x \in T!Messages : T!Sent(x)' /\ x.do = "arm" /\ x.t = m.t
        BY <2>4
      <4> QED BY <1>3, <1>8, <4>1
    <3> QED BY <3>1, <3>2
  <2>6. \A t \in T!Tokens : t # m.t => (T!Arming(t)' <=> T!Arming(t))
    BY <1>3, <1>7, <2>4
  <2>7. \A t \in T!Tokens : T!Registered(t)'
    <3> SUFFICES ASSUME NEW t \in T!Tokens PROVE T!Registered(t)'
      OBVIOUS
    <3>1. T!Registered(t)
      BY DEF T!IInv
    <3>2. CASE t = m.t
      <4>1. deadline'[t] # T!Never
        BY <1>5, <2>2, <3>2, NeverIsLate
      <4>2. T!Arming(t) /\ ~T!Arming(t)'
        BY <2>5, <3>2
      <4>3. t \in registry'
        BY <2>2, <3>1, <4>2 DEF T!Registered
      <4> QED BY <4>1, <4>2, <4>3 DEF T!Registered
    <3>3. CASE t # m.t
      BY <2>2, <2>6, <3>1, <3>3 DEF T!Registered
    <3> QED BY <3>2, <3>3
  <2>8. ASSUME NEW f \in Sleeps PROVE T!SleepOK(f)'
    <3>1. T!SleepOK(f)
      BY DEF T!IInv
    <3>2. sleep[f].st = "waiting" /\ sleep[f].token = m.t => T!InTime(sleep[f], m.delay)
      BY <1>3, <3>1 DEF T!SleepOK
    <3>3. sleep[f].st = "waiting" => sleep[f].token \in registry /\ sleep[f].token \in T!Tokens
      BY <3>1 DEF T!SleepOK
    <3>4. sleep[f].st = "waiting" =>
             \/ deadline'[sleep[f].token] \in {deadline[sleep[f].token], T!Never}
             \/ T!InTime(sleep[f], deadline'[sleep[f].token])
      BY <2>2, <3>2, <3>3
    <3>5. next' = next /\ next \in Nat /\ sleep' = sleep
      BY <1>1, <1>2, HostAssumption DEF T!TypeOK
    <3> QED BY <1>3, <2>2, <2>3, <3>3, <3>4, <3>5, SleepsStay
  <2> QED BY <1>1, <1>3, <2>2, <2>3, <2>7, <2>8 DEF T!IInv
<1>9. CASE m.do = "cancel"
  <2>1. h = T!CancelLocal([deadline |-> deadline, registry |-> registry], m)
    BY <1>9 DEF T!Handle
  <2> HIDE DEF h
  <2>2. /\ MapOK(deadline', registry') /\ registry' \subseteq registry
        /\ registry \ {m.t} \subseteq registry'
        /\ \A t \in T!Tokens : /\ deadline'[t] = deadline[t] \/ deadline'[t] = T!Never
                               /\ t # m.t => deadline'[t] = deadline[t]
    BY <1>4, <1>5, <1>6, <2>1, CancelExact
  <2>3. T!TypeOK'
    BY <1>1, <1>2, <1>3, <2>2 DEF T!TypeOK, MapOK
  <2>4. \A t : T!Arming(t)' <=> \E x \in T!Messages : T!Sent(x)' /\ x.do = "arm" /\ x.t = t
    BY <1>3, ArmingSentNext
  <2>5. \A t : T!Arming(t)' <=> T!Arming(t)
    BY <1>3, <1>7, <1>9, <2>4
  <2>6. \A t \in T!Tokens : T!Registered(t)'
    BY <2>2, <2>5 DEF MapOK, T!Registered
  <2>7. ASSUME NEW f \in Sleeps PROVE T!SleepOK(f)'
    <3>1. T!SleepOK(f)
      BY DEF T!IInv
    <3>2. sleep[f].st = "waiting" =>
             /\ sleep[f].token # m.t /\ sleep[f].token \in registry /\ sleep[f].token \in T!Tokens
      BY <1>3, <1>9, <3>1 DEF T!SleepOK
    <3>3. next' = next /\ next \in Nat /\ sleep' = sleep
      BY <1>1, <1>2, HostAssumption DEF T!TypeOK
    <3> QED BY <1>3, <2>2, <2>3, <3>2, <3>3, SleepsStay
  <2> QED BY <1>1, <1>3, <2>2, <2>3, <2>6, <2>7 DEF T!IInv
<1> QED BY <1>5, <1>8, <1>9

\* The timeout fires: what is due is taken from the map and woken.
LEMMA DrainKeeps ==
  ASSUME T!IInv, T!Drain
  PROVE  T!IInv'
<1> DEFINE ready == {t \in T!Tokens : deadline[t] = 0}
<1>1. /\ deadline' = [t \in T!Tokens |-> IF t \in ready THEN T!Never ELSE deadline[t]]
      /\ registry' = registry \ ready /\ next' = next /\ post' = post
      /\ sleep' = [f \in Sleeps |->
            IF sleep[f].st = "waiting" /\ sleep[f].token \in ready \cap registry
            THEN [sleep[f] EXCEPT !.st = "woken"] ELSE sleep[f]]
  BY DEF T!Drain
<1>2. T!TypeOK /\ deadline \in [T!Tokens -> 0..T!Never]
  BY DEF T!IInv, T!TypeOK
<1>3. /\ deadline' \in [T!Tokens -> 0..T!Never]
      /\ \A t \in T!Tokens : deadline'[t] = IF t \in ready THEN T!Never ELSE deadline[t]
  BY <1>1, <1>2, NeverIsLate
<1>4. \A t \in ready : t \in registry /\ ~T!Arming(t) /\ deadline[t] = 0
  <2>1. 0 # T!Never
    BY HostAssumption DEF T!Never
  <2> QED BY <2>1 DEF T!IInv, T!Registered
<1>5. \A f \in Sleeps : \/ sleep'[f] = sleep[f] /\ ~(sleep[f].st = "waiting" /\ sleep[f].token \in ready)
                        \/ /\ sleep[f].st = "waiting" /\ sleep[f].token \in ready
                           /\ sleep'[f] = [sleep[f] EXCEPT !.st = "woken"]
  BY <1>1, <1>4
<1> HIDE DEF ready
<1>6. \A f \in Sleeps : /\ sleep'[f] \in T!Entries
                        /\ sleep'[f].token = sleep[f].token
                        /\ sleep'[f].st = "unmade" <=> sleep[f].st = "unmade"
  <2> SUFFICES ASSUME NEW f \in Sleeps
               PROVE  /\ sleep'[f] \in T!Entries
                      /\ sleep'[f].token = sleep[f].token
                      /\ sleep'[f].st = "unmade" <=> sleep[f].st = "unmade"
    OBVIOUS
  <2>1. sleep[f] \in T!Entries
    BY <1>2 DEF T!TypeOK
  <2>2. PICK s : s = [sleep[f] EXCEPT !.st = "woken"]
    OBVIOUS
  <2>3. s \in T!Entries /\ s.token = sleep[f].token /\ s.st = "woken"
    BY <2>1, <2>2 DEF T!Entries
  <2> QED BY <1>5, <2>1, <2>2, <2>3
<1>7. sleep' \in [Sleeps -> T!Entries]
  <2>1. DOMAIN sleep' = Sleeps /\ sleep' = [f \in Sleeps |-> sleep'[f]]
    BY <1>1
  <2> QED BY <1>6, <2>1
<1>8. T!TypeOK'
  BY <1>1, <1>2, <1>3, <1>7 DEF T!TypeOK
<1>9. /\ \A t : T!Arming(t)' <=> T!Arming(t)
      /\ \A m : T!Sent(m)' <=> T!Sent(m)
      /\ T!ArmedOnce'
  BY <1>1 DEF T!Arming, T!Sent, T!ArmedOnce, T!IInv
<1>10. \A t \in T!Tokens : T!Registered(t)'
  BY <1>1, <1>3, <1>4, <1>9 DEF T!IInv, T!Registered
<1>11. ASSUME NEW f \in Sleeps PROVE T!SleepOK(f)'
  <2>1. T!SleepOK(f) /\ sleep[f] \in T!Entries
    BY <1>2 DEF T!IInv, T!TypeOK
  <2>2. CASE sleep'[f] = sleep[f] /\ ~(sleep[f].st = "waiting" /\ sleep[f].token \in ready)
    <3>1. next' = next /\ next \in Nat
      BY <1>1, <1>2, HostAssumption DEF T!TypeOK
    <3>2. sleep[f].st = "waiting" => /\ sleep[f].token \in registry' /\ sleep[f].token \in T!Tokens
                                     /\ deadline'[sleep[f].token] = deadline[sleep[f].token]
      BY <1>1, <1>3, <2>1, <2>2 DEF T!SleepOK
    <3> QED BY <1>8, <1>9, <2>2, <3>1, <3>2, SleepsStay
  <2>3. CASE /\ sleep[f].st = "waiting" /\ sleep[f].token \in ready
             /\ sleep'[f] = [sleep[f] EXCEPT !.st = "woken"]
    <3>1. PICK s : s = [sleep[f] EXCEPT !.st = "woken"]
      OBVIOUS
    <3>2. /\ s.st = "woken" /\ s.token = sleep[f].token /\ s.toGo = sleep[f].toGo
          /\ s.remaining = sleep[f].remaining
      BY <2>1, <3>1 DEF T!Entries
    <3>3. s.token \in T!Tokens /\ s.token < next /\ T!InTime(sleep[f], 0)
      <4>1. 0 # T!Never
        BY HostAssumption DEF T!Never
      <4> QED BY <1>4, <2>1, <2>3, <3>2, <4>1 DEF T!SleepOK
    <3>4. T!InTime(s, 0)
      BY <3>2, <3>3 DEF T!InTime
    <3>5. sleep'[f] = s /\ next' = next
      BY <1>1, <2>3, <3>1
    <3> QED BY <3>2, <3>3, <3>4, <3>5 DEF T!SleepOK, T!InTime
  <2> QED BY <1>5, <2>2, <2>3
<1>12. \A t \in T!Tokens : t \in registry' => t < next'
  BY <1>1 DEF T!IInv
<1>13. \A m \in T!Messages : T!Sent(m)' => m.t < next'
  BY <1>1, <1>9 DEF T!IInv
<1>14. \A f, g \in Sleeps : f # g /\ sleep'[f].st # "unmade" /\ sleep'[g].st # "unmade"
                            => sleep'[f].token # sleep'[g].token
  BY <1>6 DEF T!IInv
<1>15. next' # 0
  BY <1>1 DEF T!IInv
<1> QED BY <1>8, <1>9, <1>10, <1>11, <1>12, <1>13, <1>14, <1>15 DEF T!IInv

\* A request to the root arms one fresh token or none, and then cancels others.
AskOK(reg, msgs) ==
  /\ msgs \in Seq(T!Messages) /\ Len(msgs) \in {1, 2}
  /\ \/ msgs[1].do = "arm" /\ msgs[1].t \notin registry /\ reg = registry \cup {msgs[1].t}
     \/ msgs[1].do = "cancel" /\ reg = registry
  /\ Len(msgs) = 2 => msgs[2].do = "cancel"

\* What a request does, whether the root does it at once or a worker posts it.
AskDone(reg, msgs) ==
  /\ deadline' \in [T!Tokens -> 0..T!Never] /\ post' \in [Proxies -> Seq(T!Messages)]
  /\ registry' \subseteq reg
  /\ \A t \in reg : (\A i \in 1..Len(msgs) : msgs[i].do = "cancel" => msgs[i].t # t) => t \in registry'
  /\ T!ArmedOnce' /\ \A t \in T!Tokens : T!Registered(t)'
  /\ \A x \in T!Messages : T!Sent(x)' => T!Sent(x) \/ \E i \in 1..Len(msgs) : x = msgs[i]
  /\ \A t \in T!Tokens : \/ deadline'[t] \in {deadline[t], T!Never}
                         \/ t = msgs[1].t /\ msgs[1].do = "arm" /\ deadline'[t] = msgs[1].delay

LEMMA AskAtRoot ==
  ASSUME T!IInv, NEW reg, NEW msgs, AskOK(reg, msgs), T!Ask(Root, reg, msgs)
  PROVE  AskDone(reg, msgs)
<1>1. T!TypeOK /\ post' = post
  BY DEF T!IInv, T!Ask
<1>2. T!Handles([deadline |-> deadline, registry |-> reg], msgs)
  BY DEF T!Ask
<1>3. PICK a, b : a = msgs[1] /\ b = msgs[2]
  OBVIOUS
<1>4. /\ msgs \in Seq(T!Messages) /\ Len(msgs) \in {1, 2} /\ Head(msgs) = a
      /\ \A i \in 1..Len(msgs) : msgs[i] \in T!Messages
  BY <1>3 DEF AskOK
<1>5. a \in T!Messages /\ (Len(msgs) = 2 => b \in T!Messages /\ b.do = "cancel")
  BY <1>3, <1>4 DEF AskOK
<1>6. a.t \in T!Tokens /\ a.delay \in 0..MaxTimeout /\ (Len(msgs) = 2 => b.t \in T!Tokens)
  BY <1>5 DEF T!Messages
<1>7. PICK first : first = T!Handle([deadline |-> deadline, registry |-> reg], a)
  OBVIOUS
<1>8. PICK after : after = IF Len(msgs) = 1 THEN first ELSE T!Handle(first, b)
  OBVIOUS
<1>9. deadline' = after.deadline /\ registry' = after.registry
  BY <1>2, <1>3, <1>4, <1>7, <1>8 DEF T!Handles
<1>10. MapOK(deadline, registry)
  BY <1>1 DEF MapOK, T!IInv, T!TypeOK, T!Registered
<1>11. PICK d, g : d = first.deadline /\ g = first.registry
  OBVIOUS
<1>12. /\ MapOK(d, g) /\ g \subseteq reg
       /\ \A t \in reg : (a.do = "cancel" => a.t # t) => t \in g
       /\ \A t \in T!Tokens : \/ d[t] \in {deadline[t], T!Never}
                              \/ t = a.t /\ a.do = "arm" /\ d[t] = a.delay
       /\ first = [deadline |-> d, registry |-> g]
  <2>1. CASE a.do = "arm"
    <3>1. first = T!ArmLocal([deadline |-> deadline, registry |-> reg], a)
      BY <1>7, <2>1 DEF T!Handle
    <3>2. /\ g = reg /\ d \in [T!Tokens -> 0..T!Never] /\ d[a.t] = a.delay
          /\ \A t \in T!Tokens : t # a.t => d[t] = deadline[t]
      BY <1>1, <1>6, <1>11, <3>1, ArmExact DEF T!TypeOK
    <3>3. a.t \notin registry /\ reg = registry \cup {a.t}
      BY <1>3, <2>1 DEF AskOK
    <3>4. ~T!Arming(a.t) /\ a.delay # T!Never
      BY <1>6, <1>10, <3>3, NeverIsLate DEF MapOK
    <3>5. MapOK(d, g)
      BY <1>6, <1>10, <3>2, <3>3, <3>4 DEF MapOK
    <3>6. first = [deadline |-> d, registry |-> g]
      <4>1. first = [deadline |-> [deadline EXCEPT ![a.t] = a.delay], registry |-> reg]
        BY <3>1 DEF T!ArmLocal
      <4> QED BY <1>11, <4>1
    <3> QED BY <2>1, <3>2, <3>5, <3>6
  <2>2. CASE a.do = "cancel"
    <3>1. reg = registry /\ first = T!CancelLocal([deadline |-> deadline, registry |-> reg], a)
      BY <1>3, <1>7, <2>2 DEF T!Handle, AskOK
    <3>2. /\ MapOK(d, g) /\ g \subseteq reg /\ reg \ {a.t} \subseteq g
          /\ \A t \in T!Tokens : d[t] = deadline[t] \/ d[t] = T!Never
      BY <1>6, <1>10, <1>11, <3>1, CancelExact
    <3>3. first = [deadline |-> d, registry |-> g]
      <4>1. CASE deadline[a.t] = T!Never
        <5>1. first = [deadline |-> deadline, registry |-> reg]
          BY <3>1, <4>1 DEF T!CancelLocal
        <5> QED BY <1>11, <5>1
      <4>2. CASE deadline[a.t] # T!Never
        <5>1. first = [deadline |-> [deadline EXCEPT ![a.t] = T!Never], registry |-> reg \ {a.t}]
          BY <3>1, <4>2 DEF T!CancelLocal
        <5> QED BY <1>11, <5>1
      <4> QED BY <4>1, <4>2
    <3> QED BY <2>2, <3>2, <3>3
  <2> QED BY <2>1, <2>2, <1>3 DEF AskOK
<1>13. /\ MapOK(deadline', registry') /\ registry' \subseteq g
       /\ \A t \in g : (Len(msgs) = 2 => b.t # t) => t \in registry'
       /\ \A t \in T!Tokens : deadline'[t] \in {d[t], T!Never}
  <2>1. CASE Len(msgs) = 1
    <3>1. deadline' = d /\ registry' = g
      BY <1>8, <1>9, <1>11, <2>1
    <3> QED BY <1>12, <2>1, <3>1
  <2>2. CASE Len(msgs) = 2
    <3>1. after = T!CancelLocal([deadline |-> d, registry |-> g], b)
      <4>1. after = T!Handle(first, b) /\ b.do = "cancel"
        BY <1>5, <1>8, <2>2
      <4> QED BY <1>12, <4>1 DEF T!Handle
    <3>2. b.t \in T!Tokens
      BY <1>6, <2>2
    <3>3. /\ MapOK(after.deadline, after.registry) /\ after.registry \subseteq g
          /\ g \ {b.t} \subseteq after.registry
          /\ \A t \in T!Tokens : after.deadline[t] = d[t] \/ after.deadline[t] = T!Never
      BY <1>12, <3>1, <3>2, CancelExact
    <3> QED BY <1>9, <2>2, <3>3
  <2> QED BY <1>4, <2>1, <2>2
<1>14. /\ \A t : T!Arming(t)' <=> T!Arming(t)
       /\ \A m : T!Sent(m)' <=> T!Sent(m)
       /\ T!ArmedOnce'
  BY <1>1 DEF T!Arming, T!Sent, T!ArmedOnce, T!IInv
<1>15. \A t \in T!Tokens : T!Registered(t)'
  BY <1>13, <1>14 DEF MapOK, T!Registered
<1>16. \A t \in reg : (\A i \in 1..Len(msgs) : msgs[i].do = "cancel" => msgs[i].t # t) => t \in registry'
  <2> SUFFICES ASSUME NEW t \in reg, \A i \in 1..Len(msgs) : msgs[i].do = "cancel" => msgs[i].t # t
               PROVE  t \in registry'
    OBVIOUS
  <2>1. a.do = "cancel" => a.t # t
    BY <1>3, <1>4
  <2>2. Len(msgs) = 2 => b.t # t
    BY <1>3, <1>4, <1>5
  <2> QED BY <1>12, <1>13, <2>1, <2>2
<1>17. \A t \in T!Tokens : \/ deadline'[t] \in {deadline[t], T!Never}
                           \/ t = msgs[1].t /\ msgs[1].do = "arm" /\ deadline'[t] = msgs[1].delay
  BY <1>3, <1>12, <1>13
<1>18. deadline' \in [T!Tokens -> 0..T!Never] /\ post' \in [Proxies -> Seq(T!Messages)] /\ registry' \subseteq reg
  BY <1>1, <1>12, <1>13 DEF MapOK, T!TypeOK
<1> QED BY <1>14, <1>15, <1>16, <1>17, <1>18 DEF AskDone

LEMMA AskFromWorker ==
  ASSUME T!IInv, NEW r \in Proxies, NEW reg, NEW msgs, AskOK(reg, msgs), T!Ask(r, reg, msgs)
  PROVE  AskDone(reg, msgs)
<1>1. T!TypeOK /\ T!ArmedOnce /\ r # Root
  BY HostAssumption DEF T!IInv
<1>2. post' = [post EXCEPT ![r] = @ \o msgs] /\ registry' = reg /\ deadline' = deadline
  BY <1>1 DEF T!Ask
<1>3. PICK a : a = msgs[1]
  OBVIOUS
<1>4. /\ msgs \in Seq(T!Messages) /\ Len(msgs) \in {1, 2} /\ a \in T!Messages
      /\ \A i \in 1..Len(msgs) : msgs[i] \in T!Messages /\ (i # 1 => msgs[i].do = "cancel")
  <2>1. msgs \in Seq(T!Messages) /\ Len(msgs) \in {1, 2} /\ (Len(msgs) = 2 => msgs[2].do = "cancel")
    BY DEF AskOK
  <2>2. \A i \in 1..Len(msgs) : msgs[i] \in T!Messages /\ (i # 1 => i = 2 /\ Len(msgs) = 2)
    BY <2>1
  <2>3. 1 \in 1..Len(msgs)
    BY <2>1
  <2> QED BY <1>3, <2>1, <2>2, <2>3
<1>5. a.do = "arm" => a.t \notin registry /\ reg = registry \cup {a.t}
  BY <1>3 DEF AskOK
<1>6. a.do # "arm" => reg = registry
  BY <1>3 DEF AskOK
<1>7. a.t \in T!Tokens /\ \A t \in T!Tokens : T!Registered(t)
  BY <1>4 DEF T!IInv, T!Messages
<1>8. a.do = "arm" => ~T!Arming(a.t) /\ deadline[a.t] = T!Never
  BY <1>5, <1>7 DEF T!Registered
<1>9. /\ post' \in [Proxies -> Seq(T!Messages)]
      /\ \A x \in T!Messages : T!Sent(x) => T!Sent(x)'
      /\ \A i \in 1..Len(msgs) : T!Sent(msgs[i])'
      /\ \A x \in T!Messages : T!Sent(x)' => T!Sent(x) \/ \E i \in 1..Len(msgs) : x = msgs[i]
      /\ T!ArmedOnce'
  <2>1. \A i \in 1..Len(msgs) : msgs[i].do = "arm" => i = 1 /\ ~T!Arming(msgs[i].t)
    <3>1. \A i \in 1..Len(msgs) : msgs[i].do = "arm" => i = 1
      BY <1>4
    <3> QED BY <1>3, <1>8, <3>1
  <2> QED BY <1>1, <1>2, <1>4, <2>1, MailPosted
<1>11. \A t : T!Arming(t) <=> \E m \in T!Messages : T!Sent(m) /\ m.do = "arm" /\ m.t = t
  BY <1>1, ArmingSent
<1>12. \A t : T!Arming(t)' <=> \E m \in T!Messages : T!Sent(m)' /\ m.do = "arm" /\ m.t = t
  BY <1>9, ArmingSentNext
<1>13. \A t \in T!Tokens : T!Arming(t)' <=> T!Arming(t) \/ (a.do = "arm" /\ a.t = t)
  <2> SUFFICES ASSUME NEW t \in T!Tokens
               PROVE  T!Arming(t)' <=> T!Arming(t) \/ (a.do = "arm" /\ a.t = t)
    OBVIOUS
  <2>1. T!Arming(t) => T!Arming(t)'
    BY <1>9, <1>11, <1>12
  <2>2. a.do = "arm" /\ a.t = t => T!Arming(t)'
    <3>1. T!Sent(a)'
      BY <1>3, <1>4, <1>9
    <3> QED BY <1>4, <1>12, <3>1
  <2>3. ASSUME T!Arming(t)', ~T!Arming(t) PROVE a.do = "arm" /\ a.t = t
    <3>1. PICK m \in T!Messages : T!Sent(m)' /\ m.do = "arm" /\ m.t = t
      BY <1>12, <2>3
    <3>2. ~T!Sent(m)
      BY <1>11, <2>3, <3>1
    <3>3. PICK i \in 1..Len(msgs) : m = msgs[i]
      BY <1>9, <3>1, <3>2
    <3>4. i = 1
      BY <1>4, <3>1, <3>3
    <3> QED BY <1>3, <3>1, <3>3, <3>4
  <2> QED BY <2>1, <2>2, <2>3
<1>14. ASSUME NEW t \in T!Tokens PROVE T!Registered(t)'
  <2>1. T!Registered(t) /\ (T!Arming(t)' <=> T!Arming(t) \/ (a.do = "arm" /\ a.t = t))
    BY <1>7, <1>13
  <2>2. CASE a.do = "arm" /\ a.t = t
    <3>1. T!Arming(t)' /\ t \in registry' /\ deadline'[t] = T!Never
      BY <1>2, <1>5, <1>8, <2>1, <2>2
    <3> QED BY <3>1 DEF T!Registered
  <2>3. CASE ~(a.do = "arm" /\ a.t = t)
    <3>1. (T!Arming(t)' <=> T!Arming(t)) /\ (t \in registry' <=> t \in registry)
      BY <1>2, <1>5, <1>6, <2>1, <2>3
    <3> QED BY <1>2, <2>1, <3>1 DEF T!Registered
  <2> QED BY <2>2, <2>3
<1> QED BY <1>1, <1>2, <1>9, <1>14 DEF AskDone, T!TypeOK

LEMMA AskExact ==
  ASSUME T!IInv, NEW r \in T!Realms, NEW reg, NEW msgs, AskOK(reg, msgs), T!Ask(r, reg, msgs)
  PROVE  AskDone(reg, msgs)
  BY AskAtRoot, AskFromWorker DEF T!Realms

\* A sleep that the request is not about stays as it is.
LEMMA OthersStay ==
  ASSUME T!IInv, T!TypeOK', next' \in Nat, next' >= next, NEW reg, registry \subseteq reg,
         NEW msgs, AskOK(reg, msgs), AskDone(reg, msgs),
         NEW f \in Sleeps, sleep'[f] = sleep[f],
         sleep[f].st = "waiting" => \A i \in 1..Len(msgs) : msgs[i].t # sleep[f].token
  PROVE  T!SleepOK(f)'
<1>1. T!SleepOK(f)
  BY DEF T!IInv
<1>2. sleep[f].st = "waiting" => sleep[f].token \in registry /\ sleep[f].token \in T!Tokens
  BY <1>1 DEF T!SleepOK
<1>3. sleep[f].st = "waiting" => sleep[f].token \in registry'
  BY <1>2 DEF AskDone
<1>4. \A x \in T!Messages : T!Sent(x)' => T!Sent(x) \/ x.t # sleep[f].token
                                           \/ sleep[f].st # "waiting"
  BY DEF AskDone
<1>5. sleep[f].st = "waiting" => deadline'[sleep[f].token] \in {deadline[sleep[f].token], T!Never}
  <2>1. 1 \in 1..Len(msgs)
    BY DEF AskOK
  <2> QED BY <1>2, <2>1 DEF AskDone
<1> QED BY <1>3, <1>4, <1>5, SleepsStay

\* What the messages of a request say.
LEMMA MessagesOf ==
  ASSUME NEW t \in T!Tokens, NEW u \in T!Tokens, NEW d \in 0..MaxTimeout
  PROVE  /\ T!ArmMsg(t, d) \in T!Messages /\ T!ArmMsg(t, d).do = "arm"
         /\ T!ArmMsg(t, d).t = t /\ T!ArmMsg(t, d).delay = d
         /\ T!CancelMsg(u) \in T!Messages /\ T!CancelMsg(u).do = "cancel" /\ T!CancelMsg(u).t = u
<1>1. 0 \in 0..MaxTimeout
  BY HostAssumption
<1> QED BY <1>1 DEF T!ArmMsg, T!CancelMsg, T!Messages

LEMMA DropSleepKeeps ==
  ASSUME T!IInv, NEW f \in Sleeps, NEW r \in T!Realms, T!DropSleep(f, r)
  PROVE  T!IInv'
<1>1. T!TypeOK /\ sleep[f] \in T!Entries
  BY DEF T!IInv, T!TypeOK
<1>2. PICK c : c = T!CancelMsg(sleep[f].token)
  OBVIOUS
<1>3. sleep[f].st \in {"waiting", "woken", "done"} /\ next' = next /\ T!Ask(r, registry, <<c>>)
  BY <1>2 DEF T!DropSleep
<1>4. sleep[f].token \in T!Tokens /\ sleep[f].token < next /\ sleep[f].st # "unmade"
  BY <1>3 DEF T!IInv, T!SleepOK
<1>5. c \in T!Messages /\ c.do = "cancel" /\ c.t = sleep[f].token
  <2>1. 0 \in 0..MaxTimeout
    BY HostAssumption
  <2> QED BY <1>2, <1>4, <2>1, MessagesOf
<1>6. PICK msgs : msgs = <<c>>
  OBVIOUS
<1>7. msgs \in Seq(T!Messages) /\ Len(msgs) = 1 /\ msgs[1] = c
  BY <1>5, <1>6
<1>8. AskOK(registry, msgs)
  BY <1>5, <1>7 DEF AskOK
<1>9. AskDone(registry, msgs)
  BY <1>3, <1>6, <1>8, AskExact
<1>10. PICK s : s = [sleep[f] EXCEPT !.st = "dropped"]
  OBVIOUS
<1>11. s \in T!Entries /\ s.st = "dropped" /\ s.token = sleep[f].token
  BY <1>1, <1>10 DEF T!Entries
<1>12. sleep' = [sleep EXCEPT ![f] = s]
  BY <1>10 DEF T!DropSleep
<1>13. sleep' \in [Sleeps -> T!Entries] /\ sleep'[f] = s /\ \A g \in Sleeps : g # f => sleep'[g] = sleep[g]
  BY <1>1, <1>11, <1>12 DEF T!TypeOK
<1>14. T!TypeOK'
  BY <1>1, <1>3, <1>9, <1>13 DEF T!TypeOK, AskDone
<1>15. ASSUME NEW g \in Sleeps PROVE T!SleepOK(g)'
  <2>1. CASE g = f
    BY <1>3, <1>4, <1>11, <1>13, <2>1 DEF T!SleepOK
  <2>2. CASE g # f
    <3>1. sleep[g].st = "waiting" => sleep[g].token # c.t
      BY <1>4, <1>5, <2>2 DEF T!IInv
    <3>2. \A i \in 1..Len(msgs) : msgs[i] = c
      BY <1>7
    <3>3. next' \in Nat /\ next' >= next
      BY <1>1, <1>3, HostAssumption DEF T!TypeOK
    <3> QED BY <1>8, <1>9, <1>13, <1>14, <2>2, <3>1, <3>2, <3>3, OthersStay
  <2> QED BY <2>1, <2>2
<1>16. \A m \in T!Messages : T!Sent(m)' => m.t < next'
  <2>1. \A i \in 1..Len(msgs) : msgs[i] = c
    BY <1>7
  <2> QED BY <1>3, <1>4, <1>5, <1>9, <2>1 DEF AskDone, T!IInv
<1>17. \A t \in T!Tokens : t \in registry' => t < next'
  BY <1>3, <1>9 DEF AskDone, T!IInv
<1>18. \A g, h \in Sleeps : g # h /\ sleep'[g].st # "unmade" /\ sleep'[h].st # "unmade"
                            => sleep'[g].token # sleep'[h].token
  BY <1>4, <1>11, <1>13 DEF T!IInv
<1>19. next' # 0
  BY <1>3 DEF T!IInv
<1> QED BY <1>9, <1>14, <1>15, <1>16, <1>17, <1>18, <1>19 DEF AskDone, T!IInv

\* One leg: its token is fresh, and the leg before belongs to this sleep alone.
LEMMA LegKeeps ==
  ASSUME T!IInv, NEW f \in Sleeps, NEW r \in T!Realms, NEW rest \in Nat, NEW entry \in T!Entries,
         NEW old, \/ old = T!NoToken
                  \/ old = sleep[f].token /\ sleep[f].st = "woken",
         entry.toGo <= rest, T!Leg(f, r, rest, old, entry), next' # 0
  PROVE  T!IInv'
<1>1. T!TypeOK /\ next \in Nat /\ T!Tokens \subseteq Nat
  BY HostAssumption DEF T!IInv, T!TypeOK, T!Tokens
<1>2. PICK t : t = next
  OBVIOUS
<1>3. /\ t \in T!Tokens /\ t \notin registry /\ T!FreshToken = t /\ t \in Nat
      /\ (t + 1) % TokenSpace \in 0..(TokenSpace - 1)
      /\ (t + 1) % TokenSpace # 0 => (t + 1) % TokenSpace = t + 1
  BY <1>1, <1>2, NextToken
<1>4. PICK first : first = T!Lesser(rest, MaxTimeout)
  OBVIOUS
<1>5. first \in 0..MaxTimeout /\ rest - first \in Nat
  BY <1>4, HostAssumption DEF T!Lesser
<1>6. PICK left \in Nat : left = rest - first
  BY <1>5
<1>7. PICK s : s = [entry EXCEPT !.st = "waiting", !.token = t, !.remaining = left]
  OBVIOUS
<1>8. PICK msgs : msgs = <<T!ArmMsg(t, first)>>
                         \o (IF old = T!NoToken THEN <<>> ELSE <<T!CancelMsg(old)>>)
  OBVIOUS
<1>9. /\ next' = (t + 1) % TokenSpace /\ sleep' = [sleep EXCEPT ![f] = s]
      /\ T!Ask(r, registry \cup {t}, msgs)
  BY <1>3, <1>4, <1>6, <1>7, <1>8 DEF T!Leg
<1>10. next' = t + 1 /\ next' \in 0..(TokenSpace - 1) /\ next' \in Nat /\ next' >= next
  BY <1>2, <1>3, <1>9
<1>11. /\ s \in T!Entries /\ s.st = "waiting" /\ s.token = t /\ s.remaining = left
       /\ s.toGo = entry.toGo /\ s.toGo \in Nat
  BY <1>3, <1>6, <1>7 DEF T!Entries
<1>12. T!InTime(s, first)
  BY <1>5, <1>6, <1>11 DEF T!InTime
<1>13. old # T!NoToken => /\ old \in T!Tokens /\ old < t /\ old = sleep[f].token
                          /\ sleep[f].st = "woken"
  BY <1>2 DEF T!IInv, T!SleepOK
<1>14. PICK a : a = T!ArmMsg(t, first)
  OBVIOUS
<1>15. a \in T!Messages /\ a.do = "arm" /\ a.t = t /\ a.delay = first
  BY <1>3, <1>5, <1>14, MessagesOf
<1>16. /\ msgs \in Seq(T!Messages) /\ Len(msgs) \in {1, 2} /\ msgs[1] = a
       /\ Len(msgs) = 2 => /\ msgs[2].do = "cancel" /\ msgs[2].t = old
                           /\ old # T!NoToken
  <2>1. CASE old = T!NoToken
    <3>1. msgs = <<a>>
      BY <1>8, <1>14, <2>1, ConcatEmptySeq
    <3> QED BY <1>15, <3>1
  <2>2. CASE old # T!NoToken
    <3>1. PICK c : c = T!CancelMsg(old)
      OBVIOUS
    <3>2. c \in T!Messages /\ c.do = "cancel" /\ c.t = old
      BY <1>3, <1>5, <1>13, <2>2, <3>1, MessagesOf
    <3>3. msgs = <<a>> \o <<c>>
      BY <1>8, <1>14, <2>2, <3>1
    <3>4. PICK u, v : u = <<a>> /\ v = <<c>>
      OBVIOUS
    <3>5. /\ u \in Seq(T!Messages) /\ Len(u) = 1 /\ u[1] = a
          /\ v \in Seq(T!Messages) /\ Len(v) = 1 /\ v[1] = c
      BY <1>15, <3>2, <3>4
    <3>6. msgs \in Seq(T!Messages) /\ Len(msgs) = 2 /\ msgs[1] = u[1] /\ msgs[2] = v[1]
      BY <3>3, <3>4, <3>5, ConcatProperties
    <3> QED BY <2>2, <3>2, <3>5, <3>6
  <2> QED BY <2>1, <2>2
<1>17. AskOK(registry \cup {t}, msgs)
  BY <1>3, <1>15, <1>16 DEF AskOK
<1>18. AskDone(registry \cup {t}, msgs)
  BY <1>9, <1>17, AskExact
<1>19. \A i \in 1..Len(msgs) : \/ msgs[i] = a
                               \/ /\ msgs[i].do = "cancel" /\ msgs[i].t = old
                                  /\ old # T!NoToken
  BY <1>16
<1>20. sleep' \in [Sleeps -> T!Entries] /\ sleep'[f] = s /\ \A g \in Sleeps : g # f => sleep'[g] = sleep[g]
  BY <1>1, <1>9, <1>11 DEF T!TypeOK
<1>21. T!TypeOK'
  BY <1>1, <1>3, <1>10, <1>18, <1>20 DEF T!TypeOK, AskDone
<1>22. T!SleepOK(f)'
  <2>1. t \in registry'
    <3>1. \A i \in 1..Len(msgs) : msgs[i].do = "cancel" => msgs[i].t # t
      BY <1>3, <1>13, <1>15, <1>19
    <3> QED BY <1>18, <3>1 DEF AskDone
  <2>2. \A m \in T!Messages : T!Sent(m)' /\ m.t = t => m = a
    <3> SUFFICES ASSUME NEW m \in T!Messages, T!Sent(m)', m.t = t PROVE m = a
      OBVIOUS
    <3>1. ~T!Sent(m)
      BY <1>2, <1>3 DEF T!IInv
    <3>2. PICK i \in 1..Len(msgs) : m = msgs[i]
      BY <1>18, <3>1 DEF AskDone
    <3> QED BY <1>3, <1>13, <1>19, <3>2
  <2>3. deadline[t] = T!Never
    BY <1>3 DEF T!IInv, T!Registered
  <2>4. deadline'[t] # T!Never => deadline'[t] = first
    BY <1>3, <1>15, <1>16, <1>18, <2>3 DEF AskDone
  <2>5. t < next'
    BY <1>3, <1>10
  <2> QED BY <1>3, <1>11, <1>12, <1>15, <1>20, <2>1, <2>2, <2>4, <2>5 DEF T!SleepOK
<1>23. ASSUME NEW g \in Sleeps, g # f PROVE T!SleepOK(g)'
  <2>1. sleep[g].st = "waiting" => sleep[g].token < t /\ sleep[g].token \in T!Tokens
    BY <1>2 DEF T!IInv, T!SleepOK
  <2>2. sleep[g].st = "waiting" /\ old # T!NoToken => sleep[g].token # old
    BY <1>13, <1>23 DEF T!IInv
  <2>3. sleep[g].st = "waiting" => \A i \in 1..Len(msgs) : msgs[i].t # sleep[g].token
    BY <1>3, <1>15, <1>19, <2>1, <2>2
  <2> QED BY <1>10, <1>17, <1>18, <1>20, <1>21, <1>23, <2>3, OthersStay
<1>24. \A m \in T!Messages : T!Sent(m)' => m.t < next'
  <2> SUFFICES ASSUME NEW m \in T!Messages, T!Sent(m)' PROVE m.t < next'
    OBVIOUS
  <2>1. m.t \in Nat
    BY <1>1 DEF T!Messages
  <2>2. CASE T!Sent(m)
    <3>1. m.t < t
      BY <1>2, <2>2 DEF T!IInv
    <3> QED BY <1>3, <1>10, <2>1, <3>1
  <2>3. CASE ~T!Sent(m)
    <3>1. PICK i \in 1..Len(msgs) : m = msgs[i]
      BY <1>18, <2>3 DEF AskDone
    <3>2. m.t = t \/ m.t < t
      BY <1>13, <1>15, <1>19, <3>1
    <3> QED BY <1>3, <1>10, <2>1, <3>2
  <2> QED BY <2>2, <2>3
<1>25. ASSUME NEW u \in T!Tokens, u \in registry' PROVE u < next'
  <2>1. u \in registry \/ u = t
    BY <1>18, <1>25 DEF AskDone
  <2>2. u \in registry => u < t
    BY <1>2 DEF T!IInv
  <2>3. u \in Nat
    BY <1>1
  <2> QED BY <1>3, <1>10, <2>1, <2>2, <2>3
<1>26. ASSUME NEW g \in Sleeps, NEW h \in Sleeps, g # h, sleep'[g].st # "unmade", sleep'[h].st # "unmade"
       PROVE  sleep'[g].token # sleep'[h].token
  <2>1. \A k \in Sleeps : sleep[k].st # "unmade" => sleep[k].token < t /\ sleep[k].token \in Nat
    BY <1>1, <1>2 DEF T!IInv, T!SleepOK
  <2>2. CASE g = f
    BY <1>3, <1>11, <1>20, <1>26, <2>1, <2>2
  <2>3. CASE h = f
    BY <1>3, <1>11, <1>20, <1>26, <2>1, <2>3
  <2>4. CASE g # f /\ h # f
    BY <1>20, <1>26, <2>4 DEF T!IInv
  <2> QED BY <2>2, <2>3, <2>4
<1> QED BY <1>18, <1>21, <1>22, <1>23, <1>24, <1>25, <1>26 DEF AskDone, T!IInv

LEMMA NewSleepKeeps ==
  ASSUME T!IInv, NEW f \in Sleeps, NEW r \in T!Realms, NEW d \in Durations, T!New(f, r, d), next' # 0
  PROVE  T!IInv'
<1>1. PICK entry : entry = [T!Unmade EXCEPT !.toGo = d]
  OBVIOUS
<1>2. d \in Nat /\ T!Leg(f, r, d, T!NoToken, entry)
  BY <1>1, HostAssumption DEF T!New
<1>3. T!Unmade \in T!Entries
  BY DEF T!Unmade, T!Entries, T!NoToken
<1>4. entry \in T!Entries /\ entry.toGo = d
  BY <1>1, <1>2, <1>3 DEF T!Entries
<1> QED BY <1>2, <1>4, LegKeeps

LEMMA PollSleepKeeps ==
  ASSUME T!IInv, NEW f \in Sleeps, NEW r \in T!Realms, T!Poll(f, r), next' # 0
  PROVE  T!IInv'
<1>1. sleep[f].st = "woken" /\ sleep[f] \in T!Entries /\ T!TypeOK
  BY DEF T!Poll, T!IInv, T!TypeOK
<1>2. /\ sleep[f].remaining \in Nat /\ sleep[f].toGo \in Nat /\ sleep[f].toGo <= sleep[f].remaining
      /\ sleep[f].token \in T!Tokens /\ sleep[f].token < next
  BY <1>1 DEF T!IInv, T!SleepOK, T!InTime, T!Entries
<1>3. CASE sleep[f].remaining # 0
  <2>1. T!Leg(f, r, sleep[f].remaining, sleep[f].token, sleep[f])
    BY <1>3 DEF T!Poll
  <2> QED BY <1>1, <1>2, <2>1, LegKeeps
<1>4. CASE sleep[f].remaining = 0
  <2>1. PICK s : s = [sleep[f] EXCEPT !.st = "done"]
    OBVIOUS
  <2>2. s \in T!Entries /\ s.st = "done" /\ s.token = sleep[f].token /\ s.toGo = 0
    BY <1>1, <1>2, <1>4, <2>1 DEF T!Entries
  <2>3. /\ sleep' = [sleep EXCEPT ![f] = s] /\ deadline' = deadline /\ registry' = registry
        /\ next' = next /\ post' = post
    BY <1>4, <2>1 DEF T!Poll
  <2>4. sleep' \in [Sleeps -> T!Entries] /\ sleep'[f] = s /\ \A g \in Sleeps : g # f => sleep'[g] = sleep[g]
    BY <1>1, <2>2, <2>3 DEF T!TypeOK
  <2>5. T!TypeOK'
    BY <1>1, <2>3, <2>4 DEF T!TypeOK
  <2>6. /\ \A t : T!Arming(t)' <=> T!Arming(t)
        /\ \A m : T!Sent(m)' <=> T!Sent(m)
        /\ T!ArmedOnce'
    BY <2>3 DEF T!Arming, T!Sent, T!ArmedOnce, T!IInv
  <2>7. ASSUME NEW g \in Sleeps PROVE T!SleepOK(g)'
    <3>1. CASE g = f
      BY <1>2, <2>2, <2>3, <2>4, <3>1 DEF T!SleepOK
    <3>2. CASE g # f
      <4>1. next' \in Nat /\ next' >= next
        BY <1>1, <2>3, HostAssumption DEF T!TypeOK
      <4>2. sleep[g].st = "waiting" => sleep[g].token \in registry'
        BY <2>3 DEF T!IInv, T!SleepOK
      <4> QED BY <2>3, <2>4, <2>5, <2>6, <3>2, <4>1, <4>2, SleepsStay
    <3> QED BY <3>1, <3>2
  <2>8. \A t \in T!Tokens : T!Registered(t)'
    BY <2>3, <2>6 DEF T!Registered, T!IInv
  <2>9. \A g, h \in Sleeps : g # h /\ sleep'[g].st # "unmade" /\ sleep'[h].st # "unmade"
                             => sleep'[g].token # sleep'[h].token
    BY <1>1, <2>2, <2>4 DEF T!IInv
  <2> QED BY <2>3, <2>5, <2>6, <2>7, <2>8, <2>9 DEF T!IInv
<1> QED BY <1>3, <1>4

\* Time passes for the deadlines and for the sleeps alike.
LEMMA TickKeeps ==
  ASSUME T!IInv, T!Tick
  PROVE  T!IInv'
<1>1. T!TypeOK /\ MaxTimeout \in Nat
  BY HostAssumption DEF T!IInv
<1>2. /\ deadline' = [t \in T!Tokens |-> T!Less(deadline[t])]
      /\ registry' = registry /\ next' = next /\ post' = post
  BY DEF T!Tick
<1>3. \A k \in 0..T!Never : /\ T!Less(k) \in 0..T!Never
                            /\ T!Less(k) = T!Never <=> k = T!Never
                            /\ T!Less(k) = k \/ T!Less(k) = k - 1
  BY <1>1 DEF T!Less, T!Never
<1>4. /\ deadline \in [T!Tokens -> 0..T!Never] /\ deadline' \in [T!Tokens -> 0..T!Never]
      /\ \A t \in T!Tokens : /\ deadline'[t] = T!Never <=> deadline[t] = T!Never
                             /\ deadline'[t] = T!Less(deadline[t])
  BY <1>1, <1>2, <1>3 DEF T!TypeOK
<1>5. ASSUME NEW f \in Sleeps
      PROVE  /\ sleep'[f] \in T!Entries /\ sleep'[f].st = sleep[f].st
             /\ sleep'[f].token = sleep[f].token /\ sleep'[f].remaining = sleep[f].remaining
             /\ sleep'[f].toGo = IF sleep[f].toGo = 0 THEN 0 ELSE sleep[f].toGo - 1
  <2>1. PICK n : n = IF sleep[f].toGo = 0 THEN 0 ELSE sleep[f].toGo - 1
    OBVIOUS
  <2>2. sleep[f] \in T!Entries /\ sleep[f].toGo \in Nat
    BY <1>1 DEF T!TypeOK, T!Entries
  <2>3. n \in Nat
    BY <2>1, <2>2
  <2>4. sleep'[f] = [sleep[f] EXCEPT !.toGo = n]
    BY <2>1 DEF T!Tick
  <2> QED BY <2>1, <2>2, <2>3, <2>4 DEF T!Entries
<1>6. sleep' \in [Sleeps -> T!Entries]
  <2>1. DOMAIN sleep' = Sleeps /\ sleep' = [f \in Sleeps |-> sleep'[f]]
    BY DEF T!Tick
  <2> QED BY <1>5, <2>1
<1>7. T!TypeOK'
  BY <1>1, <1>2, <1>4, <1>6 DEF T!TypeOK
<1>8. /\ \A t : T!Arming(t)' <=> T!Arming(t)
      /\ \A m : T!Sent(m)' <=> T!Sent(m)
      /\ T!ArmedOnce'
  BY <1>2 DEF T!Arming, T!Sent, T!ArmedOnce, T!IInv
<1>9. \A t \in T!Tokens : T!Registered(t)'
  BY <1>2, <1>4, <1>8 DEF T!Registered, T!IInv
<1>10. ASSUME NEW f \in Sleeps PROVE T!SleepOK(f)'
  <2>1. PICK s, z : s = sleep[f] /\ z = sleep'[f]
    OBVIOUS
  <2>2. /\ s.toGo \in Nat /\ s.remaining \in Nat /\ z.st = s.st /\ z.token = s.token
        /\ z.remaining = s.remaining /\ z.toGo = IF s.toGo = 0 THEN 0 ELSE s.toGo - 1
        /\ z.toGo \in Nat /\ z.toGo <= s.toGo
    <3>1. sleep[f] \in T!Entries
      BY <1>1 DEF T!TypeOK
    <3>2. s.toGo \in Nat /\ s.remaining \in Nat
      BY <2>1, <3>1 DEF T!Entries
    <3> QED BY <1>5, <2>1, <3>2
  <2>3. T!SleepOK(f)
    BY DEF T!IInv
  <2>4. \A k \in Nat : T!InTime(s, k) => T!InTime(z, k)
    BY <2>2 DEF T!InTime
  <2>5. \A k \in 0..T!Never : T!InTime(s, k) => T!InTime(z, T!Less(k))
    BY <1>1, <2>2 DEF T!InTime, T!Less, T!Never
  <2>6. s.st = "waiting" => \A m \in T!Messages : T!Sent(m)' /\ m.t = s.token => m.do = "arm" /\ T!InTime(z, m.delay)
    <3>1. \A m \in T!Messages : m.delay \in Nat
      BY <1>1 DEF T!Messages
    <3> QED BY <1>8, <2>1, <2>3, <2>4, <3>1 DEF T!SleepOK
  <2>7. s.st = "waiting" => (deadline'[s.token] # T!Never => T!InTime(z, deadline'[s.token]))
    <3>1. s.st = "waiting" => s.token \in T!Tokens
      BY <2>1, <2>3 DEF T!SleepOK
    <3> QED BY <1>4, <2>1, <2>3, <2>5, <3>1 DEF T!SleepOK
  <2>8. s.st = "woken" => T!InTime(z, 0)
    BY <2>1, <2>3, <2>4 DEF T!SleepOK
  <2>9. s.st = "done" => z.toGo = 0
    BY <2>1, <2>2, <2>3 DEF T!SleepOK
  <2>10. s.st # "unmade" => s.token \in T!Tokens /\ s.token < next
    BY <2>1, <2>3 DEF T!SleepOK
  <2>11. s.st = "waiting" => s.token \in registry'
    BY <1>2, <2>1, <2>3 DEF T!SleepOK
  <2>12. sleep'[f] = z /\ next' = next
    BY <1>2, <2>1
  <2> QED BY <2>2, <2>6, <2>7, <2>8, <2>9, <2>10, <2>11, <2>12 DEF T!SleepOK, T!InTime
<1>11. \A f, g \in Sleeps : f # g /\ sleep'[f].st # "unmade" /\ sleep'[g].st # "unmade"
                            => sleep'[f].token # sleep'[g].token
  BY <1>5 DEF T!IInv
<1>12. \A m \in T!Messages : T!Sent(m)' => m.t < next'
  BY <1>2, <1>8 DEF T!IInv
<1> QED BY <1>2, <1>7, <1>8, <1>9, <1>10, <1>11, <1>12 DEF T!IInv

LEMMA TimersStep == T!IInv /\ [T!Next]_timerVars /\ next' # 0 => T!IInv'
<1> SUFFICES ASSUME T!IInv, [T!Next]_timerVars, next' # 0 PROVE T!IInv'
  OBVIOUS
<1>1. CASE UNCHANGED timerVars
  BY <1>1 DEF timerVars, T!IInv, T!TypeOK, T!ArmedOnce, T!Registered, T!SleepOK, T!InTime, T!Arming, T!Sent
<1>2. ASSUME NEW w \in Proxies, T!Deliver(w) PROVE T!IInv'
  BY <1>2, DeliverKeeps
<1>3. ASSUME NEW f \in Sleeps, NEW r \in T!Realms,
             (\E d \in Durations : T!New(f, r, d)) \/ T!Poll(f, r) \/ T!DropSleep(f, r)
      PROVE  T!IInv'
  BY <1>3, NewSleepKeeps, PollSleepKeeps, DropSleepKeeps
<1> QED BY <1>1, <1>2, <1>3, TickKeeps, DrainKeeps DEF T!Next

\* A registered token is arming or in the map, never both, and a sleep that is
\* over was given all its time.
LEMMA TimersPromise == T!IInv => T!TokensOnce /\ T!SleepsLongEnough
<1> SUFFICES ASSUME T!IInv PROVE T!TokensOnce /\ T!SleepsLongEnough
  OBVIOUS
<1>1. ASSUME NEW t \in T!Tokens PROVE t \in registry <=> (T!Arming(t) # (deadline[t] # T!Never))
  <2>1. T!Arming(t) \in BOOLEAN
    BY DEF T!Arming
  <2>2. t \in registry <=> T!Arming(t) \/ deadline[t] # T!Never
    BY DEF T!IInv, T!Registered
  <2>3. T!Arming(t) => deadline[t] = T!Never
    BY DEF T!IInv, T!Registered
  <2> QED BY <2>1, <2>2, <2>3
<1>2. \A f \in Sleeps : sleep[f].st = "waiting" => sleep[f].token \in registry
  BY DEF T!IInv, T!SleepOK
<1>3. \A f, g \in Sleeps : f # g /\ {sleep[f].st, sleep[g].st} \subseteq {"waiting"}
                           => sleep[f].token # sleep[g].token
  BY DEF T!IInv
<1>4. T!SleepsLongEnough
  BY DEF T!IInv, T!SleepOK, T!SleepsLongEnough
<1> QED BY <1>1, <1>2, <1>3, <1>4 DEF T!TokensOnce

(***************************************************************************)
(* The host as a whole.                                                    *)
(***************************************************************************)

\* A step of the host is a step of each component, or leaves it alone.
LEMMA HostStepParts ==
  [HostNext]_hostVars => /\ [Next]_vars /\ [T!Next]_timerVars /\ [N!Next]_nativeVars
                         /\ [F!Next]_promiseVars /\ [P!Next]_pinnedVars /\ [S!Next]_suiteVars
<1>1. ASSUME HostNext
      PROVE  /\ [Next]_vars /\ [T!Next]_timerVars /\ [N!Next]_nativeVars
             /\ [F!Next]_promiseVars /\ [P!Next]_pinnedVars /\ [S!Next]_suiteVars
  BY <1>1 DEF HostNext
<1>2. ASSUME UNCHANGED hostVars
      PROVE  /\ UNCHANGED vars /\ UNCHANGED timerVars /\ UNCHANGED nativeVars
             /\ UNCHANGED promiseVars /\ UNCHANGED pinnedVars /\ UNCHANGED suiteVars
  BY <1>2 DEF hostVars
<1> QED BY <1>1, <1>2

\* The components of the host start as they do alone.
LEMMA HostInitParts ==
  HostInit => Init /\ T!Init /\ N!Init /\ F!Init /\ P!Init /\ S!Init
  BY DEF HostInit

\* The host implements each of its components: what holds of the workers holds on
\* the host.
THEOREM WorkersOnHost == HostSpec => Spec /\ [](StorageInUse /\ OneTrueVerdict)
<1>1. HostInit => Init
  BY HostInitParts
<1>2. [HostNext]_hostVars => [Next]_vars
  BY HostStepParts
<1> QED BY <1>1, <1>2, StorageIsKept, VerdictIsTrue, PTL DEF HostSpec, Spec

\* What the runner reports of any module: each case that the arguments admit has its
\* result, of the tests, or of the benchmarks where there are none, and a page's pass
\* is read only after its last body; only a module with neither that is watched for a
\* time may pass without a verdict.
THEOREM PassIsEarned == HostSpec => []PassMeansAllDone
<1>1. HostInit => S!IInv
  BY HostInitParts, SuiteInit
<1>2. S!IInv /\ [HostNext]_hostVars => S!IInv'
  BY HostStepParts, SuiteStep
<1>3. S!IInv => PassMeansAllDone
  BY SuitePassed DEF PassMeansAllDone
<1> QED BY <1>1, <1>2, <1>3, PTL DEF HostSpec

\* No task sleeps on a promise that settled or an output that is stored, and reads
\* of one file that overlap skip no byte, for any tasks, jobs and length.
THEOREM AwaitsGetAnswers == HostSpec => []AwaitsAreAnswered
<1>1. HostInit => F!IInv /\ P!IInv
  BY HostInitParts, PromisesInit, PinnedInit
<1>2. F!IInv /\ P!IInv /\ [HostNext]_hostVars => F!IInv' /\ P!IInv'
  BY HostStepParts, PromisesStep, PinnedStep
<1>3. F!IInv /\ P!IInv => AwaitsAreAnswered
  BY PromisesAwaited, PinnedAnswered DEF AwaitsAreAnswered
<1> QED BY <1>1, <1>2, <1>3, PTL DEF HostSpec

\* The native driver never sleeps past a deadline, wakes no timer too early and
\* loses none, for any timers and durations.
THEOREM DriverKeepsTime == HostSpec => []N!DriverOnTime
<1>1. HostInit => N!IInv
  BY HostInitParts, NativeInit
<1>2. N!IInv /\ [HostNext]_hostVars => N!IInv'
  BY HostStepParts, NativeStep
<1>3. N!IInv => N!DriverOnTime
  BY DEF N!IInv
<1> QED BY <1>1, <1>2, <1>3, PTL DEF HostSpec

\* The timers of a browser use each token once and let no sleep end early, in
\* whatever order arm, fire and cancel are handled, as long as the counter of tokens
\* has not gone round.  The hypothesis is needed: a sleep that is over keeps its last
\* token until it is dropped, and then cancels it, whoever has that token by then.
THEOREM TimersKeepTime == HostSpec /\ [](next # 0) => []TimersOnTime
<1>1. HostInit => T!IInv /\ N!IInv
  BY HostInitParts, TimersInit, NativeInit
<1>2. T!IInv /\ N!IInv /\ [HostNext]_hostVars /\ (next # 0)' => T!IInv' /\ N!IInv'
  BY HostStepParts, TimersStep, NativeStep
<1>3. T!IInv /\ N!IInv => TimersOnTime
  BY TimersPromise DEF N!IInv, TimersOnTime
<1> QED BY <1>1, <1>2, <1>3, PTL DEF HostSpec
=============================================================================
