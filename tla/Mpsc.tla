------------------------------- MODULE Mpsc -------------------------------
(* The channel of wasm_lite_std: a queue under a Mutex, a Condvar the        *)
(* receiver waits on, the count of sender handles and the receiver's flag.   *)
(* Each sender actor owns at most one handle; the Receiver is not Sync.      *)
(* Where a lock is taken, used and released without another shared access    *)
(* in between, that is one step.                                             *)
EXTENDS Condvar, Sequences

CONSTANTS Senders,          \* the actors that may own a Sender
          Rx,               \* the actor that owns the Receiver
          MaxSends,         \* sends per sender
          MaxRecvs          \* receive calls

ASSUME MpscAssumption ==
    /\ Actors = Senders \cup {Rx} /\ Rx \notin Senders
    /\ MaxSends \in Nat /\ MaxRecvs \in Nat

VARIABLES
    queue,          \* the VecDeque
    sender_count, receiver_active,
    alive,          \* the senders whose handle is not dropped
    ops,            \* calls made
    sent,           \* history: the messages pushed
    got,            \* history: the messages received
    disconnected    \* history: a receive has answered Disconnected

chanVars == <<queue, sender_count, receiver_active, alive>>
histVars == <<sent, got, disconnected>>
vars == <<condVars, chanVars, ops, histVars>>

ClientPCs == {"idle", "send", "drop_lock", "try", "enter", "notified"}
Messages == Senders \X (1..MaxSends)

TypeOK ==
    /\ CondTypeOK(ClientPCs)
    /\ queue \in Seq(Messages)
    /\ sender_count \in Nat /\ receiver_active \in BOOLEAN
    /\ alive \in SUBSET Senders
    /\ ops \in [Actors -> Nat]
    /\ sent \in Seq(Messages) /\ got \in Seq(Messages)
    /\ disconnected \in BOOLEAN

\* channel() hands out one Sender.
Init ==
    /\ CondInit
    /\ queue = <<>> /\ sender_count = 1 /\ receiver_active = TRUE
    /\ \E s \in Senders : alive = {s}
    /\ ops = [a \in Actors |-> 0]
    /\ sent = <<>> /\ got = <<>> /\ disconnected = FALSE

(***************************************************************************)
(* Senders.                                                                *)
(***************************************************************************)

Owns(s) == pc[s] = "idle" /\ s \in alive

SendCheck(s) ==
    /\ Owns(s) /\ ops[s] < MaxSends
    /\ ops' = [ops EXCEPT ![s] = @ + 1]
    /\ Goto(s, IF receiver_active THEN "send" ELSE "idle")
    /\ UNCHANGED <<holder, spinVars, syncVars, asyncVars, callVars, gaveUp, taken,
                   chanVars, histVars>>

\* Under the lock: look again, push, unlock, and go on to notify_one.
SendPush(s) ==
    /\ pc[s] = "send" /\ holder = None
    /\ IF receiver_active
         THEN /\ queue' = Append(queue, <<s, ops[s]>>)
              /\ sent' = Append(sent, <<s, ops[s]>>)
              /\ Goto(s, "spin_list")
         ELSE UNCHANGED <<queue, sent>> /\ Goto(s, "idle")
    /\ all' = [all EXCEPT ![s] = FALSE]
    /\ UNCHANGED <<holder, spinVars, syncVars, asyncVars, how, timed, late, gaveUp,
                   taken, sender_count, receiver_active, alive, ops, got, disconnected>>

\* The caller drops a send_async that waits for the lock.
SendDropped(s) ==
    /\ pc[s] = "send" /\ s \in Tasks
    /\ Goto(s, "idle")
    /\ UNCHANGED <<holder, spinVars, syncVars, asyncVars, callVars, gaveUp, taken,
                   chanVars, ops, histVars>>

CloneSender(s) ==
    /\ Owns(s)
    /\ sender_count' = sender_count + 1
    /\ \E r \in Senders \ alive : pc[r] = "idle" /\ alive' = alive \cup {r}
    /\ UNCHANGED <<condVars, queue, receiver_active, ops, histVars>>

\* Mutant: the last sender notifies without having taken the queue lock.
DropSenderUnlocked(s) ==
    /\ Owns(s)
    /\ sender_count' = sender_count - 1
    /\ alive' = alive \ {s}
    /\ all' = [all EXCEPT ![s] = TRUE]
    /\ Goto(s, IF sender_count = 1 THEN "spin_list" ELSE "idle")
    /\ UNCHANGED <<holder, spinVars, syncVars, asyncVars, how, timed, late, gaveUp,
                   taken, queue, receiver_active, ops, histVars>>

DropSender(s) ==
    /\ Owns(s)
    /\ sender_count' = sender_count - 1
    /\ alive' = alive \ {s}
    /\ Goto(s, IF sender_count = 1 THEN "drop_lock" ELSE "idle")
    /\ UNCHANGED <<holder, spinVars, syncVars, asyncVars, callVars, gaveUp, taken,
                   queue, receiver_active, ops, histVars>>

\* The last sender takes and releases the queue lock, then notifies all.
DropLock(s) ==
    /\ pc[s] = "drop_lock" /\ holder = None
    /\ all' = [all EXCEPT ![s] = TRUE]
    /\ Goto(s, "spin_list")
    /\ UNCHANGED <<holder, spinVars, syncVars, asyncVars, how, timed, late, gaveUp,
                   taken, chanVars, ops, histVars>>

\* notify_one or notify_all of a send or a drop has returned.
Notified(a) ==
    /\ pc[a] = "notified"
    /\ Goto(a, "idle")
    /\ UNCHANGED <<holder, spinVars, syncVars, asyncVars, callVars, gaveUp, taken,
                   chanVars, ops, histVars>>

(***************************************************************************)
(* The receiver.                                                           *)
(***************************************************************************)

CountRecv ==
    /\ pc[Rx] = "idle" /\ receiver_active /\ ops[Rx] < MaxRecvs
    /\ ops' = [ops EXCEPT ![Rx] = @ + 1]

\* recv_spin, recv_block, recv_async and their timed forms; recv_sync is one
\* of the first two.
Recv ==
    /\ CountRecv
    /\ \E h \in Strategies(Rx), d \in BOOLEAN :
         how' = [how EXCEPT ![Rx] = h] /\ timed' = [timed EXCEPT ![Rx] = d]
    /\ late' = [late EXCEPT ![Rx] = FALSE]
    /\ Goto(Rx, "enter")
    /\ UNCHANGED <<holder, spinVars, syncVars, asyncVars, gaveUp, all, taken,
                   chanVars, histVars>>

TryRecv ==
    /\ CountRecv
    /\ Goto(Rx, "try")
    /\ UNCHANGED <<holder, spinVars, syncVars, asyncVars, callVars, gaveUp, taken,
                   chanVars, histVars>>

Enter ==
    /\ pc[Rx] = "enter" /\ holder = None
    /\ holder' = Rx
    /\ Goto(Rx, "test")
    /\ UNCHANGED <<spinVars, syncVars, asyncVars, callVars, gaveUp, taken,
                   chanVars, ops, histVars>>

\* lock_*_timeout gave up, or the future that waits for the lock is dropped.
EnterGivenUp ==
    /\ pc[Rx] = "enter" /\ (timed[Rx] \/ Rx \in Tasks)
    /\ Goto(Rx, "idle")
    /\ UNCHANGED <<holder, spinVars, syncVars, asyncVars, callVars, gaveUp, taken,
                   chanVars, ops, histVars>>

\* Mutant: the queue is a stack.
PopBack ==
    /\ queue # <<>>
    /\ got' = Append(got, queue[Len(queue)])
    /\ queue' = SubSeq(queue, 1, Len(queue) - 1)
    /\ UNCHANGED disconnected

Pop ==
    /\ queue # <<>>
    /\ got' = Append(got, Head(queue)) /\ queue' = Tail(queue)
    /\ UNCHANGED disconnected

\* Mutant: disconnection is reported without looking for messages first.
DisconnectEagerly ==
    /\ sender_count = 0
    /\ disconnected' = TRUE
    /\ UNCHANGED <<queue, got>>

\* Every sender is gone, found out with the lock held and the queue empty.
Disconnect ==
    /\ queue = <<>> /\ sender_count = 0
    /\ disconnected' = TRUE
    /\ UNCHANGED <<queue, got>>

TryLock ==
    /\ pc[Rx] = "try" /\ holder = None
    /\ \/ Pop \/ Disconnect
       \/ queue = <<>> /\ sender_count # 0 /\ UNCHANGED <<queue, got, disconnected>>
    /\ Goto(Rx, "idle")
    /\ UNCHANGED <<holder, spinVars, syncVars, asyncVars, callVars, gaveUp, taken,
                   sender_count, receiver_active, alive, ops, sent>>

\* The head of the receive loop, with the guard held: answer and unlock, or
\* go to wait.  The count may drop to 0 before the wait registers.
Test ==
    /\ pc[Rx] = "test"
    /\ \/ (Pop \/ Disconnect) /\ holder' = None /\ Goto(Rx, "idle")
       \/ /\ queue = <<>> /\ sender_count # 0
          /\ Goto(Rx, "register")
          /\ UNCHANGED <<holder, queue, got, disconnected>>
    /\ UNCHANGED <<spinVars, syncVars, asyncVars, callVars, gaveUp, taken,
                   sender_count, receiver_active, alive, ops, sent>>

\* The wait timed out: the receive returns Timeout without another look.
TimedOut ==
    /\ pc[Rx] = "timedout"
    /\ holder' = None
    /\ gaveUp' = [gaveUp EXCEPT ![Rx] = FALSE]
    /\ Goto(Rx, "idle")
    /\ UNCHANGED <<spinVars, syncVars, asyncVars, callVars, taken, chanVars, ops,
                   histVars>>

DropReceiver ==
    /\ pc[Rx] = "idle" /\ receiver_active
    /\ receiver_active' = FALSE
    /\ all' = [all EXCEPT ![Rx] = TRUE]
    /\ Goto(Rx, "spin_list")
    /\ UNCHANGED <<holder, spinVars, syncVars, asyncVars, how, timed, late, gaveUp,
                   taken, queue, sender_count, alive, ops, histVars>>

(***************************************************************************)
(* The specification.                                                      *)
(***************************************************************************)

Waiting == WaitStep(Rx) /\ UNCHANGED <<chanVars, ops, histVars>>
Passing == (DeadlinePasses(Rx) \/ ParkSpurious(Rx)) /\ UNCHANGED <<chanVars, ops, histVars>>
RecvDropped == Rx \in Tasks /\ WaitDropped(Rx) /\ UNCHANGED <<chanVars, ops, histVars>>
Relocking == Relock(Rx) /\ UNCHANGED <<chanVars, ops, histVars>>
Notifies(a) == NotifyStep(a) /\ UNCHANGED <<chanVars, ops, histVars>>

\* Taking the queue lock.
Locking == \/ Relocking \/ Enter \/ TryLock
           \/ \E s \in Senders : SendPush(s) \/ DropLock(s)

\* Everybody is done with the channel, or waits for a sender that is idle.
Resting ==
    /\ \A s \in Senders : pc[s] = "idle"
    /\ pc[Rx] = "idle" \/ (Unnotified(Rx) /\ alive # {})
    /\ UNCHANGED vars

Next ==
    \/ \E s \in Senders : \/ SendCheck(s) \/ SendDropped(s) \/ CloneSender(s)
                          \/ DropSender(s)
    \/ \E a \in Actors : Notifies(a) \/ Notified(a)
    \/ Recv \/ TryRecv \/ EnterGivenUp \/ Test \/ TimedOut \/ DropReceiver
    \/ Waiting \/ Passing \/ RecvDropped
    \/ Locking
    \/ Resting

Spec == Init /\ [][Next]_vars

(***************************************************************************)
(* Properties.                                                             *)
(***************************************************************************)

\* Every message comes out once, in the order of the pushes, and a receive
\* answers Disconnected only when nothing sent is left and nothing can be sent
\* any more.
DisconnectedIsFinal == /\ got \o queue = sent
                       /\ disconnected => got = sent /\ alive = {}

\* The receiver is never left asleep on a message or on a dead channel: then
\* a sender is still on its way to notify it.
NoStuckReceiver ==
    Unnotified(Rx) /\ (queue # <<>> \/ sender_count = 0)
      => \E s \in Senders : Notifying(s) \/ pc[s] = "drop_lock"

\* Why: the messages are in one of two places in their order, the count is that
\* of the handles, and a handle in the middle of a send is not dropped.
ChannelExact ==
    /\ got \o queue = sent
    /\ IsFiniteSet(alive) /\ sender_count = Cardinality(alive)
    /\ disconnected => queue = <<>> /\ alive = {}
    /\ \A s \in Senders : pc[s] = "send" => s \in alive /\ ops[s] \in 1..MaxSends

IInv == TypeOK /\ NoLeakedEntry /\ EntriesMatch /\ ChannelExact

\* Why no receiver is stuck.  Senders only notify, so the lists hold nobody but
\* the receiver; it registers with the lock held, when there is nothing to take
\* and no sender is past the lock with the last drop; and an entry that a
\* sender may still overlook on its way is not among those it takes.
SendersNotify ==
    \A s \in Senders : /\ pc[s] \in {"idle", "send", "drop_lock", "notified"} \cup NotifyPCs
                       /\ ~gaveUp[s]
Dropping == \E s \in Senders : pc[s] = "drop_lock"
RegistersLocked ==
    /\ pc[Rx] \in {"test", "register", "unlock"} => holder = Rx
    /\ pc[Rx] \in {"register", "unlock"} => queue = <<>> /\ (sender_count = 0 => Dropping)

\* The only pair that can be woken is the receiver's.
PairsKnown ==
    /\ how[Rx] = "async" => Rx \in Tasks
    /\ Rx \in Tasks /\ pc[Rx] = "unlock" => how[Rx] = "async"
    /\ Rx \in Tasks /\ pc[Rx] \notin {"unlock", "await", "forget"} => wait[Rx] = None
    /\ \A w \in Waits : wstate[w] = "waiting" =>
          Rx \in Tasks /\ wait[Rx] = w /\ pc[Rx] # "forget"
    /\ \A s \in Senders : taken[s] \cap asyncList = {}
    /\ \A s \in Senders : pc[s] = "wake" =>
          taken[s] \subseteq Waits /\ (~all[s] => \E w \in Waits : taken[s] = {w})

\* Sender s will come past the list that the receiver's entry is in.
Ahead(s) ==
    \/ Rx \in spinList /\ pc[s] = "spin_list"
    \/ Rx \in syncList /\ pc[s] \in {"spin_list", "sync_list"}
    \/ /\ how[Rx] = "async"
       /\ \/ pc[s] \in {"spin_list", "sync_list", "async_list"}
          \/ pc[s] = "wake" /\ ~all[s]
SleeperCovered ==
    Unnotified(Rx) /\ pc[Rx] # "unlock" /\ (queue # <<>> \/ sender_count = 0)
      => Dropping \/ \E s \in Senders : Ahead(s)

WakeInv == SendersNotify /\ RegistersLocked /\ PairsKnown /\ SleeperCovered
=============================================================================
