------------------------------ MODULE Workers ------------------------------
(* The life of a spawned thread: Builder::spawn and wasm_lite::thread::spawn, *)
(* the glue's __wl_spawn and __wl_spawn_at, the worker bootstrap, the panic   *)
(* hook, and JoinHandle::join, join_async and is_finished.                    *)
(*                                                                            *)
(* An actor is the main realm or a spawned thread.  A worker talks to the     *)
(* main realm by postMessage: mail keeps the order of one worker's messages,  *)
(* and the main realm takes the mail of different workers in any order.  The  *)
(* join channel is the one AbstractChannel describes, with its sender count.  *)
(* Tasks that a thread leaves on its event loop are join_async calls: one     *)
(* task per thread awaited.  A stack and its TLS block are one allocation.    *)
EXTENDS Naturals, Sequences, FiniteSets

CONSTANTS Main,      \* the realm that creates workers; its event loop turns
          Threads,   \* the threads that may be spawned
          Blocks,    \* stack and TLS allocations
          MayPanic,  \* threads whose closure or task may panic or trap
          MayFail,   \* threads whose worker may fail to start
          None       \* no thread, no block

Actors == Threads \cup {Main}

ASSUME WorkersAssumption == Main \notin Threads /\ None \notin Actors \cup Blocks

VARIABLES
    stage,      \* how far each thread's life is
    host,       \* the realm that called new Worker for it
    mail,       \* messages each worker has posted to its creator, in order
    block,      \* the allocation its stack and TLS are in
    allocated,  \* the blocks the shared allocator has given out
    sender,     \* PANIC_SENDER is set on this thread
    senders,    \* live Sender handles of its join channel
    verdict,    \* what is in its join channel
    finished,   \* the AtomicBool of its JoinHandle
    owner,      \* who holds its JoinHandle
    blocked,    \* the thread an actor's join() waits for
    awaits,     \* the threads its join_async tasks wait for
    outcome,    \* what became of its closure
    answer      \* what its joiner was told

vars == <<stage, host, mail, block, allocated, sender, senders, verdict,
          finished, owner, blocked, awaits, outcome, answer>>

heapVars == <<block, allocated>>
joinVars == <<owner, blocked, awaits, answer>>
chanVars == <<sender, senders, verdict, finished>>

\* A spawn request carries the new thread, a completion nothing.
Request(u) == [new |-> u]
Completed  == [new |-> None]
Messages   == [new : Threads \cup {None}]

Stages == {"unspawned", "requested", "starting", "failed", "entry", "returned",
           "send", "panicking", "trapped", "drain", "wedged", "closed", "gone"}

\* Wasm code runs on the thread's stack, or its TLS holds the queue of tasks.
InWasm == {"entry", "returned", "send", "panicking", "trapped", "drain", "wedged"}

TypeOK ==
    /\ stage \in [Threads -> Stages]
    /\ host \in [Threads -> Actors \cup {None}]
    /\ mail \in [Threads -> Seq(Messages)]
    /\ block \in [Threads -> Blocks \cup {None}] /\ allocated \subseteq Blocks
    /\ sender \in [Threads -> BOOLEAN] /\ senders \in [Threads -> 0..2]
    /\ verdict \in [Threads -> {<<>>, <<"ok">>, <<"err">>}]
    /\ finished \in [Threads -> BOOLEAN]
    /\ owner \in [Threads -> Actors \cup {None}]
    /\ blocked \in [Threads -> Threads \cup {None}]
    /\ awaits \in [Actors -> SUBSET Threads]
    /\ outcome \in [Threads -> {"none", "returned", "panicked", "trapped"}]
    /\ answer \in [Threads -> {"none", "ok", "err", "disconnected", "refused"}]

Init ==
    /\ stage = [t \in Threads |-> "unspawned"]
    /\ host = [t \in Threads |-> None]
    /\ mail = [t \in Threads |-> <<>>]
    /\ block = [t \in Threads |-> None] /\ allocated = {}
    /\ sender = [t \in Threads |-> FALSE] /\ senders = [t \in Threads |-> 0]
    /\ verdict = [t \in Threads |-> <<>>]
    /\ finished = [t \in Threads |-> FALSE]
    /\ owner = [t \in Threads |-> None]
    /\ blocked = [t \in Threads |-> None]
    /\ awaits = [a \in Actors |-> {}]
    /\ outcome = [t \in Threads |-> "none"]
    /\ answer = [t \in Threads |-> "none"]

Goto(t, s) == stage' = [stage EXCEPT ![t] = s]
Post(t, m) == mail' = [mail EXCEPT ![t] = Append(@, m)]

\* The actor can execute Rust code: the main realm in some callback, a thread
\* in its closure or, after that, in one of its tasks.
CanAct(a) ==
    \/ a = Main
    \/ /\ a \in Threads /\ blocked[a] = None
       /\ stage[a] = "entry" \/ (stage[a] = "drain" /\ awaits[a] # {})

(***************************************************************************)
(* Spawning.  The spawner allocates the stack and the channel; the main    *)
(* realm creates every worker, asked by postMessage if need be.            *)
(***************************************************************************)

NewWorker(u, h) ==
    /\ Goto(u, "starting")
    /\ host' = [host EXCEPT ![u] = h]

\* Mutant: a worker creates the workers of the threads it spawns.
SpawnAtNested(a, u) == NewWorker(u, a) /\ UNCHANGED mail

SpawnAt(a, u) ==
    IF a = Main THEN NewWorker(u, Main) /\ UNCHANGED mail
    ELSE Post(a, Request(u)) /\ Goto(u, "requested") /\ UNCHANGED host

Spawn(a, u) ==
    /\ CanAct(a) /\ stage[u] = "unspawned"
    /\ \E b \in Blocks \ allocated :
         /\ allocated' = allocated \cup {b}
         /\ block' = [block EXCEPT ![u] = b]
    /\ senders' = [senders EXCEPT ![u] = 1]
    /\ owner' = [owner EXCEPT ![u] = a]
    /\ SpawnAt(a, u)
    /\ UNCHANGED <<sender, verdict, finished, blocked, awaits, outcome, answer>>

\* The main realm's onmessage: create the worker that was asked for, or
\* terminate the one that is done and free what it ran on.
OnMessage(t) ==
    /\ mail[t] # <<>>
    /\ mail' = [mail EXCEPT ![t] = Tail(@)]
    /\ LET u == Head(mail[t]).new IN
       IF u = None
       THEN /\ Goto(t, "gone")
            /\ allocated' = allocated \ {block[t]}
            /\ UNCHANGED host
       ELSE NewWorker(u, Main) /\ UNCHANGED allocated
    /\ UNCHANGED <<block, chanVars, joinVars, outcome>>

(***************************************************************************)
(* The worker bootstrap and the closure Builder::spawn gives it.           *)
(***************************************************************************)

\* The browser starts a worker through its creator's event loop, which turns
\* in the main realm and, in a worker, only once its closure has returned and
\* while no task blocks it.
Turning(a) == a # Main => stage[a] = "drain" /\ blocked[a] = None

\* Instantiate, point the stack pointer at the stack, initialise TLS, enter the
\* closure: it leaves a clone of the sender with the panic hook.
Start(t) ==
    /\ stage[t] = "starting" /\ Turning(host[t])
    /\ Goto(t, "entry")
    /\ sender' = [sender EXCEPT ![t] = TRUE]
    /\ senders' = [senders EXCEPT ![t] = @ + 1]
    /\ UNCHANGED <<host, mail, heapVars, verdict, finished, joinVars, outcome>>

\* The script does not load or the module does not instantiate: the failure is
\* logged, the boxed closure and the sender inside it are never touched again.
StartFails(t) ==
    /\ stage[t] = "starting" /\ t \in MayFail /\ Turning(host[t])
    /\ Goto(t, "failed")
    /\ UNCHANGED <<host, mail, heapVars, chanVars, joinVars, outcome>>

\* Mutant: the panic sender is not cleared.
ReturnsWithSender(t) ==
    /\ stage[t] = "entry" /\ blocked[t] = None
    /\ Goto(t, "returned")
    /\ outcome' = [outcome EXCEPT ![t] = "returned"]
    /\ UNCHANGED <<host, mail, heapVars, chanVars, joinVars>>

\* f() returns; the panic sender is taken and dropped, its clone with it.
Returns(t) ==
    /\ stage[t] = "entry" /\ blocked[t] = None
    /\ Goto(t, "returned")
    /\ outcome' = [outcome EXCEPT ![t] = "returned"]
    /\ sender' = [sender EXCEPT ![t] = FALSE]
    /\ senders' = [senders EXCEPT ![t] = @ - 1]
    /\ UNCHANGED <<host, mail, heapVars, verdict, finished, joinVars>>

MarkFinished(t) ==
    /\ stage[t] = "returned"
    /\ finished' = [finished EXCEPT ![t] = TRUE]
    /\ Goto(t, "send")
    /\ UNCHANGED <<host, mail, heapVars, sender, senders, verdict, joinVars, outcome>>

\* A send fails, without consequence, once the JoinHandle is dropped.
Send(t, v) == verdict' = [verdict EXCEPT ![t] = IF owner[t] = None THEN @
                                                 ELSE Append(@, v)]

\* send.send_sync(Ok(result)); the closure ends and drops the sender.
SendResult(t) ==
    /\ stage[t] = "send"
    /\ Send(t, "ok")
    /\ senders' = [senders EXCEPT ![t] = @ - 1]
    /\ Goto(t, "drain")
    /\ UNCHANGED <<host, mail, heapVars, sender, finished, joinVars, outcome>>

\* A panic in the closure: the hook takes the sender, which stores finished
\* and sends the message; then the instance traps and nothing is dropped.
Panic(t) ==
    /\ t \in MayPanic
    /\ stage[t] = "entry" /\ blocked[t] = None
    /\ outcome' = [outcome EXCEPT ![t] = "panicked"]
    /\ finished' = [finished EXCEPT ![t] = @ \/ sender[t]]
    /\ Goto(t, "panicking")
    /\ UNCHANGED <<host, mail, heapVars, sender, senders, verdict, joinVars>>

HookSends(t) ==
    /\ sender' = [sender EXCEPT ![t] = FALSE]
    /\ IF sender[t] THEN /\ Send(t, "err")
                         /\ senders' = [senders EXCEPT ![t] = @ - 1]
                    ELSE UNCHANGED <<verdict, senders>>

SendPanic(t) ==
    /\ stage[t] = "panicking"
    /\ HookSends(t)
    /\ awaits' = [awaits EXCEPT ![t] = {}]
    /\ Goto(t, "trapped")
    /\ UNCHANGED <<host, mail, heapVars, finished, owner, blocked, answer, outcome>>

\* An exception of an imported function unwinds the closure, or an abort ends it:
\* no hook runs, no destructor either, so both senders stay and nothing is sent.
\* The bootstrap takes it for a panic.
Traps(t) ==
    /\ t \in MayPanic
    /\ stage[t] = "entry" /\ blocked[t] = None
    /\ outcome' = [outcome EXCEPT ![t] = "trapped"]
    /\ awaits' = [awaits EXCEPT ![t] = {}]
    /\ Goto(t, "trapped")
    /\ UNCHANGED <<host, mail, heapVars, chanVars, owner, blocked, answer>>

\* A panic in a task, after the closure: the hook finds no sender to use, as if
\* none ran.  The tick never clears RUNNING, so the drain loop never reports.
TaskPanics(t) ==
    /\ t \in MayPanic
    /\ Turning(t) /\ awaits[t] # {}
    /\ HookSends(t)
    /\ awaits' = [awaits EXCEPT ![t] = {}]
    /\ Goto(t, "wedged")
    /\ UNCHANGED <<host, mail, heapVars, finished, owner, blocked, answer, outcome>>

\* Mutant: the worker reports as soon as its closure has returned.
ReportUndrained(t) ==
    /\ stage[t] \in {"trapped", "drain"}
    /\ Post(t, Completed)
    /\ Goto(t, IF awaits[t] = {} THEN "closed" ELSE stage[t])
    /\ UNCHANGED <<host, heapVars, chanVars, joinVars, outcome>>

\* finish(): at once after a panic, else when the executor is idle.
Report(t) ==
    /\ stage[t] = "trapped" \/ (Turning(t) /\ awaits[t] = {})
    /\ Post(t, Completed)
    /\ Goto(t, "closed")
    /\ UNCHANGED <<host, heapVars, chanVars, joinVars, outcome>>

(***************************************************************************)
(* The JoinHandle.                                                         *)
(***************************************************************************)

\* join from a worker blocks it; from the main realm it is refused, and the
\* handle is gone.
Join(a, t) ==
    /\ owner[t] = a /\ CanAct(a) /\ t \notin awaits[a]
    /\ IF a = Main
       THEN /\ answer' = [answer EXCEPT ![t] = "refused"]
            /\ owner' = [owner EXCEPT ![t] = None]
            /\ UNCHANGED blocked
       ELSE /\ blocked' = [blocked EXCEPT ![a] = t]
            /\ UNCHANGED <<owner, answer>>
    /\ UNCHANGED <<stage, host, mail, heapVars, chanVars, awaits, outcome>>

\* A task that awaits join_async.
JoinAsync(a, t) ==
    /\ owner[t] = a /\ CanAct(a) /\ t \notin awaits[a]
    /\ awaits' = [awaits EXCEPT ![a] = @ \cup {t}]
    /\ UNCHANGED <<stage, host, mail, heapVars, chanVars, owner, blocked,
                   answer, outcome>>

DropHandle(a, t) ==
    /\ owner[t] = a /\ CanAct(a) /\ t \notin awaits[a]
    /\ owner' = [owner EXCEPT ![t] = None]
    /\ UNCHANGED <<stage, host, mail, heapVars, chanVars, blocked, awaits,
                   answer, outcome>>

\* The channel's receive answers: the verdict, or that no sender is left.
Answer(t) ==
    /\ verdict[t] # <<>> \/ senders[t] = 0
    /\ IF verdict[t] # <<>>
       THEN /\ answer' = [answer EXCEPT ![t] = Head(verdict[t])]
            /\ verdict' = [verdict EXCEPT ![t] = Tail(@)]
       ELSE /\ answer' = [answer EXCEPT ![t] = "disconnected"]
            /\ UNCHANGED verdict
    /\ owner' = [owner EXCEPT ![t] = None]
    /\ UNCHANGED <<stage, host, mail, heapVars, sender, senders, finished, outcome>>

JoinReturns(a) ==
    /\ blocked[a] # None
    /\ Answer(blocked[a])
    /\ blocked' = [blocked EXCEPT ![a] = None]
    /\ UNCHANGED awaits

JoinAsyncReturns(a) ==
    /\ Turning(a)
    /\ \E t \in awaits[a] :
         /\ Answer(t)
         /\ awaits' = [awaits EXCEPT ![a] = @ \ {t}]
    /\ UNCHANGED blocked

(***************************************************************************)
(* The specification.                                                      *)
(***************************************************************************)

Running(t) == Start(t) \/ Returns(t) \/ MarkFinished(t) \/ SendResult(t)
              \/ SendPanic(t) \/ Report(t) \/ JoinReturns(t)

Next ==
    \/ \E a \in Actors, t \in Threads :
         Spawn(a, t) \/ Join(a, t) \/ JoinAsync(a, t) \/ DropHandle(a, t)
    \/ \E t \in Threads : Running(t) \/ StartFails(t) \/ Panic(t) \/ Traps(t)
                          \/ TaskPanics(t) \/ OnMessage(t)
    \/ \E a \in Actors : JoinAsyncReturns(a)

Spec == Init /\ [][Next]_vars

(***************************************************************************)
(* Safety properties.                                                      *)
(***************************************************************************)

InUse(t) == stage[t] \in InWasm \cup {"requested", "starting"} \/ awaits[t] # {}

\* A thread's stack and TLS stay allocated, and its own, from the spawn until
\* it runs no more wasm and none of its tasks, queued in its TLS, is pending.
StorageInUse ==
    \A t \in Threads : InUse(t) =>
        /\ block[t] \in allocated
        /\ \A u \in Threads \ {t} : InUse(u) => block[u] # block[t]

\* One verdict per thread, and the true one: whatever is in the channel or was
\* answered is what became of the closure, join never finds the channel
\* disconnected, and is_finished() is true by the time join can return.
OneTrueVerdict ==
    \A t \in Threads :
        /\ answer[t] \in {"ok", "err"} => verdict[t] = <<>>
        /\ verdict[t] = <<"ok">> \/ answer[t] = "ok" => outcome[t] = "returned"
        /\ verdict[t] = <<"err">> \/ answer[t] = "err" => outcome[t] = "panicked"
        /\ answer[t] # "disconnected"
        /\ verdict[t] # <<>> \/ answer[t] \in {"ok", "err"} => finished[t]

(***************************************************************************)
(* Why they hold.                                                          *)
(***************************************************************************)

\* Storage goes back when the main realm takes the completion message, the last
\* one of a worker that is closed.  Every other one keeps a block of its own,
\* and only a worker that can still run tasks has any.
Stored(t) == stage[t] \notin {"unspawned", "gone"}
HeapExact ==
    \A t \in Threads :
        /\ Stored(t) => /\ block[t] \in allocated
                        /\ \A u \in Threads \ {t} : Stored(u) => block[u] # block[t]
        /\ awaits[t] # {} => stage[t] \in {"entry", "returned", "send", "panicking", "drain"}

\* Each thread is asked for once.
MailExact ==
    \A t \in Threads : \A i \in 1..Len(mail[t]) :
        LET u == mail[t][i].new IN
        IF u = None THEN stage[t] = "closed" /\ i = Len(mail[t])
        ELSE /\ stage[u] = "requested"
             /\ \A v \in Threads : \A j \in 1..Len(mail[v]) :
                    mail[v][j].new = u => v = t /\ j = i

Asked   == {"requested", "starting", "failed"}
Settled == {"trapped", "drain", "wedged", "closed", "gone"}
Truth(t) == IF outcome[t] = "returned" THEN "ok" ELSE "err"

\* The thread has sent its verdict: a trap past the hook never does.
Told(t) == stage[t] \in Settled /\ outcome[t] # "trapped"

\* The channel by the stage of its thread: the closure's sender and its clone,
\* dropped by a return and leaked by a trap, and a verdict that is sent once.
ChannelExact ==
    \A t \in Threads :
        /\ sender[t] <=> stage[t] \in {"entry", "panicking"} \/ outcome[t] = "trapped"
        /\ stage[t] = "unspawned" => senders[t] = 0
        /\ stage[t] \in Asked \cup {"returned", "send"} => senders[t] = 1
        /\ sender[t] => senders[t] = 2
        /\ stage[t] \in {"unspawned", "entry"} \cup Asked <=> outcome[t] = "none"
        /\ stage[t] \in {"returned", "send", "drain", "wedged"} => outcome[t] = "returned"
        /\ stage[t] = "panicking" => outcome[t] = "panicked"
        /\ stage[t] = "trapped" => outcome[t] \in {"panicked", "trapped"}
        /\ finished[t] <=> stage[t] \in {"send", "panicking"} \/ Told(t)
        /\ IF Told(t)
           THEN /\ verdict[t] \in {<<>>, <<Truth(t)>>}
                /\ owner[t] # None => verdict[t] = <<Truth(t)>>
                /\ answer[t] \in {"none", "refused", Truth(t)}
                /\ answer[t] = Truth(t) => verdict[t] = <<>>
           ELSE verdict[t] = <<>> /\ answer[t] \in {"none", "refused"}

\* Whoever joins a thread holds its handle, and joins it in one way.
HandlesExact ==
    /\ \A t \in Threads : stage[t] = "unspawned" => owner[t] = None
    /\ \A a \in Actors : \A t \in awaits[a] : owner[t] = a
    /\ \A a \in Threads : blocked[a] # None => /\ owner[blocked[a]] = a
                                             /\ blocked[a] \notin awaits[a]

IInv == TypeOK /\ HeapExact /\ MailExact /\ ChannelExact /\ HandlesExact

(***************************************************************************)
(* Progress.                                                               *)
(***************************************************************************)

Waits(a, t) == t \in awaits[a] \/ (a \in Threads /\ blocked[a] = t)

\* No verdict will come of a thread that failed to start or trapped past the hook.
Mute(t) == stage[t] = "failed" \/ outcome[t] = "trapped"

\* The actor is mute or blocked in a join of one that is lost: the least set.
Lost(a) ==
    \A S \in SUBSET Threads :
        (\A t \in Threads : Mute(t) \/ blocked[t] \in S => t \in S) => a \in S

\* A join returns, blocking or awaited, even of a thread that the blocked worker
\* has only just asked for and of threads that panic.  Only the chain of joins
\* that ends in a mute thread waits for ever.
JoinsReturn ==
    \A a \in Actors, t \in Threads : Waits(a, t) ~> ~Waits(a, t) \/ Lost(t) \/ Lost(a)

\* The storage of every thread comes back, also of one that panicked or trapped:
\* each worker reports and is terminated.  Kept are the storage of a worker that
\* did not start, that has a panic in a task, or that waits for ever.
WorkersReclaimed ==
    \A t \in Threads :
        stage[t] # "unspawned" ~> \/ stage[t] \in {"gone", "wedged", "failed"}
                                 \/ \E u \in Threads : Waits(t, u) /\ Lost(u)
=============================================================================
