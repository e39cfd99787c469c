------------------------------- MODULE Browsers -------------------------------
(* The runners of one user on one host and the browsers they drive: the slots   *)
(* that cap the ephemeral browsers, the lock and the state file of the shared   *)
(* one, drivers and sessions, the signals of a user and the watchdog thread     *)
(* that acts on them, and runners that are killed outright.                     *)
(*                                                                              *)
(* An action is one call of the file system, with two exceptions.  A file is     *)
(* created and given the pid in one step, unless its runner is killed in between: *)
(* a reader in between would find it empty and too young to be dead.  A creation  *)
(* of the lock that fails and the look at its age are one step: what the look     *)
(* finds old has been there for ten minutes.  A pid is not reused.                *)
EXTENDS Naturals, FiniteSets

CONSTANTS Runners,
          Modes,      \* the ways to combine them: [runner -> "ephemeral" or "reuse"]
          MaxLimit,   \* what max_browsers may answer at most
          MaxKills    \* runners killed outright

Nobody == "nobody"
Gone == "gone"
Slots == 0..(MaxLimit - 1)
LockFile == MaxLimit

VARIABLES mode,     \* whether WASM_LITE_REUSE_BROWSER is set
          procfs,   \* whether the host has a /proc to look pids up in
          pc,       \* where each runner's main thread is
          limit,    \* the limit of its current attempt
          at,       \* the slot it looks at or has
          named,    \* the pid it has read there, "empty" if none is to be looked up
          life,     \* "running", or how it ended: "exited", "signalled", "killed"
          signal,   \* PENDING
          cleanup,  \* CLEANUP: "none", "driver" or "session"
          watchdog, \* its watchdog: "off", "polling", "closing" or "killing"
          driver,   \* its driver: "none", "up", "session" or "dead"
          slot,     \* each slot file: Nobody, "empty", or a pid, Gone an ended one's
          lock,     \* the lock file: Nobody or a pid
          stale,    \* slot and lock files past their age
          state,    \* the state file: Nobody or whose driver it records
          stopping, \* whether a --stop-browser is under way
          robbed,   \* live runners whose slot or lock another has removed
          late,     \* those of them that were about to remove it themselves
          evictors  \* runners that removed another's when they released theirs

places == <<mode, procfs, limit, at, named>>
runnerVars == <<pc, places>>
endVars == <<life, signal, cleanup, watchdog, driver>>
thefts == <<robbed, late, evictors>>
files == <<slot, lock, stale, state, stopping>>
fileVars == <<files, thefts>>
vars == <<runnerVars, endVars, fileVars>>

Init ==
    /\ mode \in Modes /\ procfs \in BOOLEAN
    /\ pc = [r \in Runners |-> "idle"]
    /\ limit = [r \in Runners |-> 1] /\ at = [r \in Runners |-> 0]
    /\ named = [r \in Runners |-> Nobody]
    /\ life = [r \in Runners |-> "running"] /\ signal = [r \in Runners |-> FALSE]
    /\ cleanup = [r \in Runners |-> "none"] /\ watchdog = [r \in Runners |-> "off"]
    /\ driver = [r \in Runners |-> "none"]
    /\ slot \in [Slots -> {Nobody, Gone}] /\ lock = Nobody /\ stale = {}
    /\ state = Nobody /\ stopping = FALSE
    /\ robbed = {} /\ late = {} /\ evictors = {}

Running(r) == life[r] = "running"
Ephemeral(r) == mode[r] = "ephemeral"
Goto(r, p) == pc' = [pc EXCEPT ![r] = p]
Step(r, from, to) == Running(r) /\ pc[r] = from /\ Goto(r, to)
-----------------------------------------------------------------------------
(* Admission.                                                                *)
Open(r) ==
    /\ Step(r, "idle", IF Ephemeral(r) THEN "attempt" ELSE "lock")
    /\ watchdog' = [watchdog EXCEPT ![r] = IF Ephemeral(r) THEN "polling" ELSE "off"]
    /\ UNCHANGED <<places, life, signal, cleanup, driver, fileVars>>

\* The limit is a function of the free memory, read anew by every attempt and
\* of no use once a slot is had.
Attempt(r) ==
    /\ Step(r, "attempt", "claim") /\ \E n \in 1..MaxLimit : limit' = [limit EXCEPT ![r] = n]
    /\ at' = [at EXCEPT ![r] = 0]
    /\ UNCHANGED <<mode, procfs, named, endVars, fileVars>>

NextSlot(r) == IF at[r] + 1 < limit[r]
               THEN at' = [at EXCEPT ![r] = @ + 1] /\ Goto(r, "claim")
               ELSE at' = [at EXCEPT ![r] = 0] /\ Goto(r, "attempt")
Create(r, next) ==
    /\ IF slot[at[r]] = Nobody
       THEN /\ slot' = [slot EXCEPT ![at[r]] = r] /\ Goto(r, "admitted")
            /\ limit' = [limit EXCEPT ![r] = 1] /\ UNCHANGED at
       ELSE UNCHANGED <<slot, limit>> /\ next
    /\ UNCHANGED <<mode, procfs, named, endVars, lock, stale, state, thefts, stopping>>
Claim(r) == /\ Running(r) /\ pc[r] = "claim"
            /\ Create(r, Goto(r, "judge") /\ UNCHANGED at)
Reclaim(r) == Running(r) /\ pc[r] = "create_again" /\ Create(r, NextSlot(r))

\* By the pid that was read, which is looked up only afterwards; by the age of
\* the file when there is no pid in it or no procfs.
Live == {r \in Runners : Running(r)}
SlotIsDead(r) == IF named[r] # "empty" THEN named[r] \notin Live
                 ELSE slot[at[r]] # Nobody /\ at[r] \in stale
Judge(r) ==
    /\ Running(r) /\ pc[r] = "judge"
    /\ IF slot[at[r]] = Nobody THEN NextSlot(r) /\ UNCHANGED named
       ELSE /\ named' = [named EXCEPT ![r] = IF procfs THEN slot[at[r]] ELSE "empty"]
            /\ Goto(r, "probe") /\ UNCHANGED at
    /\ UNCHANGED <<mode, procfs, limit, endVars, fileVars>>
Probe(r) ==
    /\ Running(r) /\ pc[r] = "probe" /\ named' = [named EXCEPT ![r] = Nobody]
    /\ IF SlotIsDead(r) THEN Goto(r, "remove") /\ UNCHANGED at ELSE NextSlot(r)
    /\ UNCHANGED <<mode, procfs, limit, endVars, fileVars>>

\* A file is removed, whoever's it is by now.
Removed(r, owner) ==
    LET victim == ({owner} \cap Live) \ {r}
    IN  /\ robbed' = robbed \cup victim
        /\ late' = late \cup {q \in victim : pc[q] \in {"unlink", "unlink_lock"}}
Remove(r) ==
    /\ Step(r, "remove", "create_again")
    /\ slot' = [slot EXCEPT ![at[r]] = Nobody] /\ Removed(r, slot[at[r]])
    /\ stale' = stale \ {at[r]}
    /\ UNCHANGED <<places, endVars, lock, state, stopping, evictors>>
-----------------------------------------------------------------------------
(* A browser of its own.                                                     *)
Recorded(how) == \E r \in Runners : state = r /\ driver[r] = how
Fails(r) == IF Ephemeral(r) THEN Goto(r, "release") ELSE Goto(r, "unlock")
SpawnDriver(r) ==
    /\ Running(r) /\ (pc[r] = "admitted" \/ (pc[r] = "locked" /\ ~Recorded("session")))
    /\ \/ /\ Goto(r, IF Ephemeral(r) THEN "register" ELSE "setup")
          /\ driver' = [driver EXCEPT ![r] = "up"]
       \/ Fails(r) /\ UNCHANGED driver
    /\ UNCHANGED <<places, life, signal, cleanup, watchdog, fileVars>>
Register(r) ==
    /\ Running(r)
    /\ \/ pc[r] = "register" /\ Goto(r, "setup") /\ cleanup' = [cleanup EXCEPT ![r] = "driver"]
       \/ /\ pc[r] = "register_session" /\ Goto(r, "using")
          /\ cleanup' = [cleanup EXCEPT ![r] = "session"]
    /\ UNCHANGED <<places, life, signal, watchdog, driver, fileVars>>

\* The driver gets ready and makes a session, or it does not within ten seconds.
Setup(r) ==
    /\ Running(r) /\ pc[r] = "setup"
    /\ \/ /\ driver[r] = "up" /\ driver' = [driver EXCEPT ![r] = "session"]
          /\ Goto(r, IF Ephemeral(r) THEN "register_session" ELSE "record") /\ UNCHANGED cleanup
       \/ Goto(r, "abandon") /\ cleanup' = [cleanup EXCEPT ![r] = "none"] /\ UNCHANGED driver
    /\ UNCHANGED <<places, life, signal, watchdog, fileVars>>
Kill(r) == driver' = [driver EXCEPT ![r] = IF @ = "none" THEN @ ELSE "dead"]
Abandon(r) ==
    /\ Running(r) /\ pc[r] = "abandon" /\ Kill(r) /\ Fails(r)
    /\ UNCHANGED <<places, life, signal, cleanup, watchdog, fileVars>>

\* The tests are run.  Then the fields are dropped in order: the record, the
\* session and its driver, the slot.
DropBrowser(r) ==
    /\ Step(r, "using", IF Ephemeral(r) THEN "close" ELSE "unlock")
    /\ cleanup' = [cleanup EXCEPT ![r] = "none"]
    /\ UNCHANGED <<places, life, signal, watchdog, driver, fileVars>>
CloseSession(r) ==
    /\ Step(r, "close", "kill")
    /\ driver' \in {driver, [driver EXCEPT ![r] = IF @ = "session" THEN "up" ELSE @]}
    /\ UNCHANGED <<places, life, signal, cleanup, watchdog, fileVars>>
KillDriver(r) ==
    /\ Step(r, "kill", "release") /\ Kill(r)
    /\ UNCHANGED <<places, life, signal, cleanup, watchdog, fileVars>>
\* The owner looks whether the file still has its pid, and then removes what is
\* there.
ReleaseAny(r) == Step(r, "release", "unlink") /\ UNCHANGED <<places, endVars, fileVars>>
Release(r) ==
    /\ Step(r, "release", IF slot[at[r]] = r THEN "unlink" ELSE "exit")
    /\ UNCHANGED <<places, endVars, fileVars>>
Evicts(r, owner) == evictors' = IF owner \in {r, Nobody} THEN evictors ELSE evictors \cup {r}
Unlink(r) ==
    /\ Step(r, "unlink", "exit")
    /\ slot' = [slot EXCEPT ![at[r]] = Nobody] /\ stale' = stale \ {at[r]}
    /\ Removed(r, slot[at[r]]) /\ Evicts(r, slot[at[r]])
    /\ UNCHANGED <<places, endVars, lock, state, stopping>>
-----------------------------------------------------------------------------
(* The shared browser.                                                       *)
Lock(r) ==
    /\ Running(r) /\ pc[r] = "lock"
    /\ IF lock = Nobody THEN lock' = r /\ Goto(r, "locked")
       ELSE UNCHANGED lock /\ Goto(r, IF LockFile \in stale THEN "steal" ELSE "lock")
    /\ UNCHANGED <<places, endVars, slot, stale, state, thefts, stopping>>
Steal(r) ==
    /\ Step(r, "steal", "lock") /\ lock' = Nobody /\ stale' = stale \ {LockFile}
    /\ Removed(r, lock)
    /\ UNCHANGED <<places, endVars, slot, state, stopping, evictors>>
Reuse(r) ==
    /\ Step(r, "locked", "using") /\ Recorded("session")
    /\ UNCHANGED <<places, endVars, fileVars>>
WriteState(r) ==
    /\ Step(r, "record", "using") /\ state' = r
    /\ UNCHANGED <<places, endVars, slot, lock, stale, thefts, stopping>>
Unlock(r) ==
    /\ Step(r, "unlock", IF lock = r THEN "unlink_lock" ELSE "exit")
    /\ UNCHANGED <<places, endVars, fileVars>>
UnlinkLock(r) ==
    /\ Step(r, "unlink_lock", "exit") /\ lock' = Nobody /\ stale' = stale \ {LockFile}
    /\ Removed(r, lock) /\ Evicts(r, lock)
    /\ UNCHANGED <<places, endVars, slot, state, stopping>>
\* --stop-browser: no lock is taken, and the file that is removed may be newer
\* than the one that was read.
StopPersistent ==
    /\ ~stopping /\ state \in Runners /\ stopping' = TRUE /\ Kill(state)
    /\ UNCHANGED <<runnerVars, life, signal, cleanup, watchdog, slot, lock, stale, state, thefts>>
ClearState ==
    /\ stopping /\ stopping' = FALSE /\ state' = Nobody
    /\ UNCHANGED <<runnerVars, endVars, slot, lock, stale, thefts>>
-----------------------------------------------------------------------------
(* Ends.  Of a process that has ended only its driver and its files remain.   *)
Ends(r, how) ==
    /\ Running(r) /\ life' = [life EXCEPT ![r] = how] /\ Goto(r, "over")
    /\ limit' = [limit EXCEPT ![r] = 1] /\ at' = [at EXCEPT ![r] = 0]
    /\ signal' = [signal EXCEPT ![r] = FALSE] /\ cleanup' = [cleanup EXCEPT ![r] = "none"]
    /\ watchdog' = [watchdog EXCEPT ![r] = "off"]
    /\ named' = [named EXCEPT ![r] = Nobody] /\ UNCHANGED <<mode, procfs>>
    /\ robbed' = robbed \ {r} /\ late' = late \ {r} /\ evictors' = evictors \ {r}
Exit(r) == pc[r] = "exit" /\ Ends(r, "exited") /\ UNCHANGED <<driver, files>>

\* A Ctrl-C, a kill or a closed terminal: recorded, or deadly where no handler
\* has been installed.
Signal(r) ==
    /\ Running(r) /\ pc[r] # "idle" /\ ~signal[r] /\ watchdog[r] # "off"
    /\ signal' = [signal EXCEPT ![r] = TRUE]
    /\ UNCHANGED <<runnerVars, life, cleanup, watchdog, driver, fileVars>>
SignalUnhandled(r) ==
    pc[r] # "idle" /\ watchdog[r] = "off" /\ Ends(r, "signalled") /\ UNCHANGED <<driver, files>>
Notice(r) ==
    /\ Running(r) /\ watchdog[r] = "polling" /\ signal[r] /\ cleanup[r] # "none"
    /\ watchdog' = [watchdog EXCEPT ![r] = IF cleanup[r] = "session" THEN "closing" ELSE "killing"]
    /\ cleanup' = [cleanup EXCEPT ![r] = "none"]
    /\ UNCHANGED <<runnerVars, life, signal, driver, fileVars>>
NoticeNothing(r) ==
    watchdog[r] = "polling" /\ signal[r] /\ cleanup[r] = "none" /\ UNCHANGED vars
NoticeNothingToClose(r) ==
    /\ watchdog[r] = "polling" /\ signal[r] /\ cleanup[r] = "none"
    /\ Ends(r, "signalled") /\ UNCHANGED <<driver, files>>
\* The driver answers within five seconds or is not waited for.
TeardownClose(r) ==
    /\ Running(r) /\ watchdog[r] = "closing"
    /\ driver' \in {driver, [driver EXCEPT ![r] = IF @ = "session" THEN "up" ELSE @]}
    /\ watchdog' = [watchdog EXCEPT ![r] = "killing"]
    /\ UNCHANGED <<runnerVars, life, signal, cleanup, fileVars>>
TeardownKill(r) == watchdog[r] = "killing" /\ Kill(r) /\ Ends(r, "signalled") /\ UNCHANGED files

\* Killed outright: also between the creation of its slot file and its pid.
Killed(r) ==
    /\ pc[r] # "idle" /\ Cardinality({q \in Runners : life[q] = "killed"}) < MaxKills
    /\ Ends(r, "killed")
    /\ slot' \in {slot, [slot EXCEPT ![at[r]] = IF pc[r] = "admitted" /\ @ = r THEN "empty" ELSE @]}
    /\ UNCHANGED <<driver, lock, stale, state, stopping>>
\* Fifteen minutes for an abandoned slot, which matters where no pid decides, and
\* ten for a lock, held or not.
Ages ==
    /\ \/ \E s \in Slots : /\ slot[s] = "empty" \/ (~procfs /\ slot[s] # Nobody)
                           /\ s \notin stale /\ stale' = stale \cup {s}
       \/ lock # Nobody /\ LockFile \notin stale /\ stale' = stale \cup {LockFile}
    /\ UNCHANGED <<runnerVars, endVars, slot, lock, state, thefts, stopping>>

Main(r) ==
    \/ Attempt(r) \/ Claim(r) \/ Judge(r) \/ Probe(r) \/ Remove(r) \/ Reclaim(r)
    \/ SpawnDriver(r) \/ Register(r) \/ Setup(r) \/ Abandon(r)
    \/ CloseSession(r) \/ KillDriver(r) \/ Release(r) \/ Unlink(r)
    \/ Lock(r) \/ Steal(r) \/ Reuse(r) \/ WriteState(r)
    \/ Unlock(r) \/ UnlinkLock(r) \/ Exit(r)
Over == (\A r \in Runners : ~Running(r)) /\ UNCHANGED vars
Watchdog(r) == Notice(r) \/ NoticeNothingToClose(r) \/ TeardownClose(r) \/ TeardownKill(r)
Next ==
    \/ \E r \in Runners : Open(r) \/ Main(r) \/ DropBrowser(r) \/ Watchdog(r)
                          \/ Signal(r) \/ SignalUnhandled(r) \/ Killed(r)
    \/ StopPersistent \/ ClearState \/ Ages \/ Over
Spec == Init /\ [][Next]_vars
-----------------------------------------------------------------------------
Admitted(r) == /\ Running(r) /\ Ephemeral(r)
               /\ pc[r] \in {"admitted", "register", "setup", "abandon", "register_session",
                             "using", "close", "kill", "release", "unlink"}
HasLock(r) == /\ Running(r) /\ ~Ephemeral(r)
              /\ pc[r] \in {"locked", "setup", "abandon", "record", "using", "unlock", "unlink_lock"}

\* A runner keeps the slot or the lock that it has taken, so that no second one
\* is on it, unless a waiter that took it for dead has removed it.  A runner that
\* was robbed does not go on to remove its successor's, except between its look at
\* the file and its removal of it: that window the code leaves open.
OneOwner ==
    /\ \A r \in Runners \ robbed : (Admitted(r) => slot[at[r]] = r) /\ (HasLock(r) => lock = r)
    /\ evictors \subseteq late

\* A runner that exits by itself, whatever failed, leaves no slot, no lock and no
\* driver of its own; a driver it leaves to others has a session.
ExitsClean ==
    \A r \in Runners : life[r] = "exited" =>
        /\ r \notin {slot[s] : s \in Slots} /\ lock # r
        /\ driver[r] \in IF Ephemeral(r) THEN {"none", "dead"} ELSE {"none", "dead", "session"}

\* Why: of a runner that was not ended from outside, the files that name it are
\* the slot or the lock it has, and its driver is one it has still to kill or may
\* leave behind.
Alone == {"attempt", "claim", "judge", "probe", "remove", "create_again", "admitted", "register",
          "register_session", "close", "kill", "release", "unlink"}
Sharing == {"lock", "steal", "locked", "record", "unlock", "unlink_lock"}
TypeOK ==
    /\ mode \in [Runners -> {"ephemeral", "reuse"}] /\ procfs \in BOOLEAN
    /\ named \in [Runners -> Runners \cup {Nobody, Gone, "empty"}]
    /\ pc \in [Runners -> Alone \cup Sharing \cup {"idle", "setup", "abandon", "using", "exit", "over"}]
    /\ limit \in [Runners -> 1..MaxLimit] /\ at \in [Runners -> Slots]
    /\ life \in [Runners -> {"running", "exited", "signalled", "killed"}]
    /\ watchdog \in [Runners -> {"off", "polling", "closing", "killing"}]
    /\ driver \in [Runners -> {"none", "up", "session", "dead"}]
    /\ slot \in [Slots -> Runners \cup {Nobody, Gone, "empty"}]
    /\ lock \in Runners \cup {Nobody} /\ state \in Runners \cup {Nobody}
    /\ robbed \subseteq Runners /\ late \subseteq Runners /\ evictors \subseteq Runners
Undisturbed(r) == life[r] \in {"running", "exited"}
PlaceOK(r) == IF Ephemeral(r) THEN pc[r] \notin Sharing ELSE pc[r] \notin Alone /\ watchdog[r] = "off"
\* What it is about to remove is its own, or it has been robbed since it looked.
AboutOK(r) == Running(r) /\ r \notin late =>
                /\ pc[r] = "unlink" => slot[at[r]] = r
                /\ pc[r] = "unlink_lock" => lock = r
FilesOK(r) == /\ \A s \in Slots : slot[s] = r => Admitted(r) /\ at[r] = s
              /\ lock = r => HasLock(r)
DriverOK(r) ==
    IF Ephemeral(r)
    THEN driver[r] \in {"none", "dead"} \/ pc[r] \in
           {"register", "setup", "abandon", "register_session", "using", "close", "kill"}
    ELSE driver[r] # "up" \/ pc[r] \in {"setup", "abandon"}
IInv ==
    /\ TypeOK /\ OneOwner
    /\ \A r \in Runners : AboutOK(r) /\ (life[r] = "exited" => pc[r] = "over")
    /\ \A r \in Runners : Undisturbed(r) => PlaceOK(r) /\ FilesOK(r) /\ DriverOK(r)

\* A signal ends a runner that has taken the signals over, even if its driver
\* never answers.
SignalEnds == \A r \in Runners : signal[r] ~> ~Running(r)

\* A runner that waits for a slot is served, whoever was killed with one: the
\* others come to an end.
WaitersServed == \A r \in Runners : pc[r] = "attempt" ~> Admitted(r) \/ ~Running(r)
=============================================================================
