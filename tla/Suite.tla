-------------------------------- MODULE Suite --------------------------------
(* The headless runner and the page it watches: a fresh page per case, a       *)
(* verdict the page publishes when its last body is done, and the runner that  *)
(* polls for it, counts and exits.  A listing of the cases runs nothing and is  *)
(* left out.                                                                    *)
EXTENDS Integers, Sequences, FiniteSets

CONSTANTS Modules,     \* the modules it may be given: see Modular
          MaxBodies,   \* bound on the asynchronous bodies one entry starts
          MaxPolls     \* polls before the deadline passes

VARIABLES module,   \* the module it is given, with what the filters select of it
          args,     \* which ignored cases are admitted, whether to measure, and
                    \* whether WASM_LITE_RUN_SECONDS is set
          at,       \* the number of the case the runner is at
          step,     \* where the runner is in that case
          polls,    \* polls of this page so far
          seen,     \* what the runner has read of the page
          results,  \* what it reported, per case
          code,     \* its exit code
          page      \* the page of the current case

vars == <<module, args, at, step, polls, seen, results, code, page>>

\* --------------------------------------------------------------- the cases
Decls == [kind : {"test", "bench", "main"}, ignored : BOOLEAN,
          should : {"no", "any", "expected"}, selected : BOOLEAN]
Modular(m) == /\ m.tests \in Seq({d \in Decls : d.kind = "test"})
              /\ m.benches \in Seq({d \in Decls : d.kind = "bench"})
              /\ m.entry \in BOOLEAN      \* it has a `main` of its own
              /\ m.selected \in BOOLEAN   \* which the filters select
\* With neither tests nor benchmarks, running `main` is the whole job.  The
\* benchmarks of a module that has tests are not run.
Bare == module.tests = <<>> /\ module.benches = <<>>
OwnMain == [kind |-> "main", ignored |-> FALSE, should |-> "no", selected |-> module.selected]
Cases == (IF module.tests # <<>> THEN module.tests ELSE module.benches)
           \o IF Bare \/ module.entry THEN <<OwnMain>> ELSE <<>>
AdmitsIgnored(a, ignored) == IF a.only THEN ignored ELSE ~ignored \/ a.include
Runs(d) == Bare \/ (d.selected /\ AdmitsIgnored(args, d.ignored))
Watches == Bare /\ args.seconds

\* ------------------------------------------------------------------ the page
\* waiting: bodies that may go on; count: __wl_async_pending; done: __wl_done;
\* stuck: a tick trapped, so the executor runs nothing any more.
Fresh == [st |-> "loading", waiting |-> 0, count |-> 0, done |-> "none", stuck |-> FALSE,
          panicked |-> FALSE, message |-> FALSE, bench |-> FALSE, measured |-> FALSE,
          startError |-> FALSE]
NoPage == [Fresh EXCEPT !.st = "blank"]

PassFlag(p) == [p EXCEPT !.count = 0, !.done = "ok"]
Pass(p) == LET left == (IF p.count = 0 THEN 1 ELSE p.count) - 1
           IN [p EXCEPT !.count = left, !.done = IF left = 0 THEN "ok" ELSE @]

Fail(p, message) == [p EXCEPT !.done = "failed", !.panicked = TRUE, !.message = @ \/ message]

\* The bootstrap: the entry starts n bodies, each marked pending, and returns or
\* traps; a page with nothing pending has its verdict there.
Boot(n, traps, message, measures) ==
    LET marked == [page EXCEPT !.st = "live", !.waiting = n, !.count = n]
        quiet == Cases[at].kind = "bench" /\ n = 0
    IN /\ page.st = "loading"
       /\ page' = IF traps THEN Fail(marked, message)
                  ELSE [marked EXCEPT !.done = IF n = 0 THEN "ok" ELSE @,
                                      !.measured = measures, !.bench = quiet /\ measures]

\* A tick runs a body to its end, or into a panic.
Finish == /\ page.st = "live" /\ page.waiting > 0 /\ ~page.stuck
          /\ page' = Pass([page EXCEPT !.waiting = @ - 1])
Panic(message) ==
    /\ page.st = "live" /\ page.waiting > 0 /\ ~page.stuck
    /\ page' = [Fail(page, message) EXCEPT !.stuck = TRUE]
\* A benchmark that had to wait publishes what it measured a little after that.
Measure == /\ page.st = "live" /\ page.done # "none" /\ page.measured /\ ~page.bench
           /\ page' = [page EXCEPT !.bench = TRUE]
\* A worker cannot be started; the page dies.
StartFails == page.st = "live" /\ page' = [page EXCEPT !.startError = TRUE]
Discard == page.st = "live" /\ page' = [page EXCEPT !.st = "gone"]

\* One case starts at most one body; the module's own main may start several,
\* one for each doctest of a merged bundle, and trap after that.
MayBoot(n, traps, message, measures) ==
    /\ message => traps
    /\ measures => Cases[at].kind = "bench" /\ ~traps
    /\ Cases[at].kind # "main" => n <= 1 /\ (traps => n = 0)

Page == /\ at <= Len(Cases)
        /\ \/ \E n \in 0..MaxBodies, traps, message, measures \in BOOLEAN :
                 MayBoot(n, traps, message, measures) /\ Boot(n, traps, message, measures)
           \/ Finish \/ Measure \/ StartFails \/ Discard
           \/ \E message \in BOOLEAN : Panic(message)
        /\ UNCHANGED <<module, args, at, step, polls, seen, results, code>>

\* ---------------------------------------------------------------- the runner
Init ==
    /\ module \in Modules
    /\ args \in [only : BOOLEAN, include : BOOLEAN, measure : BOOLEAN, seconds : BOOLEAN]
    /\ at = 1 /\ step = "open" /\ polls = 0 /\ seen = "nothing"
    /\ results = <<>> /\ code = -1 /\ page = NoPage

Reported(r) == /\ results' = Append(results, r) /\ at' = at + 1 /\ step' = "next"
               /\ seen' = "nothing" /\ polls' = 0 /\ UNCHANGED <<module, args, code, page>>
\* An error of the session ends the run, and so does one before there is any.
Abort == code' = 2 /\ step' = "end" /\ UNCHANGED <<module, args, at, polls, seen, results, page>>
Continue(s) == step' = s /\ UNCHANGED <<module, args, at, polls, seen, results, code, page>>

Open == step = "open" /\ (Abort \/ Continue("next"))

\* A fresh page for a case that runs.  A test that is not admitted is reported as
\* ignored, everything else that does not run as filtered out.
NextCase ==
    /\ step = "next" /\ at <= Len(Cases)
    /\ IF ~Runs(Cases[at])
       THEN Reported(IF Cases[at].kind = "test" /\ Cases[at].selected
                     THEN "ignored" ELSE "filtered")
       ELSE \/ Abort
            \/ /\ page' = Fresh /\ step' = IF Watches THEN "watch" ELSE "poll"
               /\ UNCHANGED <<module, args, at, polls, seen, results, code>>

PollDone ==
    /\ step = "poll"
    /\ IF page.st = "gone" THEN Reported("FAILED")
       ELSE IF page.done # "none" THEN Continue("verdict")
       ELSE Continue("start")

PollForever ==
    /\ step = "start"
    /\ IF page.st # "gone" /\ page.startError THEN Reported("FAILED") ELSE Continue("poll")
PollStart ==
    /\ step = "start"
    /\ IF (page.st # "gone" /\ page.startError) \/ polls = MaxPolls THEN Reported("FAILED")
       ELSE /\ polls' = polls + 1 /\ step' = "poll"
            /\ UNCHANGED <<module, args, at, seen, results, code, page>>

\* A program with nothing to verify is kept alive for as many seconds as were asked
\* for, unless it publishes a failure.  What is read in the end is only whether it
\* has: a program that has not come to its verdict passes.
Watch ==
    /\ step = "watch"
    /\ IF polls = MaxPolls THEN Continue("look")
       ELSE IF page.st = "gone" THEN Abort
       ELSE IF page.done = "failed" THEN Continue("look")
       ELSE polls' = polls + 1 /\ UNCHANGED <<module, args, at, step, seen, results, code, page>>
Look ==
    /\ step = "look"
    /\ IF page.st = "gone" THEN Abort
       ELSE /\ seen' = (IF page.done = "failed" THEN "failed" ELSE "unfailed") /\ step' = "report"
            /\ UNCHANGED <<module, args, at, polls, results, code, page>>

\* The verdict and the console are read one after the other; a case that is
\* expected to panic has its verdict inverted.
ReadVerdict ==
    /\ step = "verdict"
    /\ IF page.st = "gone" THEN Abort
       ELSE /\ seen' = page.done /\ step' = "report"
            /\ UNCHANGED <<module, args, at, polls, results, code, page>>

Verdict(should, ok, message) ==
    CASE should = "no" -> ok
      [] should = "any" -> ~ok
      [] should = "expected" -> ~ok /\ message
\* What is read of the page after its verdict: not of a benchmark that passed and
\* is not measured, nor of a program that was watched and has not failed.
ReadOn(d) == ~((d.kind = "bench" /\ seen = "ok" /\ ~args.measure) \/ seen = "unfailed")
Report ==
    LET d == Cases[at]
        ok == seen = "ok"
    IN /\ step = "report"
       /\ IF page.st = "gone" /\ ReadOn(d) THEN Abort
          ELSE IF Watches THEN Reported(IF seen = "unfailed" THEN "ok" ELSE "FAILED")
          ELSE IF d.kind = "bench"
          THEN Reported(IF ok /\ (args.measure => page.bench) THEN "ok" ELSE "FAILED")
          ELSE Reported(IF Verdict(d.should, ok, page.message) THEN "ok" ELSE "FAILED")

Count(r) == Cardinality({i \in 1..Len(results) : results[i] = r})
Summary ==
    /\ step = "next" /\ at > Len(Cases)
    /\ code' = IF Count("FAILED") = 0 THEN 0 ELSE 1
    /\ step' = "end" /\ UNCHANGED <<module, args, at, polls, seen, results, page>>

Runner == Open \/ NextCase \/ PollDone \/ PollStart \/ ReadVerdict
          \/ Watch \/ Look \/ Report \/ Summary
Next == Page \/ Runner
Spec == Init /\ [][Next]_vars /\ WF_vars(Runner)
-----------------------------------------------------------------------------
\* Fail-closed: the runner has read a pass only when the entry has run and every
\* body it started is done, so the first of several cannot publish for the rest.
\* Only a module without tests and benchmarks that is watched for a time goes
\* without: its pass says no more than that no failure was there to be read.
PassMeansAllDone ==
    /\ seen = "ok" => page.waiting = 0 /\ page.count = 0
    /\ seen = "unfailed" => Watches

\* The exit code says what happened to each case that the run is about: none is
\* skipped but those the arguments exclude, and no failure is left out of it.
RunReports ==
    /\ code \in {0, 1} =>
         /\ Len(results) = Len(Cases)
         /\ code = 0 <=> Count("FAILED") = 0
         /\ \A i \in 1..Len(Cases) : results[i] \in {"ok", "FAILED"} <=> Runs(Cases[i])

\* A case that hangs, or a page that dies, is that case's failure: the run ends.
RunEnds == <>(code # -1)

\* "A panic inside it fails the test": no case that panicked in the page is passed.
PanicIsReported == seen = "ok" => ~page.panicked
\* Why: the page counts the bodies that may still go on, a pass is published at
\* the last one, and the runner reads it of the page it opened for this case.
Pages == [st : {"blank", "loading", "live", "gone"}, waiting : Nat, count : Nat,
          done : {"none", "ok", "failed"}, stuck : BOOLEAN, panicked : BOOLEAN,
          message : BOOLEAN, bench : BOOLEAN, measured : BOOLEAN, startError : BOOLEAN]
TypeOK ==
    /\ module \in Modules
    /\ args \in [only : BOOLEAN, include : BOOLEAN, measure : BOOLEAN, seconds : BOOLEAN]
    /\ at \in 1..(Len(Cases) + 1) /\ code \in {-1, 0, 1, 2}
    /\ step \in {"open", "next", "poll", "start", "verdict", "watch", "look", "report", "end"}
    /\ results \in Seq({"ok", "FAILED", "ignored", "filtered"})
    /\ page \in Pages
IInv ==
    /\ TypeOK
    /\ page.waiting = page.count
    /\ page.done = "ok" => page.waiting = 0
    /\ page.st = "loading" => page.done = "none"
    /\ step \notin {"report", "end"} => seen = "nothing"
    /\ seen = "ok" => page.done = "ok"
    /\ step \in {"watch", "look"} \/ seen = "unfailed" => Watches
    /\ step \notin {"open", "next", "end"} => at <= Len(Cases) /\ Runs(Cases[at])
    /\ step # "end" => code = -1
    /\ Len(results) = at - 1
    /\ \A i \in 1..Len(results) : results[i] \in {"ok", "FAILED"} <=> Runs(Cases[i])
    /\ code \in {0, 1} => at = Len(Cases) + 1 /\ (code = 0 <=> Count("FAILED") = 0)
=============================================================================
