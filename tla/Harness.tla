------------------------------- MODULE Harness -------------------------------
(* From a function marked #[wasm_lite_test] or #[wasm_lite_bench] to the page  *)
(* that runs it: what the macro writes into the module, what the runner reads  *)
(* back and refuses, what it serves, and which cases it runs.                  *)
EXTENDS Integers, Sequences, SequencesExt, FiniteSets

CONSTANTS Worlds,      \* sets of functions, link flags and command lines: [functions, link, call]
          Contained    \* the pairs <<filter, path>> where the filter is part of the path

VARIABLES world,      \* the one of Worlds this behaviour is about
          phase,      \* how far the way from source to verdict has come
          at,         \* the function the compiler is at
          records,    \* the harness sections: [test, bench], a sequence of tokens per function
          exported,   \* the entry points the module exports
          native,     \* the libtest tests of the same source: [path, ignored, should]
          args,       \* the parsed command line
          decls,      \* the cases the runner has read: [test, bench]
          served,     \* the paths it serves
          run,        \* the cases it runs, in order, as [kind, path]
          shown,      \* the cases --list prints
          page,       \* the page of the case at the head of `run`
          advised     \* the module was linked again, as an error said

vars == <<world, phase, at, records, exported, native, args, decls, served, run, shown, page,
          advised>>
caseVars == <<world, phase, at, records, exported, native, args, decls, served, advised>>

F == world.functions
Link == world.link
Call == world.call
Elements(s) == {s[i] : i \in DOMAIN s}

\* ---------------------------------------------------------------- the macros
Named(attrs, name) == SelectSeq(attrs, LAMBDA a : a.name = name)
\* Mutant: any expected message is written into the record.
WellFormedLoosely(attr) == attr.name = "should_panic" => attr.form # "other"
WellFormed(attr) == attr.name = "should_panic" =>
    /\ attr.form # "other"
    /\ \A i \in DOMAIN attr.text : attr.text[i] \notin {"tab", "nl"}
\* The attributes that change how a result is judged; the last of a kind holds.
ReadVerdict(attrs) ==
    LET panics == Named(attrs, "should_panic")
    IN [ignored |-> Named(attrs, "ignore") # <<>>,
        should |-> IF panics = <<>> THEN [form |-> "no", text |-> <<>>]
                   ELSE [form |-> Last(panics).form, text |-> Last(panics).text]]
Fields(v) == (IF v.ignored THEN <<"tab", "ignore">> ELSE <<>>)
             \o CASE v.should.form = "no" -> <<>>
                  [] v.should.form = "bare" -> <<"tab", "should_panic">>
                  [] v.should.form = "text" -> <<"tab", "should_panic=">> \o v.should.text

TestArgs == {"worker", "crate", "std_crate"}
BenchArgs == {"crate", "std_crate"}
Rejected(f) == \/ ~(f.args \subseteq IF f.kind = "test" THEN TestArgs ELSE BenchArgs)
               \/ f.returns \/ \E a \in Elements(f.attrs) : ~WellFormed(a)
RejectedBench(f) == f.params # 1 \/ Named(f.attrs, "should_panic") # <<>>

\* What the entry does before it returns, and what the task does that it spawns.
Entry(f) ==
    IF "worker" \in f.args
    THEN [now |-> <<"hook", "pending">>, later |-> <<"spawn", "join", "pass">>]
    ELSE IF f.async THEN [now |-> <<"hook", "pending">>, later |-> <<"body", "pass">>]
    ELSE [now |-> <<"hook", "body">>, later |-> <<>>]
BenchEntry(f) ==
    IF f.async THEN [now |-> <<"hook", "pending">>, later |-> <<"body", "record", "pass">>]
    ELSE [now |-> <<"hook", "body", "record">>, later |-> <<>>]

\* Off wasm32: a sync body is the test itself, an async one gets a test that
\* drives it and takes the verdict attributes along.
NativeTest(f) ==
    LET v == ReadVerdict(f.attrs)
        test == [path |-> f.path, ignored |-> v.ignored, should |-> v.should]
    IN IF f.kind = "bench" THEN <<>>
       ELSE IF Named(f.attrs, "test") = <<>> THEN <<test>>
       ELSE IF f.async THEN <<>> ELSE <<test>>   \* its own #[test]; rustc refuses an async one

Expand ==
    LET f == F[at]
    IN /\ phase = "source" /\ at <= Len(F)
       /\ IF Rejected(f) \/ (f.kind = "bench" /\ RejectedBench(f))
          THEN phase' = "rejected" /\ UNCHANGED <<at, records, exported, native>>
          ELSE /\ records' = [records EXCEPT ![f.kind] =
                                Append(@, <<f.path>> \o Fields(ReadVerdict(f.attrs)) \o <<"nl">>)]
               /\ exported' = exported \cup {[kind |-> f.kind, path |-> f.path]}
               /\ native' = native \o NativeTest(f)
               /\ at' = at + 1 /\ UNCHANGED phase
       /\ UNCHANGED <<world, args, decls, served, run, shown, page, advised>>

\* The linker joins the sections of a name into one, or leaves them apart; a
\* library of another version may bring records this runner does not know.
Compile == /\ phase = "source" /\ at > Len(F)
           /\ phase' = "linked"
           /\ LET all == [records EXCEPT !.test = @ \o Link.foreign]
              IN records' = [k \in DOMAIN all |->
                                IF Link.joined /\ all[k] # <<>>
                                THEN <<FlattenSeq(all[k])>> ELSE all[k]]
           /\ UNCHANGED <<world, at, exported, native, args, decls, served,
                          run, shown, page, advised>>

\* ------------------------------------------------------------- the arguments
Flag(a) == a \in {"--stop-browser", "--serve", "--test", "--exact", "--list", "--bench",
                  "--include-ignored", "--ignored", "--nocapture"}
ParseArgs(argv) ==
    LET names == SelectSeq(argv, LAMBDA a : ~Flag(a))
    IN [program |-> IF names = <<>> THEN "none" ELSE Head(names),
        filters |-> IF names = <<>> THEN <<>> ELSE Tail(names), flags |-> Elements(argv)]

AdmitsIgnored(a, ignored) ==
    IF "--ignored" \in a.flags THEN ignored ELSE ~ignored \/ "--include-ignored" \in a.flags
Selects(a, path) ==
    \/ a.filters = <<>>
    \/ \E f \in Elements(a.filters) :
         IF "--exact" \in a.flags THEN path = f ELSE path = f \/ <<f, path>> \in Contained

\* The places cargo and rustdoc put what they mean to be run as a test.
TestArtifact == \/ Call.dir = "deps" \/ Call.doctest
                \/ Call.dir = "out" /\ Call.inBuild

\* ------------------------------------------------- reading the module back
Split(s, mark) ==
    LET cuts == SetToSortSeq({0, Len(s) + 1} \cup {i \in DOMAIN s : s[i] = mark}, <)
    IN [i \in 1..Len(cuts) - 1 |-> SubSeq(s, cuts[i] + 1, cuts[i + 1] - 1)]
\* str::lines: the end of a line may have a carriage return before it.
Lines(s) == [i \in DOMAIN Split(s, "nl") |->
                LET line == Split(s, "nl")[i]
                IN IF i < Len(Split(s, "nl")) /\ line # <<>> /\ Last(line) = "cr"
                   THEN Front(line) ELSE line]

Known(field) == field # <<>> /\ \/ field \in {<<"ignore">>, <<"should_panic">>}
                                \/ Head(field) = "should_panic="
Decl(line) ==
    LET fields == Split(line, "tab")
        panics == SelectSeq(Tail(fields), LAMBDA x : x # <<"ignore">>)
    IN [path |-> Head(fields)[1],
        ignored |-> <<"ignore">> \in Elements(Tail(fields)),
        should |-> IF panics = <<>> THEN [form |-> "no", text |-> <<>>]
                   ELSE IF Last(panics) = <<"should_panic">> THEN [form |-> "bare", text |-> <<>>]
                   ELSE [form |-> "text", text |-> Tail(Last(panics))]]
Records(kind) ==
    SelectSeq(FlattenSeq([i \in DOMAIN records[kind] |-> Lines(records[kind][i])]),
              LAMBDA line : line # <<>>)
Readable(kind) ==
    /\ ~Link.damaged
    /\ \A i \in DOMAIN Records(kind) :
         LET fields == Split(Records(kind)[i], "tab")
         IN Head(fields) # <<>> /\ \A j \in 2..Len(fields) : Known(fields[j])
Decls(kind) == [i \in DOMAIN Records(kind) |-> Decl(Records(kind)[i])]

\* The three symbols the generated glue reads, two more for the wasm-bindgen CLI.
RequiredThreadExports ==
    {"__stack_pointer", "__tls_size", "__wasm_init_tls"}
    \cup (IF Link.bindgen THEN {"__tls_base", "__tls_align"} ELSE {})
MissingThreadExports ==
    IF Link.memory # "shared" \/ "__wl_thread_entry" \notin Link.exports THEN {}
    ELSE RequiredThreadExports \ Link.exports
SpawnsWithoutSharedMemory == Link.memory # "shared" /\ Link.spawns
\* Each error says what to link with; the author may do so and run it again.
MissingAdvice == [Link EXCEPT !.exports = @ \cup RequiredThreadExports]
MemoryAdvice == [MissingAdvice EXCEPT !.memory = "shared"]

\* The two checks come first; then the wasm-bindgen CLI may fail.
Refused == MissingThreadExports # {} \/ SpawnsWithoutSharedMemory
BuildFails == Link.bindgen /\ ~Link.cli

RunsOwnEntryPoint == ~Link.noop /\ "main" \in Link.exports

\* ---------------------------------------------------------------- the runner
End(p) == phase' = p /\ UNCHANGED <<world, at, records, exported, native, args, decls,
                                    served, run, shown, page, advised>>

Main == /\ phase = "linked"
        /\ LET a == ParseArgs(Call.argv)
           IN /\ args' = a
              /\ phase' = IF "--stop-browser" \in a.flags THEN "stopped"
                          ELSE IF a.program = "none" THEN "usage"
                          ELSE IF IF "--serve" \in a.flags THEN FALSE
                                  ELSE \/ a.flags \cap {"--test", "--list", "--bench"} # {}
                                       \/ Call.seconds \/ TestArtifact
                                       \/ (\E k \in {"test", "bench"} :
                                               Readable(k) /\ Records(k) # <<>>)
                               THEN "headless" ELSE "interactive"
        /\ UNCHANGED <<world, at, records, exported, native, decls, served,
                       run, shown, page, advised>>

Worker == IF Link.memory # "own" /\ ~Link.bindgen THEN {"/wl_worker.js"} ELSE {}
Glues == IF Link.bindgen THEN {"/wl_glue.js", "/wb_glue.js"} ELSE {}

\* cargo run: serve what was built, for ever, once a browser has been opened.
ServeInteractive ==
    /\ phase = "interactive"
    /\ IF Call.program = "js"
       THEN /\ phase' = "routed" /\ served' = {"/", "/program.js"}
            /\ UNCHANGED <<world, at, records, exported, native, args, decls,
                           run, shown, page, advised>>
       ELSE IF Call.program = "other" THEN End("failed")
       ELSE IF Refused \/ BuildFails THEN End(IF Refused THEN "refused" ELSE "failed")
       ELSE /\ phase' = "routed"
            /\ served' = {"/", "/program.js", "/program.wasm"} \cup Glues \cup Worker
                         \cup (IF Link.bindgen THEN {} ELSE {"/bootstrap.js"})
            /\ UNCHANGED <<world, at, records, exported, native, args, decls,
                           run, shown, page, advised>>
OpenBrowser == /\ phase = "routed"
               /\ End(IF Call.noOpen \/ Call.browser THEN "serving" ELSE "failed")

Prepare ==
    /\ phase = "headless"
    /\ IF Call.program # "wasm" THEN End("failed")
       ELSE IF Refused THEN End("refused")
       ELSE IF BuildFails \/ ~Readable("test") \/ ~Readable("bench") THEN End("failed")
       ELSE /\ phase' = "prepared"
            /\ decls' = [test |-> Decls("test"), bench |-> Decls("bench")]
            /\ served' = {"/", "/program.js", "/bootstrap.js", "/program.wasm"}
                         \cup Glues \cup Worker
            /\ UNCHANGED <<world, at, records, exported, native, args, run, shown, page, advised>>

Relink ==
    /\ phase = "refused"
    /\ world' = [world EXCEPT !.link = IF MissingThreadExports # {} THEN MissingAdvice
                                       ELSE MemoryAdvice]
    /\ phase' = "linked" /\ advised' = TRUE
    /\ UNCHANGED <<at, records, exported, native, args, decls, served, run, shown, page>>

Cases(kind, s) == [i \in DOMAIN s |-> [kind |-> kind, path |-> s[i].path]]
Tests == SelectSeq(decls.test, LAMBDA d : Selects(args, d.path))
Benches == SelectSeq(decls.bench,
                     LAMBDA d : Selects(args, d.path) /\ AdmitsIgnored(args, d.ignored))
\* The module's own main is one more case of a harness, and all there is without.
EntryPoint ==
    IF /\ RunsOwnEntryPoint /\ (decls.test # <<>> \/ decls.bench # <<>>)
       /\ Selects(args, "main") /\ AdmitsIgnored(args, FALSE)
    THEN <<[kind |-> "main", path |-> "main"]>> ELSE <<>>

List == /\ phase = "prepared" /\ "--list" \in args.flags
        /\ shown' = Elements(Cases("test", Tests) \o EntryPoint \o Cases("bench", Benches))
        /\ phase' = "listed"
        /\ UNCHANGED <<world, at, records, exported, native, args, decls,
                       served, run, page, advised>>

\* An ignored test that its name selects is reported, not run.
Suite == LET admitted == SelectSeq(Tests, LAMBDA d : AdmitsIgnored(args, d.ignored))
         IN Cases("test", admitted) \o EntryPoint
BenchSuite == Cases("bench", Benches) \o EntryPoint
Run ==
    /\ phase = "prepared" /\ "--list" \notin args.flags
    /\ run' = IF decls.test = <<>> /\ decls.bench = <<>>
              THEN <<[kind |-> "main", path |-> "main"]>>
              ELSE IF decls.test = <<>> THEN BenchSuite ELSE Suite
    /\ shown' = Elements(run')
    /\ phase' = "running"
    /\ UNCHANGED <<world, at, records, exported, native, args, decls, served, page, advised>>

\* ------------------------------------------------------------------ one case
Blank == [todo |-> <<>>, later |-> <<>>, pending |-> FALSE, body |-> "no",
          recorded |-> FALSE, done |-> "none"]
FunctionOf(c) == CHOOSE f \in Elements(F) : f.path = c.path /\ f.kind = c.kind
Load ==
    /\ phase = "running" /\ run # <<>> /\ page = Blank
    /\ LET c == Head(run)
           main == [now |-> <<"body">>, later |-> <<>>]
           entry == CASE c.kind = "main" -> main
                      [] c.kind = "test" -> Entry(FunctionOf(c))
                      [] c.kind = "bench" -> BenchEntry(FunctionOf(c))
       IN IF IF c.kind = "main" THEN "main" \notin Link.exports ELSE c \notin exported
          THEN page' = [Blank EXCEPT !.done = "failed"]
          ELSE page' = [Blank EXCEPT !.todo = entry.now, !.later = entry.later]
    /\ UNCHANGED <<caseVars, run, shown>>

Goes(p) == page' = [p EXCEPT !.todo = Tail(@)]
Traps == page' = [page EXCEPT !.done = "failed", !.todo = <<>>, !.later = <<>>]
Do(op) ==
    CASE op = "hook" -> Goes(page)
      [] op = "pending" -> Goes([page EXCEPT !.pending = TRUE])
      [] op = "body" -> \/ Goes([page EXCEPT !.body = "done"]) \/ Traps
      [] op = "record" -> Goes([page EXCEPT !.recorded = TRUE])
      [] op = "spawn" -> \E b \in {"done", "panicked", "running"} : Goes([page EXCEPT !.body = b])
      [] op = "join" -> IF page.body = "done" THEN Goes(page)
                        ELSE page.body = "panicked" /\ Traps
      [] op = "pass" -> Goes([page EXCEPT !.done = "ok"])
Step == /\ phase = "running" /\ page.done = "none"
        /\ IF page.todo # <<>> THEN Do(Head(page.todo))
           ELSE /\ page # Blank /\ (page.later # <<>> \/ ~page.pending)
                /\ page' = [page EXCEPT !.todo = page.later, !.later = <<>>,
                                        !.done = IF page.pending THEN "none" ELSE "ok"]
        /\ UNCHANGED <<caseVars, run, shown>>
NextCase == /\ phase = "running" /\ run # <<>> /\ page.done # "none"
            /\ run' = Tail(run) /\ page' = Blank
            /\ UNCHANGED <<caseVars, shown>>

Init ==
    /\ world \in Worlds /\ phase = "source" /\ at = 1
    /\ records = [test |-> <<>>, bench |-> <<>>] /\ exported = {} /\ native = <<>>
    /\ args = ParseArgs(<<>>) /\ decls = [test |-> <<>>, bench |-> <<>>]
    /\ served = {} /\ run = <<>> /\ shown = {} /\ page = Blank /\ advised = FALSE

Next == \/ Expand \/ Compile \/ Main \/ ServeInteractive \/ OpenBrowser \/ Prepare \/ Relink
        \/ List \/ Run \/ Load \/ Step \/ NextCase
Spec == Init /\ [][Next]_vars
-----------------------------------------------------------------------------
EndsInReturn(text) == text # <<>> /\ Last(text) = "cr"   \* such a return is lost
Same(case, f) ==
    LET v == ReadVerdict(f.attrs)
    IN /\ case.path = f.path /\ case.ignored = v.ignored /\ case.should.form = v.should.form
       /\ ~EndsInReturn(v.should.text) => case.should.text = v.should.text
Of(kind) == SelectSeq(F, LAMBDA f : f.kind = kind)

\* What is declared is what is read: each function is one case, in order, under
\* its path and with its attributes, and has the export the page calls; the
\* same source is judged by the same attributes under libtest.
DeclaredIsRead ==
    /\ phase \in {"prepared", "listed", "running"} => \A kind \in {"test", "bench"} :
         /\ Len(decls[kind]) = Len(Of(kind))
         /\ \A i \in DOMAIN decls[kind] :
              /\ Same(decls[kind][i], Of(kind)[i])
              /\ [kind |-> kind, path |-> decls[kind][i].path] \in exported
    /\ phase = "linked" => \A i, j \in DOMAIN native :
         /\ \E f \in Elements(Of("test")) : Same(native[i], f)
         /\ native[i].path = native[j].path => i = j

\* A module that is accepted and can spawn finds all its workers ask for: a
\* shared memory, the linker's symbols, and a route to the bootstrap.
WorkersCanStart ==
    phase \in {"prepared", "routed", "serving"} /\ Call.program = "wasm" /\ Link.spawns =>
        /\ Link.memory = "shared" /\ RequiredThreadExports \subseteq Link.exports
        /\ ~Link.bindgen => "/wl_worker.js" \in served

\* Who does what the error says gets past both checks: no message contradicts
\* the other, or asks for less than is checked.
AdviceHelps == phase = "refused" => ~advised

\* A test that cargo runs is never served to a viewer who does not come.
TestsEnd ==
    phase \in {"routed", "serving"} /\ "--serve" \notin args.flags =>
        /\ ~TestArtifact
        /\ ~Link.damaged /\ Link.foreign = <<>> => F = <<>>

\* No case passes before its body is done, on whatever thread and in whatever
\* task that runs; a benchmark has measured something.
PassMeansDone ==
    page.done = "ok" => page.body = "done"
        /\ (Head(run).kind = "bench" => page.recorded)

\* A harness that was not asked to leave any out runs all the cases it declares,
\* and --list shows the same.  (Not so where tests and benchmarks are declared
\* together: the suite of the tests is run then, and the benchmarks never are.)
EveryCaseIsRun ==
    /\ phase \in {"running", "listed"} /\ args.filters = <<>>
    /\ "--include-ignored" \in args.flags /\ "--ignored" \notin args.flags
    /\ decls.test = <<>> \/ decls.bench = <<>>
    => shown \ {[kind |-> "main", path |-> "main"]}
         = UNION {Elements(Cases(kind, decls[kind])) : kind \in {"test", "bench"}}

HarnessExact == /\ DeclaredIsRead /\ WorkersCanStart /\ AdviceHelps /\ TestsEnd
                /\ PassMeansDone /\ EveryCaseIsRun
=============================================================================
