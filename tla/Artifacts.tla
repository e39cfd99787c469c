------------------------------- MODULE Artifacts ------------------------------
(* `wasm_lite build` writes one to four files beside each other: what they may *)
(* replace, the temporary files they are written to, the scratch directory of  *)
(* the wasm-bindgen CLI, and what is left where a step fails or the process is *)
(* killed. Several builds may run in one directory.                            *)
EXTENDS Integers, Sequences, SequencesExt, FiniteSets

CONSTANTS Procs,       \* the builds
          Jobs,        \* what they are asked: sets of [Procs -> [kind, path of each part]]
          Directories  \* what the directory may hold before: [Paths -> content]

VARIABLES job,         \* what each build is asked
          before,      \* the directory as it was
          dir,         \* what each path holds
          temps,       \* the temporary files: [pid, id, content]
          scratch,     \* the scratch directories of the CLI, by process id
          proc         \* each build

vars == <<job, before, dir, temps, scratch, proc>>

Content(kind, by, part) == [kind |-> kind, by |-> by, part |-> part]
None == Content("none", "none", "none")
Stale == Content("stale", "none", "none")

\* The files of a module: its glue, a worker if its memory is shared, or the
\* four of an interop bundle. Only the worker's name was not asked for.
Parts(kind) == CASE kind = "plain" -> <<"glue">>
                 [] kind = "shared" -> <<"glue", "worker">>
                 [] kind = "interop" -> <<"glue", "wasm", "wl", "wb">>
Artifact(p, part) == [dest |-> job[p].path[part], implicit |-> part = "worker",
                      content |-> Content("generated", p, part)]
Artifacts(p) == [i \in DOMAIN Parts(job[p].kind) |-> Artifact(p, Parts(job[p].kind)[i])]

Init == /\ job \in Jobs
        /\ dir \in Directories /\ before = dir
        /\ scratch = [p \in Procs |-> Stale]   \* left behind under the same process id
        /\ temps = {[pid |-> p, id |-> 0, content |-> Stale] : p \in Procs}
        /\ proc = [p \in Procs |->
              [at |-> IF job[p].kind = "interop" THEN "scratch" ELSE "check",
               index |-> 1, pending |-> <<>>, id |-> 0]]

Goes(p, at) == proc' = [proc EXCEPT ![p].at = at]
Drop(p) == scratch' = [scratch EXCEPT ![p] = None]

\* -------------------------------------------------------- the wasm-bindgen CLI
\* What an earlier process of the same id has left is removed first.
NewScratch(p, ok) ==
    /\ proc[p].at = "scratch"
    /\ IF ok THEN scratch' = [scratch EXCEPT ![p] = Content("empty", p, "none")] /\ Goes(p, "cli")
       ELSE Drop(p) /\ Goes(p, "failed")
    /\ UNCHANGED <<job, before, dir, temps>>
Cli(p, ok) ==
    /\ proc[p].at = "cli"
    /\ IF ok THEN scratch' = [scratch EXCEPT ![p] = Content("output", p, "none")] /\ Goes(p, "read")
       ELSE Drop(p) /\ Goes(p, "failed")
    /\ UNCHANGED <<job, before, dir, temps>>
\* The output is read, or cannot be; either way the directory goes.
ReadOutput(p, ok) ==
    /\ proc[p].at = "read" /\ Drop(p)
    /\ Goes(p, IF ok /\ scratch[p].kind = "output" THEN "check" ELSE "failed")
    /\ UNCHANGED <<job, before, dir, temps>>

\* ----------------------------------------------------------------- the checks
\* An implicit destination may replace nothing but an earlier one.
ValidDestination(c) == c.kind \in {"none", "generated"}

Check(p) ==
    LET i == proc[p].index
        a == Artifacts(p)[i]
    IN /\ proc[p].at = "check"
       /\ IF i > Len(Artifacts(p)) THEN proc' = [proc EXCEPT ![p].at = "write", ![p].index = 1]
          ELSE IF \/ \E j \in 1..i - 1 : Artifacts(p)[j].dest = a.dest
                  \/ a.implicit /\ ~ValidDestination(dir[a.dest])
          THEN Goes(p, "refused")
          ELSE proc' = [proc EXCEPT ![p].index = i + 1]
       /\ UNCHANGED <<job, before, dir, temps, scratch>>

\* ------------------------------------------------------------------ the files
Taken(p, id) == \E t \in temps : t.pid = p /\ t.id = id
Without(files) == {t \in temps : \A i \in DOMAIN files : t # files[i].temp}

\* A name that exists is passed over. When no file can be created the error is
\* returned at once, and those of the artifacts before stay.
CreateTemp(p, ok) ==
    LET i == proc[p].index
        id == CHOOSE n \in proc[p].id..(proc[p].id + 2) :
                 ~Taken(p, n) /\ \A m \in proc[p].id..n - 1 : Taken(p, m)
        temp == [pid |-> p, id |-> id, content |-> Content("part", p, "none")]
    IN /\ proc[p].at = "write" /\ i <= Len(Artifacts(p))
       /\ IF ok THEN /\ temps' = temps \cup {temp}
                     /\ proc' = [proc EXCEPT ![p].at = "fill", ![p].id = id + 1]
          ELSE Goes(p, "uncreated") /\ UNCHANGED temps
       /\ UNCHANGED <<job, before, dir, scratch>>

Fill(p, ok) ==
    LET a == Artifacts(p)[proc[p].index]
        empty == [pid |-> p, id |-> proc[p].id - 1, content |-> Content("part", p, "none")]
        full == [empty EXCEPT !.content = a.content]
    IN /\ proc[p].at = "fill"
       /\ IF ok THEN /\ temps' = (temps \ {empty}) \cup {full}
                     /\ proc' = [proc EXCEPT ![p].at = "write", ![p].index = @ + 1,
                                   ![p].pending = Append(@, [temp |-> full, dest |-> a.dest])]
          ELSE temps' = Without(proc[p].pending) \ {empty} /\ Goes(p, "failed")
       /\ UNCHANGED <<job, before, dir, scratch>>

\* The renames come last, one by one, and replace whatever there is but a directory.
Rename(p, ok) ==
    LET first == Head(proc[p].pending)
    IN /\ proc[p].at = "write" /\ proc[p].index > Len(Artifacts(p))
       /\ IF proc[p].pending = <<>> THEN Goes(p, "done") /\ UNCHANGED <<dir, temps>>
          ELSE IF ok /\ dir[first.dest].kind # "dir"
          THEN /\ dir' = [dir EXCEPT ![first.dest] = first.temp.content]
               /\ temps' = temps \ {first.temp}
               /\ proc' = [proc EXCEPT ![p].pending = Tail(@)]
          ELSE temps' = Without(proc[p].pending) /\ Goes(p, "failed") /\ UNCHANGED dir
       /\ UNCHANGED <<job, before, scratch>>

Ended == {"done", "refused", "failed", "uncreated", "killed"}
Kill(p) == /\ proc[p].at \notin Ended /\ Goes(p, "killed")
           /\ UNCHANGED <<job, before, dir, temps, scratch>>

Next == \E p \in Procs :
    \/ \E ok \in BOOLEAN : NewScratch(p, ok) \/ Cli(p, ok) \/ ReadOutput(p, ok)
                           \/ CreateTemp(p, ok) \/ Fill(p, ok) \/ Rename(p, ok)
    \/ Check(p) \/ Kill(p)
Spec == Init /\ [][Next]_vars
-----------------------------------------------------------------------------
Mine(p) == {dest \in DOMAIN dir : dir[dest].by = p}
Asked(p) == {Artifacts(p)[i] : i \in DOMAIN Artifacts(p)}
Dests(p) == {a.dest : a \in Asked(p)}

\* A path holds what it held before, or one whole artifact that was meant for
\* it; no temporary file of an earlier process gets there.
FilesAreWhole ==
    \A d \in DOMAIN dir : dir[d] = before[d]
        \/ \E p \in Procs : \E a \in Asked(p) : a.dest = d /\ a.content = dir[d]

\* What somebody wrote by hand is replaced only where it was named as output.
HandworkKept ==
    \A d \in DOMAIN dir : before[d].kind \in {"hand", "link", "dir"} /\ dir[d] # before[d] =>
        /\ before[d].kind # "dir"
        /\ \E p \in Procs : \E a \in Asked(p) : a.dest = d /\ ~a.implicit

\* A build that is refused has written nothing, and is refused for a reason: it
\* can be repeated over what it wrote itself.
RefusedForAReason ==
    \A p \in Procs : proc[p].at = "refused" =>
        /\ Mine(p) = {}
        /\ \/ Cardinality(Dests(p)) < Len(Artifacts(p))
           \/ \E a \in Asked(p) : a.implicit /\ before[a.dest].kind \in {"hand", "link", "dir"}

\* However it ended it leaves neither temporary files nor a scratch directory,
\* unless it was killed; or, for the files, could not create the next one.
NothingLeftBehind ==
    \A p \in Procs : proc[p].at \in Ended \ {"killed"} =>
        /\ scratch[p].by # p
        /\ proc[p].at # "uncreated" => \A t \in temps : t.content.by # p

\* A build that says it is done has put every file in its place, though another
\* build may have replaced it since.
DoneMeansWritten ==
    \A p \in Procs : proc[p].at = "done" =>
        \A a \in Asked(p) : dir[a.dest] = a.content \/ dir[a.dest].by \in Procs \ {p}

ArtifactsExact == /\ FilesAreWhole /\ HandworkKept /\ RefusedForAReason /\ NothingLeftBehind
                  /\ DoneMeansWritten
=============================================================================
