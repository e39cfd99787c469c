------------------------------- MODULE MCGlue -------------------------------
(* The instances of the components between a crate, its module, its page and   *)
(* its runner that TLC checks side by side: each behaviour is one component's, *)
(* which `part` names.                                                         *)
EXTENDS MCPage, MCServer

VARIABLES decl, bphase, babi, desc, passed, shim, banswer, result, bufs, bslots,
          fn, ephase, eabi, given, words, heap, handles, seen, returned, eanswer, retained,
          img, pass, spot, end, left, saw, found, out,
          world, phase, place, records, exported, native, args, decls, served, run, shown,
          page, advised,
          job, before, dir, temps, scratch, proc,
          body, state, batch, rounds, samples, report, calls, published,
          item, stage, lowered, lent, ran, got

X == INSTANCE MCInputs
\* What the server's clients send, and what it serves.
ServedPlans == X!ServedPlans
ServedRoutes == X!ServedRoutes
ServedDisk == X!ServedDisk
I == INSTANCE Imports WITH Declarations <- X!AllDeclarations, Bits <- X!Widths,
        phase <- bphase, abi <- babi, answer <- banswer, slots <- bslots
E == INSTANCE Exports WITH Functions <- X!AllFunctions, Bits <- X!Widths,
        phase <- ephase, abi <- eabi, table <- handles, answer <- eanswer
B == INSTANCE Interop WITH Items <- X!AllItems, Bits <- X!Widths, MaxRuns <- 2
W == INSTANCE WasmReader WITH at <- spot, Images <- X!Images, Wanted <- X!Wanted
H == INSTANCE Harness WITH at <- place, Worlds <- X!Worlds, Contained <- X!Contained
U == INSTANCE Artifacts WITH Procs <- X!Procs, Jobs <- X!Jobs, Directories <- X!Directories
T == INSTANCE Bencher WITH n <- batch, Bodies <- X!Bodies, Durations <- X!Durations,
        Target <- 20, Samples <- 3, MaxIters <- 300, MaxCalls <- 2

importVars == <<decl, bphase, babi, desc, passed, shim, banswer, result, bufs, bslots>>
exportVars == <<fn, ephase, eabi, given, words, heap, handles, seen, returned, eanswer, retained>>
readerVars == <<img, pass, spot, end, left, saw, found, out>>
harnessVars == <<world, phase, place, records, exported, native, args, decls, served, run,
                 shown, page, advised>>
buildVars == <<job, before, dir, temps, scratch, proc>>
benchVars == <<body, state, batch, rounds, samples, report, calls, published>>
interopVars == <<item, stage, lowered, lent, ran, got>>
glueVars == <<pageVars, importVars, exportVars, readerVars,
              harnessVars, serverVars, buildVars, benchVars, interopVars>>

\* A component that has many initial states is fixed where it has no part.
GlueInit == /\ part \in {"parker", "closures", "file", "logs", "import", "export", "reader",
                         "harness", "server", "build", "bench", "interop"}
            /\ PageInit
            /\ IF part = "import" THEN I!Init
               ELSE /\ decl = 0 /\ bphase = 0 /\ babi = 0 /\ desc = 0 /\ passed = 0 /\ shim = 0
                    /\ banswer = 0 /\ result = 0 /\ bufs = 0 /\ bslots = 0
            /\ IF part = "export" THEN E!Init
               ELSE /\ fn = 0 /\ ephase = 0 /\ eabi = 0 /\ given = 0 /\ words = 0 /\ heap = 0
                    /\ handles = 0 /\ seen = 0 /\ returned = 0 /\ eanswer = 0 /\ retained = 0
            /\ IF part = "reader" THEN W!Init
               ELSE /\ img = 0 /\ pass = 0 /\ spot = 0 /\ end = 0 /\ left = 0 /\ saw = 0
                    /\ found = 0 /\ out = 0
            /\ IF part = "harness" THEN H!Init
               ELSE /\ world = 0 /\ phase = 0 /\ place = 0 /\ records = 0 /\ exported = 0
                    /\ native = 0 /\ args = 0 /\ decls = 0 /\ served = 0 /\ run = 0
                    /\ shown = 0 /\ page = 0 /\ advised = 0
            /\ IF part = "server" THEN V!Init
               ELSE /\ plan = <<>> /\ sent = 0 /\ shut = 0 /\ taken = 0 /\ conn = 0
                    /\ answer = 0 /\ echoed = 0 /\ batches = 0
            /\ IF part = "build" THEN U!Init
               ELSE job = 0 /\ before = 0 /\ dir = 0 /\ temps = 0 /\ scratch = 0 /\ proc = 0
            /\ IF part = "bench" THEN T!Init
               ELSE /\ body = 0 /\ state = 0 /\ batch = 0 /\ rounds = 0 /\ samples = 0
                    /\ report = 0 /\ calls = 0 /\ published = 0
            /\ IF part = "interop" THEN B!Init
               ELSE item = 0 /\ stage = 0 /\ lowered = 0 /\ lent = 0 /\ ran = 0 /\ got = 0

GlueNext ==
    /\ PageNext
    /\ \/ part = "import" /\ I!Next
       \/ part # "import" /\ UNCHANGED importVars
    /\ \/ part = "export" /\ E!Next
       \/ part # "export" /\ UNCHANGED exportVars
    /\ \/ part = "reader" /\ W!Next
       \/ part # "reader" /\ UNCHANGED readerVars
    /\ \/ part = "harness" /\ H!Next
       \/ part # "harness" /\ UNCHANGED harnessVars
    /\ \/ part = "server" /\ V!Next
       \/ part # "server" /\ UNCHANGED serverVars
    /\ \/ part = "build" /\ U!Next
       \/ part # "build" /\ UNCHANGED buildVars
    /\ \/ part = "bench" /\ T!Next
       \/ part # "bench" /\ UNCHANGED benchVars
    /\ \/ part = "interop" /\ B!Next
       \/ part # "interop" /\ UNCHANGED interopVars

\* Both sides of a park run; nobody is obliged to call it.
ParkerFairness ==
    /\ WF_parkerVars(part = "parker" /\ P!Owner)
    /\ \A u \in Unparkers : WF_parkerVars(part = "parker" /\ P!Notify(u))
GlueSpec == GlueInit /\ [][GlueNext]_glueVars /\ ParkerFairness
-----------------------------------------------------------------------------
\* Arguments and results cross import! and #[export] as they were, or not at all,
\* and what was written for wasm-bindgen is the binding it names, or an error.
BindingsExact ==
    /\ part = "import" => I!ArgumentsArrive /\ I!ResultsReturn
    /\ part = "export" => E!ExportedFaithfully /\ E!CallsLeaveNothing
    /\ part = "interop" => B!InteropExact
\* What a crate declares is read back from the module's bytes and run as declared,
\* the files built of it are whole and replace nothing that was not theirs, and
\* what a benchmark publishes is what it measured.
HarnessExact ==
    /\ part = "reader" => W!ReadsWhatWasWritten /\ W!StaysInside
    /\ part = "harness" => H!HarnessExact
    /\ part = "build" => U!ArtifactsExact
    /\ part = "bench" => T!BenchExact

\* "The shim must reinterpret" (descriptor.rs, AbiArg::U64): an optional u64, too,
\* reaches JavaScript unsigned.
OptionalU64Crosses == part = "import" => I!OptionalU64
=============================================================================
