------------------------------- MODULE MCPage -------------------------------
(* The components of a page that there are theorems about, side by side: each  *)
(* behaviour is one component's, which `part` names.                           *)
EXTENDS Closures

CONSTANTS Unparkers, MaxParks, MaxUnparks,    \* of a thread that parks
          Length, MaxLen, MaxU64,             \* of the file that is read remotely
          Workers, Root, Sizes, MaxRecord, MaxRecords, MaxBytes, MaxPending,
          MaxStructured, MaxBody, MaxLogged   \* of what is logged
ASSUME FileAssumption ==
    Length \in Nat /\ MaxLen \in Nat /\ MaxU64 \in Nat /\ Length <= MaxU64
\* A record that is not refused fits in the bundle (runtime.rs: 64 KiB of 4 MiB).
LogBounds ==
    /\ Sizes \subseteq Nat
    /\ MaxRecord \in Nat /\ MaxBytes \in Nat /\ MaxRecord <= MaxBytes
    /\ MaxRecords \in Nat /\ MaxRecords >= 1
ASSUME LogsAssumption == LogBounds

VARIABLES part,
          token, queued, owner, timed, at, parks, unparks,
          pos, op, resp, last,
          logged, mail, arrived, bundle, bytes, dropped, pending, request,
          timer, hidden, printed

P == INSTANCE Parker
R == INSTANCE RemoteFile
L == INSTANCE Logs
Abstract == INSTANCE AbstractParker WITH permit <- P!Permit, parked <- P!Parked

parkerVars == <<token, queued, owner, timed, at, parks, unparks>>
fileVars == <<pos, op, resp, last>>
logVars == <<logged, mail, arrived, bundle, bytes, dropped, pending, request,
             timer, hidden, printed>>
pageVars == <<part, vars, parkerVars, fileVars, logVars>>

PageInit == Init /\ P!Init /\ R!Init /\ L!Init
PageNext ==
    /\ \/ part = "closures" /\ Next
       \/ part # "closures" /\ UNCHANGED vars
    /\ \/ part = "parker" /\ P!Next
       \/ part # "parker" /\ UNCHANGED parkerVars
    /\ \/ part = "file" /\ R!Next
       \/ part # "file" /\ UNCHANGED fileVars
    /\ \/ part = "logs" /\ L!Next
       \/ part # "logs" /\ UNCHANGED logVars
    /\ UNCHANGED part
PageSpec == PageInit /\ [][PageNext]_pageVars

ArityIs(c) == IF c = "c3" THEN "any" ELSE "one"
-----------------------------------------------------------------------------
\* The value table and the closure registries stay exact.
ClosuresExact == TableBalanced /\ RegistryExact
\* A parked thread never sleeps over its token.
NoSleepOverToken == P!NoSleepOverToken
\* park and unpark implement the permit protocol: a permit is lost only to a
\* park that returns, and a parked thread that has one returns.
ImplementsParker == Abstract!ParkerSpec
\* What read and read_all answer is the file's, and the position follows.
DataIsTheFiles == R!DataIsTheFiles
ReadsContinue == R!ReadsContinue
\* Log records arrive whole, once and in order, or are counted as dropped.
LogsExact == L!BundleExact /\ L!ForwardedInOrder
=============================================================================
