------------------------------ MODULE MCServer ------------------------------
(* The runner's server as the runs and the proofs take it.                    *)
EXTENDS Integers

CONSTANTS Conns, Plans, Routes, Disk, MaxRequest, Short, Medium, MaxFrame
VARIABLES plan, sent, shut, taken, conn, answer, echoed, batches

V == INSTANCE Server WITH MaxBody <- MaxRequest, printed <- batches

serverVars == <<plan, sent, shut, taken, conn, answer, echoed, batches>>

\* The clients are browsers and follow the protocols; the paths of what is served
\* are plain names, and none that lies in the directory climbs out of it.
ServerBounds ==
    /\ \A p \in Plans : \A c \in Conns : V!Conforms(p[c]) /\ p[c].idle \in BOOLEAN
    /\ MaxRequest \in Nat /\ Short \in Nat /\ Medium \in Nat /\ Short <= Medium
    /\ \A path \in DOMAIN Routes : V!IsSeq(Routes[path].body)
    /\ \A path \in DOMAIN Disk :
         /\ V!IsSeq(path) /\ V!IsSeq(Disk[path].body) /\ Disk[path].inside \in BOOLEAN
         /\ \A i \in DOMAIN path : /\ path[i] \notin {"", "."}
                                   /\ Disk[path].inside => path[i] # ".."
ASSUME ServerAssumption == ServerBounds
-----------------------------------------------------------------------------
\* The runner's server answers each request as the page's readers expect it to
\* (where its clients have a plan: elsewhere it has no part).
ServerExact == DOMAIN plan = Conns => V!ServerExact
=============================================================================
