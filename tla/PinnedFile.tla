----------------------------- MODULE PinnedFile -----------------------------
(* The file of the wasm-bindgen backend: each request runs as a task pinned to *)
(* one thread and stores its output for a future that any thread polls, and    *)
(* the operations of several tasks share one handle and its position.          *)
(* A byte is its offset in the file; the chunks of a body are in RemoteFile.   *)
EXTENDS Integers, Sequences, FiniteSets, Functions

CONSTANTS Readers,     \* tasks with an operation each on the shared handle
          Asks,        \* the kinds of operation each of them may start
          Jobs,        \* pinned tasks, one per request
          Length,      \* of the file
          MaxLen,      \* bound on a read's length
          MaxU64       \* the largest position

Kinds == {"open", "read", "all"}    \* exists is as open, metadata begins read_all
VARIABLES pos,     \* File::seek_pos
          op,      \* each reader's operation, and what it has read so far
          place,   \* where the reader is in PinnedOutput::poll
          woken,   \* the reader's task was woken since its last poll
          job      \* per request: its task, and the Bridge's output and waker

vars == <<pos, op, place, woken, job>>

Bytes(i, j) == [n \in 1..(j - i + 1) |-> i + n - 1]
Min2(a, b) == IF a < b THEN a ELSE b
Pending == [st |-> "pending", data |-> <<>>]
Refused == [st |-> "error", data |-> <<>>]
Got(data) == [st |-> "ok", data |-> data]

NewOp == [st |-> "new", kind |-> "read", len |-> 0, from |-> 0, job |-> "none", all |-> <<>>]
NewJob == [st |-> "unused", for |-> "none", out |-> Pending, waker |-> FALSE]

Init ==
    /\ pos = 0
    /\ op = [r \in Readers |-> NewOp] /\ place = [r \in Readers |-> "idle"]
    /\ woken = [r \in Readers |-> FALSE]
    /\ job = [j \in Jobs |-> NewJob]

\* ------------------------------------------------------ what a request answers
\* A server may ignore the range, serve less of it, refuse, answer nonsense in
\* its headers, compress, or send a body shorter than it said.
Responses(from, want) ==
    LET to == from + want - 1
    IN {r \in [status : {206}, from : {from, from + 1}, to : 0..(to + 1),
               total : {-1, to, Length}, cut : {0, 1}, plain : BOOLEAN] :
           r.from <= r.to /\ r.to < Length}
       \cup [status : {200}, from : {0}, to : {Length - 1}, total : {-1}, cut : {0, 1},
             plain : BOOLEAN]
       \cup [status : {204, 404, 416, 500}, from : {0}, to : {0}, total : {-1, Length},
             cut : {0}, plain : {TRUE}]

PartialOk(r, from, to) == /\ r.from = from /\ r.to >= r.from /\ r.to <= to
                          /\ r.total # -1 => r.to < r.total
UnsatisfiedOk(r, from) == r.total # -1 /\ from >= r.total

\* The body is read to the limit; what lies before the position is skipped.
Body(r, from, want) ==
    LET limit == IF r.status = 206 THEN r.to - r.from + 1 ELSE want
        first == IF r.status = 200 THEN r.from + from ELSE r.from
        data == Bytes(first, Min2(r.to - r.cut, first + limit - 1))
    IN IF r.status = 206 /\ Len(data) # limit THEN Refused ELSE Got(data)

RangeOutcome(r, from, want) ==
    CASE r.status = 416 -> IF UnsatisfiedOk(r, from) THEN Got(<<>>) ELSE Refused
      [] r.status \notin {200, 206, 416} -> Refused
      [] r.status \in {200, 206} /\ ~r.plain -> Refused
      [] r.status = 206 /\ r.plain /\ ~PartialOk(r, from, from + want - 1) -> Refused
      [] OTHER -> Body(r, from, want)

\* A HEAD request: open only needs a success, metadata the plain length.
HeadOutcome(kind, r) ==
    IF /\ r.status = 200
       /\ kind = "all" => r.plain /\ r.total # -1
    THEN Got(<<>>) ELSE Refused
Heads == [status : {200, 404, 500}, total : {-1, Length}, plain : BOOLEAN]

\* ------------------------------------------------------------ the pinned task
\* fetch itself may fail.
Outcomes(r) ==
    {Refused} \cup
    IF op[r].st = "head" THEN {HeadOutcome(op[r].kind, h) : h \in Heads}
    ELSE {RangeOutcome(h, op[r].from, op[r].len) : h \in Responses(op[r].from, op[r].len)}

\* The task of a dropped future answers nobody; what it answers is no matter.
Answers(j) == IF op[job[j].for].job = j THEN Outcomes(job[j].for) ELSE {Refused}

Store(j) ==
    /\ job[j].st = "working"
    /\ \E out \in Answers(j) : job' = [job EXCEPT ![j].st = "stored", ![j].out = out]
    /\ UNCHANGED <<pos, op, place, woken>>

\* A bridge that neither side holds any more is freed; a reader that has left it
\* needs no waking, since it polls without a reason, too.
WakeReader(j) ==
    LET r == job[j].for
    IN /\ job[j].st = "stored"
       /\ IF op[r].job = j
          THEN /\ job' = [job EXCEPT ![j].st = "finished", ![j].waker = FALSE]
               /\ woken' = [woken EXCEPT ![r] = @ \/ job[j].waker]
          ELSE job' = [job EXCEPT ![j] = NewJob] /\ UNCHANGED woken
       /\ UNCHANGED <<pos, op, place>>

\* ------------------------------------------------------------- the operations
Waiting(r) == op[r].st \in {"head", "get"}

\* pin_current: a fresh task and bridge.  The poll that made it goes on into it.
Unused == {j \in Jobs : job[j].st = "unused"}
Pin(r, o) ==
    LET j == CHOOSE j \in Unused : TRUE
    IN /\ Unused # {}
       /\ job' = [job EXCEPT ![j] = [NewJob EXCEPT !.st = "working", !.for = r]]
       /\ op' = [op EXCEPT ![r] = [o EXCEPT !.job = j]]
       /\ woken' = [woken EXCEPT ![r] = TRUE]

Answer(r, st, o) == op' = [op EXCEPT ![r] = [o EXCEPT !.st = st, !.job = "none",
                                                !.len = IF st = "again" THEN @ ELSE 0]]
\* The reader's half of a bridge is dropped.
LetGo(r, bridge) == job' = [job EXCEPT ![op[r].job] =
                              IF bridge.st = "finished" THEN NewJob ELSE bridge]

\* read: the position is loaded now, and stored when the answer is there.
Request(r, o, len) ==
    IF pos + len - 1 > MaxU64
    THEN Answer(r, "failed", o) /\ UNCHANGED <<job, woken>>
    ELSE Pin(r, [o EXCEPT !.st = "get", !.from = pos, !.len = len])

Start(r, kind, len) ==
    LET o == [NewOp EXCEPT !.kind = kind]
    IN /\ op[r].st = "new"
       /\ kind \in Asks[r]
       /\ IF kind # "read" THEN Pin(r, [o EXCEPT !.st = "head"])
          ELSE IF len = 0 THEN Answer(r, "done", o) /\ UNCHANGED <<job, woken>>
          ELSE Request(r, o, len)
       /\ UNCHANGED <<pos, place>>

\* The future is dropped: its pinned task runs on.
DropOp(r) ==
    /\ Waiting(r) /\ place[r] = "idle"
    /\ Answer(r, "dropped", op[r]) /\ LetGo(r, job[op[r].job])
    /\ UNCHANGED <<pos, place, woken>>

\* The output was taken.  read_all learns how much is left, then loads the
\* position again for its first request.
HeadTaken(r, out) ==
    LET remaining == IF pos < Length THEN Length - pos ELSE 0
    IN /\ op[r].st = "head"
       /\ IF out.st = "error" THEN Answer(r, "failed", op[r])
          ELSE IF op[r].kind # "all" \/ remaining = 0 THEN Answer(r, "done", op[r])
          ELSE Answer(r, "again", [op[r] EXCEPT !.len = remaining])
       /\ UNCHANGED pos

\* A short answer is followed by another request for what read_all still wants.
DataTaken(r, out) ==
    LET o == [op[r] EXCEPT !.all = @ \o out.data, !.len = @ - Len(out.data)]
    IN /\ op[r].st = "get"
       /\ IF out.st = "error"
          THEN Answer(r, "failed", op[r]) /\ UNCHANGED pos
          ELSE /\ pos' = o.from + Len(out.data)
               /\ IF o.kind = "read" \/ out.data = <<>> \/ o.len = 0
                  THEN Answer(r, "done", o) ELSE Answer(r, "again", o)
Taken(r, out) == HeadTaken(r, out) \/ DataTaken(r, out)

ReadMore(r) == /\ op[r].st = "again" /\ Request(r, op[r], op[r].len)
               /\ UNCHANGED <<pos, place>>

\* ---------------------------------------------------------- PinnedOutput::poll
\* Look for the output, register the waker, look again; a poll needs no reason.
FirstLook(r) ==
    LET j == op[r].job
    IN /\ Waiting(r) /\ place[r] = "idle"
       /\ woken' = [woken EXCEPT ![r] = FALSE]
       /\ IF job[j].out # Pending
          THEN Taken(r, job[j].out) /\ LetGo(r, job[j]) /\ UNCHANGED place
          ELSE /\ place' = [place EXCEPT ![r] = "missed"] /\ UNCHANGED <<pos, op, job>>
Register(r) ==
    /\ place[r] = "missed"
    /\ place' = [place EXCEPT ![r] = "registered"]
    /\ job' = [job EXCEPT ![op[r].job].waker = TRUE]
    /\ UNCHANGED <<pos, op, woken>>
SecondLook(r) ==
    LET j == op[r].job
    IN /\ place[r] = "registered"
       /\ place' = [place EXCEPT ![r] = "idle"]
       /\ IF job[j].out # Pending
          THEN Taken(r, job[j].out) /\ LetGo(r, [job[j] EXCEPT !.waker = FALSE])
          ELSE UNCHANGED <<pos, op, job>>
       /\ UNCHANGED woken
Next == \/ \E j \in Jobs : Store(j) \/ WakeReader(j)
        \/ \E r \in Readers :
              \/ \E kind \in Kinds, len \in 0..MaxLen : Start(r, kind, len)
              \/ DropOp(r) \/ ReadMore(r)
              \/ FirstLook(r) \/ Register(r) \/ SecondLook(r)
Spec == Init /\ [][Next]_vars
-----------------------------------------------------------------------------
\* The output is not left lying: when a request's task is finished, a reader that
\* waits for it and is not polling has been woken.
OutputIsTaken ==
    \A r \in Readers :
        Waiting(r) /\ place[r] = "idle" /\ job[op[r].job].st = "finished" => woken[r]

\* The operations of one handle may overlap, and then read bytes twice and leave
\* the position short; but no byte before the position was skipped: each was
\* handed to one of them.  And a read answers the bytes from where it started.
NothingSkipped ==
    /\ \A b \in 0..(pos - 1) : \E r \in Readers : b \in Range(op[r].all)
    /\ \A r \in Readers : op[r].kind = "read" =>
          op[r].all = Bytes(op[r].from, op[r].from + Len(op[r].all) - 1)
\* Why: a reader that waits has a request of its own, whose waker is registered
\* whenever the reader sleeps; and what lies before the place a request started
\* from was handed out before.
Operations == [st : {"new", "head", "get", "again", "done", "failed", "dropped"},
               kind : Kinds, len : Int, from : Nat, job : Jobs \cup {"none"}, all : Seq(Nat)]
Outputs == [st : {"pending", "error", "ok"}, data : Seq(Nat)]
Bridges == [st : {"unused", "working", "stored", "finished"}, for : Readers \cup {"none"},
            out : Outputs, waker : BOOLEAN]
TypeOK ==
    /\ pos \in Nat /\ op \in [Readers -> Operations] /\ job \in [Jobs -> Bridges]
    /\ place \in [Readers -> {"idle", "missed", "registered"}]
    /\ woken \in [Readers -> BOOLEAN]
Handed(b) == \E r \in Readers : b \in Range(op[r].all)
Answered(o, out) ==
    \/ out = Refused
    \/ o.st = "head" /\ out = Got(<<>>)
    \/ o.st = "get" /\ out = Got(Bytes(o.from, o.from + Len(out.data) - 1))
OwnJob(r) ==
    LET b == job[op[r].job]
    IN /\ op[r].job \in Jobs /\ b.for = r
       /\ b.st # "unused" /\ (b.st = "working" <=> b.out = Pending)
       /\ b.st # "working" => Answered(op[r], b.out)
       /\ place[r] = "idle" /\ ~woken[r] => b.waker /\ b.st # "finished"
       /\ place[r] = "registered" /\ b.st = "working" => b.waker
ReaderOK(r) ==
    /\ IF Waiting(r) THEN OwnJob(r) ELSE op[r].job = "none" /\ place[r] = "idle"
    /\ op[r].st = "new" => op[r].all = <<>>
    /\ op[r].st = "get" => /\ op[r].kind = "read" => op[r].all = <<>>
                           /\ \A b \in 0..(op[r].from - 1) : Handed(b)
    /\ op[r].st = "again" => op[r].kind # "read"
    /\ op[r].st = "head" => op[r].all = <<>> /\ op[r].kind # "read"
IInv ==
    /\ TypeOK /\ NothingSkipped
    /\ \A r \in Readers : ReaderOK(r)
    /\ \A j \in Jobs : job[j].st # "unused" => job[j].for \in Readers
=============================================================================
