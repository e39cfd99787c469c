----------------------------- MODULE RemoteFile -----------------------------
(* A file read over HTTP: the position a handle keeps, the ranges it asks for *)
(* and what it makes of a server's answers, one operation at a time.          *)
(* A byte is its offset in the file, so that wrong data shows.                *)
EXTENDS Integers, Sequences

CONSTANTS Length,      \* of the file
          MaxLen,      \* bound on a read's length
          MaxU64       \* the largest position, above Length

Offsets == {-1, 0, 1, MaxU64}    \* bound on what is asked of seek

VARIABLES pos,     \* File::seek_pos
          op,      \* the operation in flight
          resp,    \* the response its request was given, while its body is read
          last     \* what the last operation answered, until something else is called

vars == <<pos, op, resp, last>>

Idle == [kind |-> "idle"]
NoResponse == [status |-> 0]
Bytes(i, j) == [n \in 1..(j - i + 1) |-> i + n - 1]

\* What an operation answers.  It notes the status of the response it ends with,
\* and where that response says or shows that it ends.
Result(o, ok, data, by, end) == [kind |-> o.kind, ok |-> ok, start |-> o.start,
                                 len |-> o.len, data |-> data, by |-> by, end |-> end]
Failure(o) == Result(o, FALSE, <<>>, 0, 0)
Nothing == Failure([kind |-> "none", start |-> 0, len |-> 0])

Init == pos = 0 /\ op = Idle /\ resp = NoResponse /\ last = Nothing

Answer(ok, data, by, end) ==
    last' = Result(op, ok, data, by, end) /\ op' = Idle /\ resp' = NoResponse
Fail == last' = Failure(op) /\ op' = Idle /\ resp' = NoResponse

\* ------------------------------------------------------------------ requests
\* One range request of an operation: it reads the position now, and gives up
\* when the last byte's position does not fit.
Request(o, len) ==
    IF pos + len - 1 > MaxU64
    THEN op' = Idle /\ last' = Failure(o)
    ELSE /\ op' = [o EXCEPT !.st = "get", !.from = pos, !.to = pos + len - 1,
                            !.want = len, !.got = <<>>]
         /\ last' = Nothing

NewOp(kind, len) == [kind |-> kind, st |-> "head", start |-> pos, len |-> len, from |-> pos,
                     to |-> pos, want |-> 0, skip |-> 0, got |-> <<>>, all |-> <<>>]

Read(len) ==
    /\ op = Idle
    /\ IF len = 0
       THEN op' = Idle /\ last' = Result(NewOp("read", 0), TRUE, <<>>, 0, 0)
       ELSE Request(NewOp("read", len), len)
    /\ UNCHANGED <<pos, resp>>

ReadAll ==
    op = Idle /\ op' = NewOp("all", 0) /\ last' = Nothing /\ UNCHANGED <<pos, resp>>

\* The length a server announces to metadata is taken as it comes.
Lengths == 0..(Length + 1)
Metadata(ok, len) ==
    LET remaining == IF pos < len THEN len - pos ELSE 0
    IN /\ op.kind = "all" /\ op.st = "head"
       /\ IF ~ok THEN Fail
          ELSE IF remaining = 0 THEN Answer(TRUE, <<>>, 0, 0)
          ELSE Request([op EXCEPT !.len = remaining], remaining) /\ UNCHANGED resp
       /\ UNCHANGED pos

\* SeekFrom::End asks for the length first; a position below zero or above the
\* largest one is refused.
Seek(base, offset, len, ok) ==
    LET new == CASE base = "start" -> offset
                 [] base = "end" -> len + offset
                 [] base = "current" -> pos + offset
    IN /\ op = Idle /\ (base = "end" \/ ok) /\ (base = "start" => offset >= 0)
       /\ pos' = IF ok /\ new \in 0..MaxU64 THEN new ELSE pos
       /\ last' = Nothing /\ UNCHANGED <<op, resp>>

\* The future is dropped: it answers nothing, which `last` has as a failure.  The
\* task it pinned runs on, for nobody.
DropOp == op # Idle /\ Fail /\ UNCHANGED pos

\* ----------------------------------------------------------------- responses
\* A server may ignore the range, serve less of it, refuse, answer nonsense in
\* its headers, compress, or send a body that is shorter or longer than it said;
\* a body that answers no range may end anywhere.  The bytes are the file's.
Responses ==
    {r \in [status : {206}, from : {op.from, op.from + 1}, to : 0..(op.to + 1),
            total : {-1, op.to, Length}, cut : {-1, 0, 1}, plain : BOOLEAN] : r.to < Length}
    \cup [status : {200}, from : {0}, to : -1..(Length - 1), total : {-1}, cut : {0},
          plain : BOOLEAN]
    \cup [status : {416}, from : {0}, to : {0}, total : {-1, 0, op.from, Length}, cut : {0},
          plain : {TRUE}]
    \cup [status : {204, 404}, from : {0}, to : {0}, total : {-1}, cut : {0}, plain : {TRUE}]

\* Content-Range as the code checks it against what was asked for.
PartialOkAnyEnd(r) == r.from = op.from /\ r.to >= r.from
PartialOk(r) == /\ r.from = op.from /\ r.to >= r.from /\ r.to <= op.to
                /\ r.total # -1 => r.to < r.total
UnsatisfiedOk(r) == r.total # -1 /\ op.from >= r.total

\* An answer to one range request; a short first answer of read_all is followed
\* by more of them.
FinishWanted(data, by, end) ==
    /\ pos' = op.to + 1 /\ Answer(TRUE, op.all \o data, by, end)
Finish(data, by, end) ==
    LET done == op.all \o data
    IN /\ pos' = op.from + Len(data)
       /\ IF op.kind = "read" \/ data = <<>> \/ Len(done) = op.len
          THEN Answer(TRUE, done, by, end)
          ELSE /\ op' = [op EXCEPT !.st = "again", !.all = done]
               /\ resp' = NoResponse /\ UNCHANGED last

ReadMore ==
    /\ op # Idle /\ op.st = "again"
    /\ Request(op, op.len - Len(op.all)) /\ UNCHANGED <<pos, resp>>

Respond(r) ==
    /\ op # Idle /\ op.st = "get" /\ resp = NoResponse
    /\ CASE r.status = 416 ->
              IF UnsatisfiedOk(r) THEN Finish(<<>>, 416, r.total) ELSE Fail /\ UNCHANGED pos
         [] r.status \notin {200, 206, 416} \/ (r.status \in {200, 206} /\ ~r.plain)
            \/ (r.status = 206 /\ ~PartialOk(r)) ->
              Fail /\ UNCHANGED pos
         [] OTHER ->
              /\ resp' = [status |-> r.status, next |-> r.from, end |-> r.to - r.cut,
                          said |-> r.to + 1]
              /\ op' = [op EXCEPT !.st = "body",
                          !.want = IF r.status = 206 THEN r.to - r.from + 1 ELSE @,
                          !.skip = IF r.status = 200 THEN op.from ELSE 0]
              /\ UNCHANGED <<pos, last>>

\* The request, or a read of its body, fails.
TransportError ==
    /\ op # Idle /\ op.st \in {"get", "body"}
    /\ Fail /\ UNCHANGED pos

\* --------------------------------------------------------------------- body
Min2(a, b) == IF a < b THEN a ELSE b

\* One chunk of the body, of any size: the bytes before the position are
\* dropped and no more are kept than were asked for.
Take(chunk) == SubSeq(chunk, op.skip + 1, Min2(Len(chunk), op.skip + op.want - Len(op.got)))
Chunk(n) ==
    LET chunk == Bytes(resp.next, resp.next + n - 1)
    IN /\ op # Idle /\ op.st = "body" /\ Len(op.got) < op.want
       /\ resp.next + n - 1 <= resp.end
       /\ resp' = [resp EXCEPT !.next = @ + n]
       /\ op' = IF op.skip >= n THEN [op EXCEPT !.skip = @ - n]
                ELSE [op EXCEPT !.skip = 0, !.got = @ \o Take(chunk)]
       /\ UNCHANGED <<pos, last>>

\* The loop ends when enough was read or the body ends; a partial answer must
\* have been as long as it said.
EndBody ==
    /\ op # Idle /\ op.st = "body"
    /\ Len(op.got) >= op.want \/ resp.next > resp.end
    /\ IF resp.status = 206 /\ Len(op.got) # op.want
       THEN Fail /\ UNCHANGED pos
       ELSE Finish(op.got, resp.status, resp.said)

Operations == (\E n \in 0..MaxLen : Read(n)) \/ ReadAll \/ DropOp
              \/ (\E b \in {"start", "end", "current"}, o \in Offsets, len \in Lengths,
                    ok \in BOOLEAN : Seek(b, o, len, ok))
Serving == \/ \E ok \in BOOLEAN, len \in Lengths : Metadata(ok, len)
           \/ op # Idle /\ \E r \in Responses : Respond(r)
           \/ TransportError
           \/ \E n \in 1..Length : Chunk(n)
           \/ EndBody \/ ReadMore
Next == Operations \/ Serving
Spec == Init /\ [][Next]_vars
-----------------------------------------------------------------------------
\* A read that succeeds answers the file's bytes from the position it started at,
\* no more than it asked for, or than the server announced for read_all: whatever
\* the server does with the range, its headers, its chunks and its body's end.  It
\* answers fewer only when its last response went no further, and a read_all only
\* when that was no partial one: a 416, or a body that ignored the range.  The end
\* those give is the server's word, which no read can check.
DataIsTheFiles ==
    last.ok => /\ last.data = Bytes(last.start, last.start + Len(last.data) - 1)
               /\ Len(last.data) <= last.len
               /\ Len(last.data) < last.len =>
                    /\ last.end <= last.start + Len(last.data)
                    /\ last.kind = "all" => last.by # 206

\* The next read continues the last: the position moves by exactly what a read
\* answered.  A read that failed or was dropped leaves it where it was, to be tried
\* again; a read_all leaves it after the pieces it had received and throws away, so
\* that one tried again begins after them.
ReadsContinue ==
    [][op' = Idle /\ last' # Nothing /\ (op # Idle \/ last' # last) =>
          pos' = last'.start + (IF last'.ok THEN Len(last'.data)
                                ELSE IF last'.kind = "read" THEN 0 ELSE Len(op.all))]_vars

\* Of a request's answer, the bytes kept are a run from where it started, and the
\* body's next byte is the one that follows what was kept and what is to be skipped.
\* What read_all has so far is a run from its start to the position.
AnswerTypes == [kind : {"none", "read", "all"}, ok : BOOLEAN, start : Nat, len : Nat,
                data : Seq(Nat), by : Nat, end : Int]
OpTypes == [kind : {"read", "all"}, st : {"head", "get", "body", "again"}, start : Nat,
            len : Nat, from : Nat, to : Int, want : Nat, skip : Nat, got : Seq(Nat),
            all : Seq(Nat)]
BodyTypes == [status : {200, 206}, next : Nat, end : Int, said : Int]
TypeOK == /\ pos \in Nat
          /\ last \in AnswerTypes
          /\ op \in {Idle} \cup OpTypes
          /\ resp \in {NoResponse} \cup BodyTypes

Run(i, data) == data = Bytes(i, i + Len(data) - 1)
BodyOK(o, r) ==
    /\ o.want \in 1..(o.len - Len(o.all)) /\ Len(o.got) <= o.want /\ Run(o.from, o.got)
    /\ r.next <= r.end + 1
    /\ Len(o.got) = o.want \/ r.next + o.skip = o.from + Len(o.got)
    /\ o.skip > 0 => o.got = <<>>
    /\ r.status = 200 => r.said = r.end + 1 /\ o.want = o.len - Len(o.all)
    /\ r.status = 206 => r.said = o.from + o.want
OpOK(o, p) ==
    /\ Run(o.start, o.all) /\ p = o.start + Len(o.all)
    /\ o.kind = "read" => o.st \in {"get", "body"} /\ o.all = <<>>
    /\ o.st = "head" => o.all = <<>>
    /\ o.st # "head" => Len(o.all) < o.len
    /\ o.st \in {"get", "body"} => o.from = p
    /\ o.st = "get" => /\ o.want = o.len - Len(o.all) /\ o.to = p + o.want - 1
                       /\ o.got = <<>>
IInv == /\ TypeOK /\ DataIsTheFiles
        /\ op # Idle => OpOK(op, pos)
        /\ IF op # Idle /\ op.st = "body" THEN resp # NoResponse /\ BodyOK(op, resp)
           ELSE resp = NoResponse
=============================================================================
