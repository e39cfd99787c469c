-------------------------------- MODULE Server --------------------------------
(* The runner's own HTTP server and its WebSocket echo: a thread for each      *)
(* connection, which reads what the client sends as it comes, answers once and *)
(* closes, or echoes messages until the client leaves.                         *)
EXTENDS Integers, Sequences, SequencesExt, FiniteSets

CONSTANTS Conns,        \* the connections
          Plans,        \* what their clients mean to send: sets of [Conns -> plan]
          Routes,       \* the generated routes: paths to [type, body]
          Disk,         \* the served directory: paths to [inside, ext, body]
          MaxBody,      \* MAX_REQUEST_BODY
          Short, Medium, \* the payload lengths that need a longer length field
          MaxFrame      \* the payload length that is not accepted any more, less one

VARIABLES plan,      \* what each client means to send
          sent,      \* how many of its tokens have arrived
          shut,      \* it has closed its side
          taken,     \* how many of them the server has read
          conn,      \* the thread of the connection
          answer,    \* the answer it has written
          echoed,    \* the frames it has written
          printed    \* the log batches printed, as [conn, body]

vars == <<plan, sent, shut, taken, conn, answer, echoed, printed>>
clientVars == <<plan, sent, shut>>

Log == <<"__wl_log">>
Echo == <<"__wl_echo">>
NoRange == [form |-> "none", from |-> 0, to |-> 0]
NoRequest == [path |-> <<>>, head |-> FALSE, post |-> FALSE, body |-> <<>>,
              range |-> NoRange, key |-> "none", length |-> 0]
Unanswered == [status |-> 0, type |-> "none", range |-> NoRange, total |-> -1, length |-> 0,
               body |-> <<>>]
New == [at |-> "new", req |-> NoRequest, frame |-> <<>>, message |-> <<>>, opcode |-> "none",
        frames |-> 0]

\* ---------------------------------------------------------------- the client
\* A plan in the order in which it is sent: the request line, the headers, the
\* blank line, the body; the frames once the handshake is answered.
FrameTokens(f) == <<[t |-> "head", frame |-> f]>>
                  \o (IF f.masked THEN <<[t |-> "mask", bits |-> f.mask]>> ELSE <<>>)
                  \o <<[t |-> "data", bits |-> f.wire]>>
Tokens(p) ==
    IF p.idle THEN <<>>
    ELSE <<[t |-> "line", path |-> p.path, method |-> p.method]>>
         \o [i \in DOMAIN p.headers |-> [t |-> "header", header |-> p.headers[i]]]
         \o <<[t |-> "blank"]>>
         \o [i \in DOMAIN p.body |-> [t |-> "byte", val |-> p.body[i]]]
         \o FlattenSeq([i \in DOMAIN p.frames |-> FrameTokens(p.frames[i])])

\* A client that follows the protocols says how long its body is, and continues
\* no message but one that it has begun and not ended.
IsData(f) == f.op \in {"text", "binary", "more"}
Open(fs, n) ==
    \E j \in 1..n : /\ fs[j].op \in {"text", "binary"} /\ ~fs[j].fin
                    /\ \A m \in j + 1..n : IsData(fs[m]) => fs[m].op = "more" /\ ~fs[m].fin
IsSeq(s) == s \in Seq(ToSet(s))
ConformingHeader(p, h) ==
    /\ h.name = "length" => h.value \in Nat /\ h.value >= Len(p.body)
    /\ h.name = "range" =>
         h.value \in [form : {"single", "open", "suffix", "multi"}, from : Nat, to : Nat]
ConformingFrame(fs, i) ==
    /\ fs[i].op \in {"text", "binary", "more", "ping", "pong", "close"}
    /\ fs[i].fin \in BOOLEAN /\ fs[i].masked \in BOOLEAN /\ fs[i].wire \in Seq({0, 1})
    /\ fs[i].mask \in Seq({0, 1}) /\ (fs[i].masked => Len(fs[i].mask) = 4)
    /\ fs[i].op = "more" => Open(fs, i - 1)
Conforms(p) ==
    /\ IsSeq(p.headers) /\ \A h \in ToSet(p.headers) : ConformingHeader(p, h)
    /\ IsSeq(p.body) /\ (p.body # <<>> => \E h \in ToSet(p.headers) : h.name = "length")
    /\ IsSeq(p.frames) /\ \A i \in DOMAIN p.frames : ConformingFrame(p.frames, i)

Token(c) == Tokens(plan[c])[taken[c] + 1]
Deliver(c) ==
    /\ ~shut[c] /\ sent[c] < Len(Tokens(plan[c]))
    /\ Tokens(plan[c])[sent[c] + 1].t \in {"head", "mask", "data"} => answer[c].status = 101
    /\ sent' = [sent EXCEPT ![c] = @ + 1]
    /\ UNCHANGED <<plan, shut, taken, conn, answer, echoed, printed>>
\* It may leave at any point.
Close(c) == /\ ~shut[c] /\ shut' = [shut EXCEPT ![c] = TRUE]
            /\ UNCHANGED <<plan, sent, taken, conn, answer, echoed, printed>>

\* ------------------------------------------------------------- the connection
Waiting(c) == taken[c] = sent[c]
To(c, k) == conn' = [conn EXCEPT ![c] = k]
Reads(c, kinds) == ~Waiting(c) /\ Token(c).t \in kinds /\ taken' = [taken EXCEPT ![c] = @ + 1]
End(c) == To(c, [conn[c] EXCEPT !.at = "ended"])

\* A thread for each connection: one that never sends holds no other up.
Accept(c) == /\ conn[c].at = "new" /\ To(c, [conn[c] EXCEPT !.at = "line"])
             /\ UNCHANGED <<clientVars, taken, answer, echoed, printed>>

ReadLine(c) ==
    /\ conn[c].at = "line" /\ Reads(c, {"line"})
    /\ IF Token(c).path = <<"junk">> THEN End(c)
       ELSE To(c, [conn[c] EXCEPT !.at = "headers", !.req.path = Token(c).path,
                                  !.req.head = Token(c).method = "HEAD",
                                  !.req.post = Token(c).method = "POST"])
    /\ UNCHANGED <<clientVars, answer, echoed, printed>>

\* One range of the form bytes=a-b or bytes=a-; others are served whole.
ParseRange(v) == IF v.form \in {"suffix", "multi"} THEN NoRange ELSE v

ReadHeader(c) ==
    LET h == Token(c).header
        req == conn[c].req
    IN /\ conn[c].at = "headers" /\ Reads(c, {"header"})
       /\ To(c, [conn[c] EXCEPT !.req =
                   CASE h.name = "range" -> [req EXCEPT !.range = ParseRange(h.value)]
                     [] h.name = "length" -> [req EXCEPT !.length = h.value]
                     [] h.name = "key" -> [req EXCEPT !.key = h.value]
                     [] OTHER -> req])
       /\ UNCHANGED <<clientVars, answer, echoed, printed>>

Least(a, b) == IF a < b THEN a ELSE b
Wanted(c) == Least(conn[c].req.length, MaxBody)
\* The blank line ends the headers, and so does a client that leaves.
EndHeaders(c) ==
    /\ conn[c].at = "headers"
    /\ \/ Reads(c, {"blank"})
       \/ Waiting(c) /\ shut[c] /\ UNCHANGED taken
    /\ To(c, [conn[c] EXCEPT !.at = IF Wanted(c) > 0 THEN "body" ELSE "handle"])
    /\ UNCHANGED <<clientVars, answer, echoed, printed>>

\* As much as was promised and is allowed, or as much as came.
ReadBody(c) ==
    LET req == conn[c].req
    IN /\ conn[c].at = "body"
       /\ \/ /\ Reads(c, {"byte"})
             /\ To(c, [conn[c] EXCEPT !.req.body = Append(req.body, Token(c).val),
                         !.at = IF Len(req.body) + 1 = Wanted(c) THEN "handle" ELSE "body"])
          \/ /\ Waiting(c) /\ shut[c] /\ UNCHANGED taken
             /\ To(c, [conn[c] EXCEPT !.at = "handle"])
       /\ UNCHANGED <<clientVars, answer, echoed, printed>>

\* Ten seconds without a byte, or none at all: the thread ends, unanswered. A
\* socket may be silent for two minutes.
GiveUp(c) ==
    /\ Waiting(c) /\ conn[c].at \in {"line", "headers", "body", "frames"}
    /\ shut[c] => conn[c].at \in {"line", "frames"}
    /\ End(c) /\ UNCHANGED <<clientVars, taken, answer, echoed, printed>>

\* ---------------------------------------------------------------- the answer
ContentTypeFor(ext) == CASE ext \in {"js", "mjs"} -> "script"
                         [] ext = "wasm" -> "wasm"
                         [] ext \in {"txt", ""} -> "text"
                         [] OTHER -> "bytes"

\* A path of plain names below the directory; a link may not lead out of it.
Plain(path) ==
    LET full[n \in 0..Len(path)] == IF n = 0 THEN <<>>
                                    ELSE IF path[n] \in {"", "."} THEN full[n - 1]
                                    ELSE Append(full[n - 1], path[n])
    IN full[Len(path)]
StaticFile(path) ==
    LET full == Plain(path)
    IN IF (\E i \in DOMAIN path : path[i] = "..") \/ full \notin DOMAIN Disk THEN {}
       ELSE IF ~Disk[full].inside THEN {}
       ELSE {[type |-> ContentTypeFor(Disk[full].ext), body |-> Disk[full].body]}

Found(path) == IF path \in DOMAIN Routes THEN {Routes[path]} ELSE StaticFile(path)

Response(req, status, type, body, range, total) ==
    [status |-> status, type |-> type, range |-> range, total |-> total,
     length |-> Len(body), body |-> IF req.head THEN <<>> ELSE body]

\* Mutant: the last byte asked for is sent as it was asked for.
RangedUnclipped(req, file) ==
    LET last == IF req.range.form = "open" THEN Len(file.body) - 1 ELSE req.range.to
        body == SubSeq(file.body, req.range.from + 1, Least(last + 1, Len(file.body)))
    IN Response(req, 206, file.type, body,
                [form |-> "sent", from |-> req.range.from, to |-> last], Len(file.body))
Ranged(req, file) ==
    LET len == Len(file.body)
        from == req.range.from
        last == IF req.range.form = "open" THEN len - 1 ELSE Least(req.range.to, len - 1)
    IN IF from >= len \/ (req.range.form # "open" /\ req.range.to < from)
       THEN Response(req, 416, file.type, <<>>, NoRange, len)
       ELSE Response(req, 206, file.type, SubSeq(file.body, from + 1, last + 1),
                     [form |-> "sent", from |-> from, to |-> last], len)

Answer(req) ==
    IF req.path = Log THEN Response(req, 200, "text", <<>>, NoRange, -1)
    ELSE IF Found(req.path) = {} THEN Response(req, 404, "text", <<"not_found">>, NoRange, -1)
    ELSE LET file == CHOOSE f \in Found(req.path) : TRUE
         IN IF req.range = NoRange
            THEN Response(req, 200, file.type, file.body, NoRange, -1)
            ELSE Ranged(req, file)

Handle(c) ==
    LET req == conn[c].req
    IN /\ conn[c].at = "handle"
       /\ IF req.path = Echo /\ req.key # "none"
          THEN /\ answer' = [answer EXCEPT ![c] = [Unanswered EXCEPT !.status = 101]]
               /\ To(c, [conn[c] EXCEPT !.at = "frames"]) /\ UNCHANGED printed
          ELSE /\ answer' = [answer EXCEPT ![c] = Answer(req)]
               /\ printed' = IF req.path = Log /\ req.post
                             THEN Append(printed, [conn |-> c, body |-> req.body]) ELSE printed
               /\ End(c)
       /\ UNCHANGED <<clientVars, taken, echoed>>

\* ------------------------------------------------------------------ the echo
\* A frame is read in pieces; one that is too long ends the connection.
ReadHead(c) ==
    /\ conn[c].at = "frames" /\ conn[c].frame = <<>> /\ Reads(c, {"head"})
    /\ IF Token(c).frame.len > MaxFrame THEN End(c)
       ELSE To(c, [conn[c] EXCEPT !.frame = <<Token(c).frame>>])
    /\ UNCHANGED <<clientVars, answer, echoed, printed>>
ReadMask(c) ==
    /\ conn[c].at = "frames" /\ conn[c].frame # <<>> /\ Reads(c, {"mask"})
    /\ To(c, [conn[c] EXCEPT !.frame = Append(conn[c].frame, Token(c).bits)])
    /\ UNCHANGED <<clientVars, answer, echoed, printed>>

\* A bit stands for a byte; a mask of four is used over and over.
Unmask(frame, bits) ==
    IF ~frame[1].masked THEN bits
    ELSE [i \in DOMAIN bits |-> (bits[i] + frame[2][((i - 1) % 4) + 1]) % 2]

LengthField(n) == IF n < Short THEN 7 ELSE IF n <= Medium THEN 16 ELSE 64
WriteFrame(c, op, data) ==
    echoed' = [echoed EXCEPT ![c] = Append(@, [fin |-> TRUE, op |-> op, data |-> data,
                                               field |-> LengthField(Len(data))])]

\* A close is echoed, a ping answered; the rest is put together and sent back
\* with the opcode it began with.
ReadPayload(c) ==
    LET f == conn[c].frame[1]
        payload == Unmask(conn[c].frame, Token(c).bits)
        next == [conn[c] EXCEPT !.frame = <<>>, !.frames = conn[c].frames + 1]
        joined == IF f.op = "more" THEN conn[c].message \o payload ELSE payload
        opcode == IF f.op = "more" THEN conn[c].opcode ELSE f.op
    IN /\ conn[c].at = "frames" /\ conn[c].frame # <<>> /\ Reads(c, {"data"})
       /\ CASE f.op = "close" -> /\ WriteFrame(c, "close", payload)
                                 /\ To(c, [next EXCEPT !.at = "ended"])
            [] f.op = "ping" -> WriteFrame(c, "pong", payload) /\ To(c, next)
            [] f.op = "pong" -> UNCHANGED echoed /\ To(c, next)
            [] OTHER ->
                 IF f.fin
                 THEN WriteFrame(c, opcode, joined)
                      /\ To(c, [next EXCEPT !.message = <<>>, !.opcode = opcode])
                 ELSE UNCHANGED echoed /\ To(c, [next EXCEPT !.message = joined, !.opcode = opcode])
       /\ UNCHANGED <<clientVars, answer, printed>>

Init ==
    /\ plan \in Plans
    /\ sent = [c \in Conns |-> 0] /\ shut = [c \in Conns |-> FALSE]
    /\ taken = [c \in Conns |-> 0] /\ conn = [c \in Conns |-> New]
    /\ answer = [c \in Conns |-> Unanswered] /\ echoed = [c \in Conns |-> <<>>]
    /\ printed = <<>>

Next == \E c \in Conns :
    \/ Deliver(c) \/ Close(c)
    \/ Accept(c) \/ ReadLine(c) \/ ReadHeader(c) \/ EndHeaders(c) \/ ReadBody(c) \/ GiveUp(c)
    \/ Handle(c) \/ ReadHead(c) \/ ReadMask(c) \/ ReadPayload(c)
Spec == Init /\ [][Next]_vars
-----------------------------------------------------------------------------
\* Every answer to a range that a file handle may ask for is one it accepts: the
\* bytes are the resource's, as many as there are, or none when there are none.
FileHandle(from, to) ==
    INSTANCE RemoteFile WITH Length <- 0, MaxLen <- 0, MaxU64 <- 0, pos <- 0, resp <- 0,
                             last <- 0, op <- [from |-> from, to |-> to]
RangesAccepted ==
    \A c \in Conns :
        LET a == answer[c]
            asked == conn[c].req.range
            whole == CHOOSE f \in Found(conn[c].req.path) : TRUE
            r == [from |-> a.range.from, to |-> a.range.to, total |-> a.total]
        IN asked.form = "single" /\ asked.from <= asked.to /\ a.status \in {206, 416} =>
             IF a.status = 416 THEN FileHandle(asked.from, asked.to)!UnsatisfiedOk(r)
             ELSE /\ FileHandle(asked.from, asked.to)!PartialOk(r)
                  /\ r.to = asked.to \/ r.to = Len(whole.body) - 1
                  /\ a.length = r.to - r.from + 1
                  /\ ~conn[c].req.head => a.body = SubSeq(whole.body, r.from + 1, r.to + 1)

\* What is served is a route or lies in the directory, under a path that does
\* not climb, and never in a route's place; what lies there can be read.
OnlyTheDirectory ==
    \A c \in Conns :
        LET path == conn[c].req.path
        IN answer[c].status \in {200, 206} /\ path \notin {Log} \cup DOMAIN Routes =>
             /\ Plain(path) \in DOMAIN Disk /\ Disk[Plain(path)].inside
             /\ \A i \in DOMAIN path : path[i] # ".."
             /\ Disk[Plain(path)].ext = "mjs" => answer[c].type = "script"
FilesAreFound ==
    \A c \in Conns : answer[c].status = 404 =>
        /\ conn[c].req.path \notin DOMAIN Routes
        /\ conn[c].req.path \in DOMAIN Disk => ~Disk[conn[c].req.path].inside

\* A batch is printed once, with the bytes that came for it and no others, and
\* only that of a client that is told so.
BatchesPrintedOnce ==
    /\ \A i, j \in DOMAIN printed : printed[i].conn = printed[j].conn => i = j
    /\ \A i \in DOMAIN printed :
         LET c == printed[i].conn
             cut == \E h \in {plan[c].headers[k] : k \in DOMAIN plan[c].headers} :
                        h.name = "length" /\ (h.value > MaxBody \/ shut[c])
         IN /\ answer[c].status = 200
            /\ IsPrefix(printed[i].body, plan[c].body)
            /\ cut \/ printed[i].body = plan[c].body

\* The frames that were read have been answered: every message comes back whole,
\* in order, with its own opcode, and a ping inside it does not disturb it.
Clear(f) == Unmask(<<f, f.mask>>, f.wire)
MessageEndingAt(fs, i) ==
    LET start == CHOOSE j \in 1..i : /\ fs[j].op \in {"text", "binary"}
                                     /\ \A k \in j + 1..i : fs[k].op \notin {"text", "binary"}
    IN [op |-> fs[start].op,
        data |-> FlattenSeq([k \in 1..i - start + 1 |->
                    IF IsData(fs[start + k - 1]) THEN Clear(fs[start + k - 1]) ELSE <<>>])]
ReplyTo(fs, i) ==
    CASE fs[i].op = "ping" -> <<[op |-> "pong", data |-> Clear(fs[i])]>>
      [] fs[i].op = "close" -> <<[op |-> "close", data |-> Clear(fs[i])]>>
      [] fs[i].op = "pong" -> <<>>
      [] OTHER -> IF fs[i].fin THEN <<MessageEndingAt(fs, i)>> ELSE <<>>
EchoExact ==
    \A c \in Conns :
        LET replies == FlattenSeq([i \in 1..conn[c].frames |-> ReplyTo(plan[c].frames, i)])
        IN /\ Len(echoed[c]) = Len(replies)
           /\ \A i \in DOMAIN replies :
                /\ echoed[c][i].op = replies[i].op /\ echoed[c][i].data = replies[i].data
                /\ echoed[c][i].field = CHOOSE k \in {7, 16, 64} :
                      /\ k = 7 <=> Len(replies[i].data) < Short
                      /\ k = 64 <=> Len(replies[i].data) > Medium

\* A HEAD is told the length of what a GET is sent, and sent nothing.
HeadHasNoBody ==
    \A c \in Conns : conn[c].req.head /\ answer[c].status # 0 =>
        /\ answer[c].body = <<>>
        /\ answer[c].status = 206 =>
             answer[c].length = answer[c].range.to - answer[c].range.from + 1
        /\ answer[c].status = 200 /\ conn[c].req.path \in DOMAIN Disk \ ({Log} \cup DOMAIN Routes)
             => answer[c].length = Len(Disk[conn[c].req.path].body)

ServerExact == /\ RangesAccepted /\ OnlyTheDirectory /\ FilesAreFound /\ BatchesPrintedOnce
               /\ EchoExact /\ HeadHasNoBody
=============================================================================
