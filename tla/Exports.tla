------------------------------- MODULE Exports -------------------------------
(* One function of #[export]: what the macro makes of it and what the code     *)
(* generator reads back, and one call by JavaScript through the wrapper: its    *)
(* arguments are copied or registered one after the other, converted at the    *)
(* call, raised by Rust, and the answer goes back, by value, as a buffer the    *)
(* wrapper frees, or through a buffer the wrapper made.                        *)
EXTENDS Abi

CONSTANT Functions   \* [kind, params, ret]; params: types

VARIABLES fn,        \* the function
          phase,     \* how far it is
          abi,       \* its descriptor and its flat parameters
          given,     \* the arguments JavaScript passes
          words,     \* what the wrapper has of them
          heap,      \* allocated buffers: the arguments' numbers, RetBuffer, Out
          table,     \* handles in the table: the arguments' numbers, Out
          seen,      \* what Rust got
          returned,  \* what the function returned
          answer,    \* what JavaScript got
          retained   \* arguments that Rust still refers to after the call

vars == <<fn, phase, abi, given, words, heap, table, seen, returned, answer, retained>>
RetBuffer == 0   \* what the answer of an Option or a Result goes through
Out == -1        \* what the function returns
-----------------------------------------------------------------------------
(* The macro and the parser.                                                 *)
Direct == {"i32", "u32", "f64"}
\* Strings and bytes are borrowed from a buffer that is freed after the call.
ValidRef(ty) == ty.of \in {"str", "u8"} => ty.form \in {"ref", "slice", "val"}
PlainTag(f, o) ==
    CASE f \in {"ref", "mut", "static"} /\ o = "str" -> "str"
      [] f \in {"slice", "mutslice"} /\ o = "u8" -> "bytes"
      [] f = "val" /\ o = "JsValue" -> "handle"
      [] f = "val" /\ o \in Direct \cup {"bool"} -> o
      [] OTHER -> "unsupported"
ArgTag(ty) ==
    CASE ~ValidRef(ty) -> Unsupported
      [] ty.wrap = "" -> Tag(PlainTag(ty.form, ty.of), "")
      [] ty.wrap = "Option" /\ ty.form = "val" /\ ty.of \in Numeric ->
             [Tag(ty.of, "") EXCEPT !.opt = TRUE]
      [] OTHER -> [Tag(PlainTag(ty.form, ty.of), "") EXCEPT !.opt = TRUE]
ReturnTag(ty) ==
    IF ty.wrap = "ResultOption" \/ (ty.wrap = "" /\ RetTag(ty).p \in Numeric \ Direct)
    THEN [k |-> "void", p |-> "unsupported", e |-> ""] ELSE RetTag(ty)
Accepts(f) == /\ f.kind = "sync"   \* not async, unsafe, generic, or of a reserved name
              /\ \A i \in DOMAIN f.params : ArgTag(f.params[i]).t # "unsupported"
              /\ "unsupported" \notin {ReturnTag(f.ret).p, ReturnTag(f.ret).e}

\* The wrapper writes one wasm argument for a scalar and two for a buffer.
Width(tag) == (IF tag.opt THEN 1 ELSE 0) + (IF tag.t \in {"str", "bytes"} THEN 2 ELSE 1)
FlatTypes(tag) == (IF tag.opt THEN <<"i32">> ELSE <<>>)
                  \o (IF tag.t \in {"str", "bytes"} THEN <<"i32", "i32">> ELSE <<WasmType(tag.t)>>)
Parsed(tag) == [tag EXCEPT !.t = IF tag.opt THEN Payload(@) ELSE @]
-----------------------------------------------------------------------------
Nothing == [k |-> "none", t |-> "undefined", v |-> 0]
Init == /\ fn \in Functions /\ phase = "declared" /\ abi = <<>>
        /\ given = <<>> /\ words = <<>> /\ heap = {} /\ table = {}
        /\ seen = <<>> /\ returned = Nothing /\ answer = Nothing /\ retained = {}

Expand ==
    /\ phase = "declared"
    /\ IF Accepts(fn)
       THEN /\ phase' = "linked"
            /\ abi' = [rust |-> [i \in DOMAIN fn.params |-> ArgTag(fn.params[i])],
                       args |-> [i \in DOMAIN fn.params |-> Parsed(ArgTag(fn.params[i]))],
                       ret |-> ReturnTag(fn.ret)]
       ELSE phase' = "rejected" /\ UNCHANGED abi
    /\ UNCHANGED <<fn, given, words, heap, table, seen, returned, answer, retained>>

\* The wrapper registers or copies its next argument.  A symbol is no string.
Absent(j) == j.t \in {"null", "undefined"}
Given(tag) == {Js(JsType(tag.t), v) : v \in Values(tag.t)} \cup {Js("symbol", 0)}
              \cup (IF tag.opt THEN {Js("null", 0)} ELSE {})
Take(j) ==
    LET i == Len(words) + 1
        tag == abi.args[i]
        none == tag.opt /\ Absent(j)
        buffer == tag.t \in {"str", "bytes"}
    IN /\ phase = "linked" /\ i <= Len(abi.args) /\ j \in Given(abi.rust[i])
       /\ given' = Append(given, j)
       /\ IF ~none /\ buffer /\ j.t = "symbol"
          THEN phase' = "threw" /\ UNCHANGED <<words, heap, table>>
          ELSE /\ words' = Append(words,
                     (IF tag.opt THEN <<Js("number", IF none THEN 0 ELSE 1)>> ELSE <<>>)
                     \o (IF buffer THEN IF none THEN <<Js("number", 0), Js("number", 0)>>
                                        ELSE <<Js("number", Address(j.v)), Js("number", j.v)>>
                         ELSE IF none THEN <<Js(JsType(WasmType(tag.t)), 0)>> ELSE <<j>>))
               /\ heap' = IF buffer /\ ~none /\ j.v > 0 THEN heap \cup {i} ELSE heap
               /\ table' = IF tag.t = "handle" /\ ~none THEN table \cup {i} ELSE table
               /\ UNCHANGED phase
       /\ UNCHANGED <<fn, abi, seen, returned, answer, retained>>

\* The engine converts the arguments, or throws.
FlatWords == FlattenSeq(words)
Flat == FlattenSeq([i \in DOMAIN abi.rust |-> FlatTypes(abi.rust[i])])
ToWasm(type, j) == CASE type = "i32" -> Unsign(j.v, Word)
                     [] type = "i64" -> Unsign(j.v, Bits["i64"])
                     [] OTHER -> j.v
\* What the entry point makes of its parameters.
Raised(tag, ps) ==
    LET q == IF tag.opt THEN Tail(ps) ELSE ps
        v == CASE tag.t \in {"str", "bytes"} -> Run("", q[1], q[2]).v
               [] tag.t = "bool" -> IF q[1] # 0 THEN 1 ELSE 0
               [] OTHER -> Taken(tag.t, q[1])
    IN IF tag.opt /\ ps[1] = 0 THEN [some |-> FALSE, v |-> 0] ELSE [some |-> TRUE, v |-> v]
Params(ps, i) ==
    LET before == FoldLeft(+, 0, [j \in 1..(i - 1) |-> Width(abi.rust[j])])
    IN SubSeq(ps, before + 1, before + Width(abi.rust[i]))
Unconverted(tag) == tag.t = "handle" \/ (tag.opt /\ tag.t = "bool")
Enter ==
    /\ phase = "linked" /\ Len(words) = Len(abi.args)
    /\ heap' = IF Sret(abi.ret) THEN heap \cup {RetBuffer} ELSE heap
    /\ IF \E i \in DOMAIN given : given[i].t = "symbol" /\ ~Unconverted(abi.args[i])
       THEN phase' = "threw" /\ UNCHANGED seen
       ELSE /\ phase' = "running"
            /\ LET ps == [i \in DOMAIN FlatWords |-> ToWasm(Flat[i], FlatWords[i])]
               IN seen' = [i \in DOMAIN abi.rust |-> Raised(abi.rust[i], Params(ps, i))]
    /\ UNCHANGED <<fn, abi, given, words, table, returned, answer, retained>>

\* The function drops the handles it owns or keeps them.  Then it panics or
\* returns, having kept the references that are 'static.
Handles == {i \in DOMAIN abi.rust : abi.rust[i].t = "handle"}
DropHandle(i) ==
    /\ phase = "running" /\ i \in table \cap Handles /\ table' = table \ {i}
    /\ UNCHANGED <<fn, phase, abi, given, words, heap, seen, returned, answer, retained>>
Panic == /\ phase = "running" /\ phase' = "trapped"
         /\ UNCHANGED <<fn, abi, given, words, heap, table, seen, returned, answer, retained>>

\* What goes into Out: a string or bytes of its own, or a handle.
Returns ==
    LET of(k, p) == [k : {k}, t : {p}, v : Values(p)]
    IN CASE abi.ret.k = "void" -> {Nothing}
         [] abi.ret.k = "opt" -> {Nothing} \cup of("Some", abi.ret.p)
         [] abi.ret.k = "res" -> of("Ok", abi.ret.p) \cup of("Err", abi.ret.e)
         [] OTHER -> of("value", abi.ret.p)
Return(r) ==
    /\ phase = "running" /\ r \in Returns
    /\ returned' = r /\ phase' = "returned"
    /\ heap' = IF r.t \in {"str", "bytes"} /\ r.v > 0 THEN heap \cup {Out} ELSE heap
    /\ table' = IF r.t = "handle" THEN table \cup {Out} ELSE table
    /\ retained' = {i \in DOMAIN fn.params : fn.params[i].form = "static"}
    /\ UNCHANGED <<fn, abi, given, words, seen, answer>>

\* The rest of the wrapper: the arguments' buffers are freed, what was returned
\* is read in its own width and sign, its buffer or handle freed, an Err thrown.
WordOf(r) == IF abi.ret.k = "value" /\ r.t \in Direct \ {"f64"} THEN Sign(r.v, Word) ELSE r.v
Reads(r) ==
    CASE r.k = "none" -> IF abi.ret.k = "opt" THEN Js("null", 0) ELSE Undefined
      [] abi.ret.k = "value" /\ r.t = "u32" -> Js("number", Unsign(WordOf(r), Word))
      [] abi.ret.k = "value" -> Js(JsType(r.t), WordOf(r))
      [] OTHER -> Js(JsType(r.t), IF Payload(r.t) \in Signed \cup Unsigned
                                  THEN Taken(Payload(r.t), Unsign(r.v, Bits[r.t])) ELSE r.v)
Finish ==
    /\ phase = "returned" /\ phase' = "done"
    /\ answer' = [k |-> IF returned.k = "Err" THEN "throws" ELSE "returns",
                  t |-> Reads(returned).t, v |-> Reads(returned).v]
    /\ heap' = heap \ (DOMAIN fn.params \cup {Out, RetBuffer})
    /\ table' = table \ {Out}
    /\ UNCHANGED <<fn, abi, given, words, seen, returned, retained>>

Next ==
    \/ Expand \/ Enter \/ Panic \/ Finish
    \/ phase = "linked" /\ \E i \in DOMAIN abi.args : \E j \in Given(abi.rust[i]) : Take(j)
    \/ \E i \in DOMAIN fn.params : DropHandle(i)
    \/ phase = "running" /\ \E r \in Returns : Return(r)
Spec == Init /\ [][Next]_vars
-----------------------------------------------------------------------------
\* Rust gets the arguments JavaScript gave, and JavaScript what Rust returned:
\* the bits, the sign, None as null, Err as the exception.
Answers(r, a) ==
    CASE r.k = "none" ->
           a = [k |-> "returns", t |-> IF abi.ret.k = "opt" THEN "null" ELSE "undefined", v |-> 0]
      [] OTHER ->
           a = [k |-> IF r.k = "Err" THEN "throws" ELSE "returns", t |-> JsType(r.t), v |-> r.v]
ExportedFaithfully ==
    /\ phase = "running" => \A i \in DOMAIN given :
          IF Absent(given[i]) THEN ~seen[i].some
          ELSE given[i].t # "symbol" => seen[i].some /\ seen[i].v = given[i].v
    /\ phase = "done" => Answers(returned, answer)

\* A call that completes leaves nothing of its own in the allocator or in the
\* table but the handles the function kept, and Rust refers to nothing freed.
CallsLeaveNothing ==
    phase = "done" => heap = {} /\ table \subseteq Handles /\ retained = {}
=============================================================================
