------------------------------- MODULE Imports -------------------------------
(* One binding of import!: what the macro makes of a declaration (the flat    *)
(* parameters of the wasm import and a line of the descriptor section), what   *)
(* the code generator reads back from that line, and one call through the      *)
(* shim it writes: Rust lowers its arguments, the shim raises them, JavaScript *)
(* performs an operation, the answer travels back as a scalar, as a packed     *)
(* buffer or through the return buffer, and an exception is either handed to   *)
(* Rust or unwinds it.                                                         *)
EXTENDS Abi

CONSTANT Declarations   \* [attr, variadic, js, params, ret]; params: [name, ty]

VARIABLES decl,     \* the declaration
          phase,    \* how far it is
          abi,      \* what the macro emitted
          desc,     \* what the parser read
          passed,   \* the Rust arguments of the call
          shim,     \* the operation the shim asked JavaScript for
          answer,   \* what JavaScript did
          result,   \* what Rust got
          bufs, slots  \* what the call allocated and nobody has freed

vars == <<decl, phase, abi, desc, passed, shim, answer, result, bufs, slots>>

-----------------------------------------------------------------------------
(* The macro.                                                                *)
SliceElems == Numeric \ {"u8", "isize", "usize"}

\* The tag of an argument, by the classification of its type.
PlainTag(f, o) ==
    CASE (f = "val" /\ o = "String") \/ (f \in {"ref", "mut"} /\ o = "str") -> Tag("str", "")
      [] f \in {"slice", "mutslice"} /\ o = "u8" -> Tag("bytes", "")
      [] f \in {"slice", "mutslice"} /\ o = "JsValue" -> Tag("handles", "")
      [] f \in {"slice", "mutslice"} /\ o \in SliceElems -> Tag("slice", o)
      [] f \in {"ref", "mut"} /\ o = "JsValue" -> Tag("handle", "")
      [] f = "val" /\ o \in Numeric \cup {"bool"} -> Tag(o, "")
      [] OTHER -> Unsupported
OptionTag(f, o) ==
    LET tag == PlainTag(f, o)
    IN IF tag.t \in {"handles", "slice"} \/ o = "String" THEN Unsupported
       ELSE [tag EXCEPT !.opt = tag # Unsupported]
ArgTag(ty) == IF ty.wrap = "Option" THEN OptionTag(ty.form, ty.of)
              ELSE IF ty.wrap = "" THEN PlainTag(ty.form, ty.of) ELSE Unsupported

Flat(tag) ==
    (IF tag.opt THEN <<"i32">> ELSE <<>>)
    \o (IF tag.t \in {"str", "bytes", "handles", "slice"} THEN <<"i32", "i32">>
        ELSE <<WasmType(tag.t)>>)

\* The attributes: the tag of the kind, the parameters it takes, and whether it
\* must, must not or may return.
AnyArity == 9
KindAttr == [getter |-> <<"g", 1, "must">>, setter |-> <<"s", 2, "may">>,
             constructor |-> <<"n", AnyArity, "must">>, static_getter |-> <<"sg", 0, "must">>,
             indexing_getter |-> <<"ig", 2, "must">>, indexing_setter |-> <<"is", 3, "not">>,
             indexing_deleter |-> <<"id", 2, "may">>, instanceof |-> <<"io", 1, "must">>]
Receiver(d) == /\ d.params # <<>> /\ Head(d.params).name = "this"
               /\ ArgTag(Head(d.params).ty) = Tag("handle", "")
KindTag(d) == CASE d.attr # "" -> KindAttr[d.attr][1]
                [] d.attr = "" -> IF Receiver(d) THEN "m" ELSE "f"

\* What the macro refuses.  A return type of () is one the author wrote.
KindFits(d) ==
    LET kind == KindAttr[d.attr]
    IN /\ d.attr \notin {"constructor", "static_getter"} => Receiver(d)
       /\ kind[2] \in {AnyArity, Len(d.params)}
       /\ kind[3] = "must" => d.ret.wrap # "none"
       /\ kind[3] = "not" => d.ret.wrap = "none"
Accepts(d) ==
    /\ d.js = "clean"
    /\ \A i \in DOMAIN d.params : ArgTag(d.params[i].ty).t # "unsupported"
    /\ d.attr # "" => KindFits(d)
    /\ d.variadic => KindTag(d) \in {"f", "m", "n"}
    /\ d.ret.wrap # "none" => "unsupported" \notin {RetTag(d.ret).p, RetTag(d.ret).e}

Emitted(d) ==
    LET tags == [i \in DOMAIN d.params |-> ArgTag(d.params[i].ty)]
        ret == IF d.ret.wrap = "none" THEN [k |-> "void", p |-> "unit", e |-> ""] ELSE RetTag(d.ret)
    IN [kind |-> KindTag(d), tags |-> tags, ret |-> ret, variadic |-> d.variadic,
        flat |-> (IF Sret(ret) THEN <<"i32">> ELSE <<>>)
                 \o FlattenSeq([i \in DOMAIN tags |-> Flat(tags[i])]),
        malloc |-> Sret(ret) \/ ret.k \in {"str", "bytes"}]
-----------------------------------------------------------------------------
(* The code generator.                                                       *)
NarrowArg(tag) == [opt |-> tag.opt, e |-> tag.e, a |-> IF tag.t = "usize" THEN "num" ELSE tag.t]
AbiArg(tag) ==
    [opt |-> tag.opt, e |-> tag.e,
     a |-> CASE tag.opt -> Payload(tag.t)
             [] tag.t \in {"i8", "i16", "i32", "isize", "u8", "u16", "f32", "f64"} -> "num"
             [] tag.t \in {"u32", "usize"} -> "u32"
             [] OTHER -> tag.t]
ParamCount(a) == (IF a.opt THEN 1 ELSE 0)
                 + (IF a.a \in {"str", "bytes", "handles", "slice"} THEN 2
                    ELSE IF a.a = "unit" THEN 0 ELSE 1)

Calls == {"f", "m", "n"}
Receives == {"m", "g", "s", "ig", "is", "id", "io"}
ReturnsBool(ret) == ret.k = "value" /\ ret.p = "bool"
Shape(kind, args, ret, variadic) ==
    /\ variadic => kind \in Calls
    /\ kind \in Receives => args # <<>> /\ args[1].a = "handle" /\ ~args[1].opt
    /\ kind \in {"g", "io"} => Len(args) = 1 /\ ret.k # "void"
    /\ kind = "sg" => args = <<>> /\ ret.k # "void"
    /\ kind = "ig" => Len(args) = 2 /\ ret.k # "void"
    /\ kind = "is" => Len(args) = 3 /\ ret.k = "void"
    /\ kind = "s" => Len(args) = 2 /\ (ret.k = "void" \/ (ret.k = "res" /\ ret.p = "unit"))
    /\ kind = "id" => Len(args) = 2 /\ (ret.k = "void" \/ ReturnsBool(ret))
    /\ kind = "io" => ReturnsBool(ret)
    /\ kind = "n" => ret.k = "handle" \/ (ret.k \in {"res", "opt"} /\ ret.p = "handle")

Read(line) == [kind |-> line.kind, args |-> [i \in DOMAIN line.tags |-> AbiArg(line.tags[i])],
               ret |-> [line.ret EXCEPT
                          !.p = IF line.ret.k \in {"value", "void"} THEN @ ELSE Payload(@),
                                        !.e = Payload(@)],
               variadic |-> line.variadic]
-----------------------------------------------------------------------------
RustValues(tag) ==
    {[some |-> s, v |-> v] :
       s \in {TRUE} \cup (IF tag.opt THEN {FALSE} ELSE {}), v \in Values(tag.t)}

\* A value as Rust passes it: the words of its flat parameters.
Lower(tag, x) ==
    LET v == IF x.some THEN x.v ELSE 0
    IN (IF tag.opt THEN <<IF x.some THEN 1 ELSE 0>> ELSE <<>>)
       \o (CASE tag.t \in {"str", "bytes", "handles", "slice"} ->
                  <<IF x.some THEN Address(v) ELSE 0, v>>
             [] tag.t \in Wide -> <<Unsign(v, Bits[tag.t])>>
             [] tag.t \in Signed \cup Unsigned -> <<Unsign(v, Word)>>
             [] OTHER -> <<v>>)
\* What the shim makes of an argument's parameters.
Raise(a, ps) ==
    LET q == IF a.opt THEN Tail(ps) ELSE ps
        raised == CASE a.a = "unit" -> Undefined
                    [] a.a = "u32" -> Js("number", Unsign(q[1], Word))
                    [] a.a = "i64" \/ (a.a = "u64" /\ a.opt) -> Js("bigint", q[1])
                    [] a.a = "u64" -> Js("bigint", Unsign(q[1], Bits["u64"]))
                    [] a.a = "bool" -> Js("boolean", IF q[1] # 0 THEN 1 ELSE 0)
                    [] a.a = "handle" -> Js("object", q[1])
                    [] a.a = "str" -> Run("string", q[1], q[2])
                    [] a.a \in {"bytes", "handles"} -> Run(a.a, q[1], q[2])
                    [] a.a = "slice" -> Run(a.e, q[1], q[2])
                    [] OTHER -> Js("number", q[1])
    IN IF a.opt /\ ps[1] = 0 THEN Undefined ELSE raised

\* The parameters of the i-th argument among those of the shim.
Params(args, ps, i) ==
    LET before == FoldLeft(+, 0, [j \in 1..(i - 1) |-> ParamCount(args[j])])
    IN SubSeq(ps, before + 1, before + ParamCount(args[i]))
Operation(d, ps) ==
    LET raised == [i \in DOMAIN d.args |-> Raise(d.args[i], Params(d.args, ps, i))]
        n == IF d.kind \in Receives THEN 1 ELSE 0
    IN [op |-> d.kind, recv |-> SubSeq(raised, 1, n), args |-> SubSeq(raised, n + 1, Len(raised)),
        spread |-> d.variadic /\ Len(raised) > n]
-----------------------------------------------------------------------------
Idle == [k |-> "none", t |-> "undefined", v |-> 0]
Init ==
    /\ decl \in Declarations /\ phase = "declared"
    /\ abi = <<>> /\ desc = <<>> /\ passed = <<>> /\ shim = <<>>
    /\ answer = Idle /\ result = Idle /\ bufs = {} /\ slots = {}

Expand ==
    /\ phase = "declared"
    /\ IF Accepts(decl) THEN phase' = "expanded" /\ abi' = Emitted(decl)
       ELSE phase' = "rejected" /\ UNCHANGED abi
    /\ UNCHANGED <<decl, desc, passed, shim, answer, result, bufs, slots>>

\* A line with another name in it than the macro lets through does not have
\* the fields it should.
Parse ==
    /\ phase = "expanded"
    /\ LET d == Read(abi)
       IN IF decl.js # "clean" THEN phase' = "malformed" /\ UNCHANGED desc
          ELSE IF Shape(d.kind, d.args, d.ret, d.variadic) THEN phase' = "linked" /\ desc' = d
          ELSE phase' = "refused" /\ UNCHANGED desc
    /\ UNCHANGED <<decl, abi, passed, shim, answer, result, bufs, slots>>

Pass(i, x) ==
    /\ phase = "linked" /\ i = Len(passed) + 1 /\ i <= Len(abi.tags)
    /\ x \in RustValues(abi.tags[i])
    /\ passed' = Append(passed, x)
    /\ UNCHANGED <<decl, phase, abi, desc, shim, answer, result, bufs, slots>>

Call ==
    /\ phase = "linked" /\ Len(passed) = Len(abi.tags)
    /\ LET words == (IF Sret(abi.ret) THEN <<0>> ELSE <<>>)
                    \o FlattenSeq([i \in DOMAIN passed |-> Lower(abi.tags[i], passed[i])])
           seen == [i \in DOMAIN words |-> Seen(abi.flat[i], words[i])]
       IN shim' = Operation(desc, IF Sret(desc.ret) THEN Tail(seen) ELSE seen)
    /\ phase' = "called"
    /\ UNCHANGED <<decl, abi, desc, passed, answer, result, bufs, slots>>

\* JavaScript answers a value of the type the binding declares, null, or a
\* symbol, which no conversion to a number, a string or bytes takes; or it throws.
Answers == [k : {"returns"}, t : {JsType(desc.ret.p)}, v : Values(abi.ret.p)]
           \cup [k : {"returns"}, t : {"null", "symbol"}, v : {0}]
           \cup [k : {"throws"}, t : {JsType(desc.ret.e)}, v : Values(abi.ret.e)]
Answer(a) ==
    /\ phase = "called" /\ a \in Answers
    /\ answer' = a /\ phase' = "answered"
    /\ UNCHANGED <<decl, abi, desc, passed, shim, result, bufs, slots>>

Empty(p, w) == p \in {"str", "bytes"} /\ w = 0
Gets(k, p, w) ==
    /\ result' = [k |-> k, t |-> p, v |-> Taken(p, w)]
    /\ bufs' = IF p \in {"str", "bytes"} /\ ~Empty(p, w) THEN {w} ELSE {}
    /\ slots' = IF p = "handle" THEN {w} ELSE {}
    /\ phase' = "returned"
Nothing == /\ result' = [k |-> "None", t |-> "", v |-> 0]
           /\ phase' = "returned" /\ UNCHANGED <<bufs, slots>>
\* The exception unwinds the wasm frames; the instance is dead.
Unwinds == phase' = "dead" /\ UNCHANGED <<result, bufs, slots>>

Throws == answer.k = "throws" \/ ~Converts(desc.ret.p, answer)
\* The engine's own conversion of a result takes no symbol and no mixed number.
Unfit == answer.t \in {"symbol", "bigint"} /\ desc.ret.p \notin Wide
Absent == answer.t \in {"null", "undefined"}
Error == IF answer.k = "throws" THEN answer ELSE Js("object", 2)   \* a TypeError

\* A scalar is converted by the engine once the shim has returned; 64 bits are
\* converted in the shim.
ReturnScalar ==
    /\ desc.ret.k = "value"
    /\ IF Throws \/ Unfit THEN Unwinds
       ELSE Gets("value", abi.ret.p, Written(desc.ret.p, answer))
ReturnVoid ==
    /\ desc.ret.k = "void"
    /\ IF answer.k = "throws" THEN Unwinds ELSE Nothing
ReturnOwned ==
    /\ desc.ret.k \in {"handle", "str", "bytes"}
    /\ IF Throws THEN Unwinds
       ELSE Gets("value", abi.ret.p, Written(desc.ret.p, answer))
\* Option: the discriminant is 1 for a value.
ReturnOption ==
    /\ desc.ret.k = "opt"
    /\ \/ answer.k # "throws" /\ Absent /\ Nothing
       \/ ~(answer.k # "throws" /\ Absent) /\ Throws /\ Unwinds
       \/ ~Throws /\ ~Absent /\ Gets("Some", abi.ret.p, Written(desc.ret.p, answer))
\* Result: an exception, of the operation or of the conversion of what it
\* answered, is the error; if it does not convert either, it escapes.
Failed == IF Converts(desc.ret.e, Error)
          THEN Gets("Err", abi.ret.e, Written(desc.ret.e, Error)) ELSE Unwinds
ReturnResult ==
    /\ desc.ret.k \in {"res", "resopt"}
    /\ IF desc.ret.k = "resopt" /\ answer.k = "returns" /\ Absent THEN Nothing
       ELSE IF Throws THEN Failed
       ELSE Gets("Ok", abi.ret.p, Written(desc.ret.p, answer))
Return ==
    /\ phase = "answered"
    /\ ReturnScalar \/ ReturnVoid \/ ReturnOwned \/ ReturnOption \/ ReturnResult
    /\ UNCHANGED <<decl, abi, desc, passed, shim, answer>>

\* Rust is done with what it got.
DropResult ==
    /\ phase = "returned" /\ (bufs # {} \/ slots # {})
    /\ bufs' = bufs \ {result.v} /\ slots' = slots \ {result.v}
    /\ phase' = "dropped"
    /\ UNCHANGED <<decl, abi, desc, passed, shim, answer, result>>

Next ==
    \/ Expand \/ Parse \/ Call \/ Return \/ DropResult
    \/ /\ phase = "linked"
       /\ \E i \in DOMAIN decl.params : \E x \in RustValues(abi.tags[i]) : Pass(i, x)
    \/ phase = "called" /\ \E a \in Answers : Answer(a)
Spec == Init /\ [][Next]_vars
-----------------------------------------------------------------------------
(* What a binding promises.                                                  *)

\* The operation the declaration names, on the values Rust passed.
Denotes(ty, x) ==
    IF ~x.some THEN Undefined
    ELSE Js(CASE ty.form \in {"ref", "mut"} /\ ty.of = "str" -> "string"
              [] ty.form \in {"slice", "mutslice"} /\ ty.of = "u8" -> "bytes"
              [] ty.form \in {"slice", "mutslice"} /\ ty.of = "JsValue" -> "handles"
              [] ty.form \in {"slice", "mutslice"} -> ty.of
              [] ty.of = "String" -> "string"
              [] ty.of = "JsValue" -> "object"
              [] ty.of \in Wide -> "bigint"
              [] ty.of = "bool" -> "boolean"
              [] OTHER -> "number", x.v)
Intended ==
    LET values == [i \in DOMAIN decl.params |-> Denotes(decl.params[i].ty, passed[i])]
    IN [values |-> values,
        spread |-> decl.variadic /\ Len(values) > (IF KindTag(decl) \in Receives THEN 1 ELSE 0)]
Asked == [values |-> shim.recv \o shim.args, spread |-> shim.spread]

\* JavaScript sees the values Rust passed, in the positions and with the signs
\* the declaration gives them: the macro's parameters, the parser's counts and
\* the shim's conversions agree for every declaration that is accepted, but for
\* an optional u64 of the upper half (see OptionalU64).
UpperU64(i) == /\ decl.params[i].ty.wrap = "Option" /\ decl.params[i].ty.of = "u64"
               /\ passed[i].v >= 2^(Bits["u64"] - 1)
ArgumentsArrive ==
    /\ phase # "malformed"
    /\ phase = "called" => \/ \E i \in DOMAIN passed : UpperU64(i)
                           \/ Asked = Intended

\* Rust gets what JavaScript answered: the value, None for null, the exception
\* as the error; an exception that Rust does not ask for never becomes a value;
\* and the buffer and the handle it owns are the ones the call allocated, if the
\* allocator was kept for it.
Optional == decl.ret.wrap \in {"Option", "ResultOption"}
Meant ==
    CASE desc.ret.k = "void" -> [k |-> "None", v |-> 0]
      [] answer.k = "throws" -> [k |-> "Err", v |-> answer.v]
      [] Absent /\ Optional -> [k |-> "None", v |-> 0]
      [] OTHER -> [k |-> CASE decl.ret.wrap = "" -> "value"
                           [] decl.ret.wrap = "Option" -> "Some"
                           [] OTHER -> "Ok", v |-> answer.v]
AsDeclared == answer.k = "throws" \/ answer.t = JsType(desc.ret.p) \/ (Absent /\ Optional)
ResultsReturn ==
    /\ phase = "returned" /\ answer.k = "throws" => result.k = "Err"
    /\ phase = "returned" /\ AsDeclared => [k |-> result.k, v |-> result.v] = Meant
    /\ bufs # {} \/ slots # {} => phase = "returned" /\ bufs \cup slots = {result.v}
    /\ bufs # {} => abi.malloc

\* "The shim must reinterpret" (descriptor.rs, AbiArg::U64): JavaScript sees an
\* unsigned 64-bit argument unsigned, optional or not.
OptionalU64 == phase = "called" => Asked = Intended
=============================================================================
