------------------------------ MODULE Interop ------------------------------
(* The wasm-bindgen shim: what #[wasm_bindgen] makes of an item that was      *)
(* written for wasm-bindgen (a declaration of import!, or an error), one call *)
(* of the binding, the callbacks it lends to JavaScript while it runs, and    *)
(* the closures a crate hands out itself.                                     *)
EXTENDS Abi

CONSTANTS Items,     \* the items that are tried
          MaxRuns    \* bound on the calls JavaScript makes of a callback

VARIABLES item,      \* the item
          stage,     \* how far it is
          lowered,   \* the declaration of import! it became
          lent,      \* parameters that own something for the call; the closure itself
          ran,       \* the calls of a callback: when, with what, what came of them
          got        \* what Rust got

vars == <<item, stage, lowered, lent, ran, got>>

Macro == INSTANCE Imports WITH Declarations <- {}, decl <- 0, phase <- 0, abi <- 0, desc <- 0,
            passed <- 0, shim <- 0, answer <- 0, result <- 0, bufs <- {}, slots <- {}

\* --------------------------------------------------------------- attributes
Refused == {"module", "raw_module", "inline_js", "start", "unknown"}
\* An argument of the block fails every item in it, an argument of an item that item.
Bare(i) == ~i.block
Parses(i) == i.flags \cap Refused = {} /\ Len(i.ns) <= 1

Flag(i, f) == f \in i.flags
StaticProperty(i) == Flag(i, "getter") /\ i.static # ""
Members == <<"getter", "setter", "indexing_getter", "indexing_setter", "indexing_deleter">>
Attr(i) == IF Flag(i, "constructor") THEN "constructor"
           ELSE IF StaticProperty(i) THEN "static_getter"
           ELSE LET member == SelectSeq(Members, LAMBDA m : Flag(i, m))
                IN IF member = <<>> THEN "" ELSE Head(member)
TakesReceiver(i) == ~StaticProperty(i) /\ i.flags \cap ({"method"} \cup Range(Members)) # {}

First(names) == LET given == SelectSeq(names, LAMBDA n : n # "") IN Head(given)
JsName(i) ==
    First(<<i.js>> \o (IF Flag(i, "constructor")
                       THEN <<i.class, IF i.ret.wrap = "none" THEN i.name ELSE i.ret.of>>
                       ELSE <<i.name>>))
Namespace(i) == First(<<i.class, i.static>> \o i.ns \o <<"globalThis">>)

\* -------------------------------------------------------------------- types
\* What the ABI carries as it is; anything else is a newtype over a handle.
Direct(ty) == ty.form = "vec" \/ ty.of \in Numeric \cup {"bool", "str", "String", "unit"}
Handle == [wrap |-> "", form |-> "ref", of |-> "JsValue", err |-> ""]
ArgType(ty) ==
    CASE ty.form = "callback" -> Handle
      [] ty.wrap = "Clamped" -> [ty EXCEPT !.wrap = ""]
      [] ty.form # "callback" /\ ty.wrap # "Clamped" /\ Direct(ty) -> ty
      [] OTHER -> [ty EXCEPT !.of = "JsValue", !.form = IF @ = "slice" THEN @ ELSE "ref"]
RetType(ty) ==
    IF ty.wrap = "none" THEN ty
    ELSE [ty EXCEPT !.wrap = IF @ = "Clamped" THEN "" ELSE @,
                    !.of = IF Direct(ty) THEN @ ELSE "JsValue",
                    !.err = IF @ \in {"", "String"} THEN @ ELSE "JsValue"]

\* What the wrapper around it does not compile with: a callback's 64-bit result,
\* an optional slice of handles.
Compiles(i) ==
    \A n \in DOMAIN i.params :
        LET ty == i.params[n].ty
        IN /\ ty.form = "callback" => ty.err \notin Wide
           /\ ~(ty.wrap = "Option" /\ ty.form = "slice" /\ ~Direct(ty))

\* ------------------------------------------------------------ the expansion
Declaration(attr, i, params, ret) ==
    [attr |-> attr, variadic |-> Flag(i, "variadic"), js |-> "clean", params |-> params, ret |-> ret]
Bool == [wrap |-> "", form |-> "val", of |-> "bool", err |-> ""]
This == [name |-> "this", ty |-> Handle]
ExternFn(i) ==
    Declaration(Attr(i), i,
        [n \in DOMAIN i.params |->
            IF n = 1 /\ TakesReceiver(i) THEN This
            ELSE [name |-> i.params[n].name, ty |-> ArgType(i.params[n].ty)]],
        RetType(i.ret))
\* The membership test of a type, unless it brings its own.
ExternType(i) == Declaration("instanceof", i, <<This>>, Bool)
ExternStatic(i) == Declaration("static_getter", i, <<>>, RetType(i.ret))
StringEnum(i) == \A n \in DOMAIN i.params : i.params[n].ty.of = "str"

Lowering(i) ==
    [ns |-> Namespace(i), name |-> JsName(i),
     decl |-> CASE i.is = "fn" -> ExternFn(i)
                [] i.is = "type" -> ExternType(i)
                [] i.is = "static" -> ExternStatic(i)]
Expands(i) ==
    CASE i.is \in {"fn", "type", "static"} -> Bare(i) /\ Parses(i) /\ Compiles(i)
      [] i.is = "enum" -> StringEnum(i)
      [] OTHER -> i.is # "other"

NoLowering == [ns |-> "", name |-> "", decl |-> <<>>]
Init == /\ item \in Items /\ stage = "declared" /\ lowered = NoLowering
        /\ lent = {} /\ ran = <<>> /\ got = Undefined
Expand ==
    /\ stage = "declared"
    /\ IF ~Expands(item) THEN stage' = "refused" /\ UNCHANGED lowered
       ELSE IF item.is \notin {"fn", "type", "static"} \/ Flag(item, "is_type_of")
       THEN stage' = "lowered" /\ UNCHANGED lowered
       ELSE /\ stage' = IF Macro!Accepts(Lowering(item).decl) THEN "lowered" ELSE "refused"
            /\ lowered' = Lowering(item)
    /\ UNCHANGED <<item, lent, ran, got>>

\* ----------------------------------------------------------------- one call
Callback(n) == item.is = "closure" \/ item.params[n].ty.form = "callback"
\* A string enum owns the handle it is passed as; a callback is a Closure.
Owns(ty) == ty.form = "callback" \/ ty.of = "Enum"
Call ==
    /\ stage = "lowered" /\ item.is \in {"fn", "static", "closure"}
    /\ stage' = "running"
    /\ lent' = IF item.is = "closure" THEN {1}
               ELSE {n \in DOMAIN item.params : Owns(item.params[n].ty)}
    /\ UNCHANGED <<item, lowered, ran, got>>

\* unpack_arg: anything of another type is the default; numbers are saturated.
Least(o) == IF o \in Signed THEN -(2^(Bits[o] - 1)) ELSE 0
Most(o) == 2^(IF o \in Signed THEN Bits[o] - 1 ELSE Bits[o]) - 1
Clamp(v, o) == IF v < Least(o) THEN Least(o) ELSE IF v > Most(o) THEN Most(o) ELSE v
InRange(v, o) == v \in Least(o)..Most(o)
Unpack(o, j) ==
    CASE o = "bool" -> IF j.t = "boolean" THEN j.v ELSE 0
      [] o = "String" -> IF j.t = "string" THEN j.v ELSE 0
      [] o \in Wide -> IF j.t \in {"bigint", "number"} /\ InRange(j.v, o) THEN j.v ELSE 0
      [] o \in Numeric \ Wide -> IF j.t = "number" THEN Clamp(j.v, o) ELSE 0
      [] OTHER -> j.v
\* pack_result: what JavaScript gets of an answer, or has thrown at it.
Pack(o, r) ==
    CASE o \in {"none", "unit"} -> Undefined
      [] o = "String" -> Js("string", r.v)
      [] o = "bool" -> Js("boolean", r.v)
      [] o \in Numeric -> Js("number", r.v)
      [] o = "Vec" -> Js("array", r.v)
      [] o = "Result" -> IF r.ok THEN Undefined ELSE Js("thrown", r.v)
      [] OTHER -> Js("object", r.v)

Signature == IF item.is = "closure" THEN item.params[1].ty
             ELSE (CHOOSE p \in Range(item.params) : p.ty.form = "callback").ty
Seen1(j) == [when |-> stage, in |-> j, took |-> 0, out |-> Undefined, inert |-> TRUE]
\* A closure made by `once` has been taken by its first call.
Spent == Flag(item, "once") /\ ran # <<>>
\* JavaScript calls the function it holds: at any time, with anything.
Run1(n, j) ==
    /\ stage \in {"running", "returned"} /\ Callback(n) /\ Len(ran) < MaxRuns
    /\ \E ok \in BOOLEAN, v \in {0, 1} :
          ran' = Append(ran, IF n \in lent /\ ~Spent
                             THEN [Seen1(j) EXCEPT !.took = Unpack(Signature.of, j), !.inert = FALSE,
                                                   !.out = Pack(Signature.err, [ok |-> ok, v |-> v])]
                             ELSE Seen1(j))
    /\ UNCHANGED <<item, stage, lowered, lent, got>>
\* Fewer arguments than the callback declares: the trampoline indexes past them.
RunShort(n) ==
    /\ stage = "running" /\ Callback(n) /\ n \in lent /\ item.is # "closure"
    /\ stage' = "dead" /\ UNCHANGED <<item, lowered, lent, ran, got>>

\* The operation is over: the wrapper's temporaries go, and its result is raised.
\* A string that is no variant panics; an exception nobody asks for unwinds.
Unwinds(a) == \/ a.t = "thrown" /\ item.ret.wrap \notin {"Result", "ResultOption"}
              \/ a.t = "stranger" /\ item.ret.of = "Enum"
Return(a) ==
    /\ stage = "running" /\ item.is # "closure"
    /\ IF Unwinds(a) THEN stage' = "dead" /\ UNCHANGED <<lent, got>>
       ELSE stage' = "returned" /\ lent' = {} /\ got' = a
    /\ UNCHANGED <<item, lowered, ran>>

\* Closure<T>: dropped, or handed to JavaScript for good.
DropClosure == /\ stage = "running" /\ item.is = "closure"
               /\ stage' = "returned" /\ lent' = {} /\ UNCHANGED <<item, lowered, ran, got>>
IntoJs == /\ stage = "running" /\ item.is = "closure"
          /\ stage' = "returned" /\ got' = Js("object", 1)
          /\ UNCHANGED <<item, lowered, lent, ran>>
\* dyn_into: the wrapper changes, the handle does not.
Cast(instance) == /\ stage = "lowered" /\ item.is = "type"
                  /\ stage' = "returned" /\ got' = Js(IF instance THEN "cast" ELSE "back", 1)
                  /\ UNCHANGED <<item, lowered, lent, ran>>

Given == {Js("number", -1), Js("number", 1), Js("number", 99), Js("bigint", 17), Js("boolean", 1),
          Js("string", 1), Js("object", 1), Undefined}
Answers == {Js("object", 1), Js("stranger", 0), Js("thrown", 1), Undefined}
Next == \/ Expand \/ Call \/ DropClosure \/ IntoJs
        \/ \E n \in DOMAIN item.params : RunShort(n) \/ \E j \in Given : Run1(n, j)
        \/ \E a \in Answers : Return(a)
        \/ \E instance \in BOOLEAN : Cast(instance)
Spec == Init /\ [][Next]_vars
-----------------------------------------------------------------------------
\* The operation import! makes of a declaration, and the one the item names.
\* A free function whose first parameter happens to be called `this` is taken for
\* a method.
Named(p) == p.name = "this" /\ ~Direct(p.ty)
Operation ==
    CASE Macro!KindTag(lowered.decl) = "f" -> <<"call", lowered.ns, lowered.name>>
      [] Macro!KindTag(lowered.decl) \in {"n", "io"} -> <<lowered.name>>
      [] Macro!KindTag(lowered.decl) = "sg" -> <<"get", lowered.ns, lowered.name>>
      [] OTHER -> <<Macro!KindTag(lowered.decl), lowered.name>>
Place == IF item.class # "" THEN item.class ELSE IF item.static # "" THEN item.static
         ELSE IF item.ns # <<>> THEN item.ns[1] ELSE "globalThis"
Meant ==
    LET name == IF item.js # "" THEN item.js ELSE item.name
    IN CASE item.is = "type" -> <<name>>
         [] item.is = "static" \/ (Flag(item, "getter") /\ item.static # "") -> <<"get", Place, name>>
         [] Flag(item, "constructor") ->
               <<IF item.js # "" THEN item.js ELSE IF item.class # "" THEN item.class ELSE item.ret.of>>
         [] Flag(item, "method") /\ item.flags \cap Range(Members) = {} -> <<"m", name>>
         [] Flag(item, "getter") /\ item.static = "" -> <<"g", name>>
         [] Flag(item, "setter") -> <<"s", name>>
         [] Flag(item, "indexing_getter") -> <<"ig", name>>
         [] Flag(item, "indexing_setter") -> <<"is", name>>
         [] Flag(item, "indexing_deleter") -> <<"id", name>>
         [] OTHER -> <<"call", Place, name>>

JsTypeOf(o) == CASE o = "String" -> "string"
                [] o \in {"Element", "JsValue"} -> "object"
                [] OTHER -> JsType(o)
\* An item is an error or the operation it names.  A callback gets the values
\* JavaScript passed, and runs only while the call that was lent it does; one that
\* runs at most once does; when a call has returned, nothing that it made is left.
InteropExact ==
    /\ stage = "lowered" /\ lowered # NoLowering /\ ~(item.is = "fn" /\ Attr(item) = ""
         /\ ~TakesReceiver(item) /\ item.params # <<>> /\ Named(Head(item.params)))
       => Operation = Meant
    /\ \A k \in DOMAIN ran :
          /\ ~ran[k].inert /\ ran[k].in.t = JsTypeOf(Signature.of)
             /\ (Signature.of \in Numeric => InRange(ran[k].in.v, Signature.of))
             => ran[k].took = ran[k].in.v
          /\ ran[k].when = "returned" /\ (item.is = "fn" \/ got = Undefined) => ran[k].inert
          /\ ran[k].inert => ran[k].out = Undefined
    /\ Flag(item, "once") => Cardinality({k \in DOMAIN ran : ~ran[k].inert}) <= 1
    /\ stage = "returned" /\ lent # {} => item.is = "closure" /\ got.t = "object"
=============================================================================
