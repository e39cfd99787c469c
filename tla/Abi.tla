--------------------------------- MODULE Abi ---------------------------------
(* What the two directions of the binding macros share: the types, the        *)
(* descriptor tags of the values that Option and Result carry, and the values  *)
(* themselves.                                                                *)
(*                                                                            *)
(* A type is [wrap, form, of, err]: Option<&str> is wrap "Option", form "ref", *)
(* of "str".  Integers are scaled down: Bits gives each width.  A string, a    *)
(* run of bytes or of handles is the number of its elements, at the address    *)
(* of that run.  A value of Rust is [some, v], one of JavaScript [t, v].       *)
EXTENDS Integers, Sequences, FiniteSets, SequencesExt

CONSTANT Bits   \* the width of each integer type

Signed == {"i8", "i16", "i32", "isize", "i64"}
Unsigned == {"u8", "u16", "u32", "usize", "u64"}
Wide == {"i64", "u64"}
Numeric == Signed \cup Unsigned \cup {"f32", "f64"}

Unsign(x, bits) == x % 2^bits
Sign(x, bits) == LET u == Unsign(x, bits) IN IF u < 2^(bits - 1) THEN u ELSE u - 2^bits
Word == Bits["i32"]

Tag(t, e) == [opt |-> FALSE, t |-> t, e |-> e]
Unsupported == Tag("unsupported", "")
PayloadTag(f, o) ==
    CASE f = "val" /\ o \in Numeric \cup {"bool", "unit"} -> o
      [] f = "val" /\ o = "JsValue" -> "handle"
      [] f = "val" /\ o = "String" -> "str"
      [] f = "vec" /\ o = "u8" -> "bytes"
      [] OTHER -> "unsupported"
Payload(t) == IF t = "isize" THEN "i32" ELSE IF t = "usize" THEN "u32" ELSE t

\* The return tag; Option and Result go through a buffer of the caller.
RetTag(ty) ==
    LET p == PayloadTag(ty.form, ty.of)
        e == IF ty.wrap \in {"Result", "ResultOption"} THEN PayloadTag("val", ty.err) ELSE ""
    IN [k |-> CASE ty.wrap = "" /\ p = "unit" -> "void"
                [] ty.wrap = "" /\ p \in Numeric \cup {"bool"} -> "value"
                [] ty.wrap = "" -> p
                [] ty.wrap = "Option" -> "opt"
                [] ty.wrap = "Result" -> "res"
                [] ty.wrap = "ResultOption" -> "resopt",
        p |-> p, e |-> e]
Sret(ret) == ret.k \in {"opt", "res", "resopt"}

WasmType(t) == IF t \in Wide THEN "i64" ELSE IF t \in {"f32", "f64"} THEN t ELSE "i32"
\* A word as JavaScript sees it: wasm integers are signed.
Seen(type, w) == CASE type = "i32" -> Sign(w, Word)
                   [] type = "i64" -> Sign(w, Bits["i64"])
                   [] OTHER -> w
\* A word or a payload as the Rust type reads it.
Taken(p, w) == CASE p \in Signed -> Sign(w, Bits[p])
                 [] p \in Unsigned -> Unsign(w, Bits[p])
                 [] OTHER -> w

Js(t, v) == [t |-> t, v |-> v]
Undefined == Js("undefined", 0)
JsType(t) == CASE t \in Wide -> "bigint"
               [] t \in Numeric -> "number"
               [] t = "bool" -> "boolean"
               [] t = "str" -> "string"
               [] t = "handle" -> "object"
               [] t = "unit" -> "undefined"
               [] OTHER -> t
\* The values of a type that are worth a call: the ends and the sign bit.
Values(t) == CASE t \in Signed -> {-(2^(Bits[t] - 1)), -1, 2^(Bits[t] - 1) - 1}
               [] t \in Unsigned -> {0, 2^(Bits[t] - 1), 2^Bits[t] - 1}
               [] t = "unit" -> {0}
               [] OTHER -> {0, 1}
Address(n) == n + 3
Run(t, p, n) == IF p = Address(n) THEN Js(t, n) ELSE Js("garbage", 0)

\* A JavaScript value converted to a payload or a wasm value, if it can be.
Converts(p, j) ==
    CASE p \in {"unit", "bool", "handle"} -> TRUE
      [] p \in Wide -> j.t \notin {"symbol", "null", "undefined", "object"}
      [] OTHER -> j.t # "symbol"
Truthy(j) == IF j.t \in {"null", "undefined"} \/ (j.t = "boolean" /\ j.v = 0) THEN 0 ELSE 1
LengthOf(j) == IF j.t = "null" THEN 4 ELSE j.v
Written(p, j) ==
    CASE p \in Wide -> Sign(j.v, Bits[p])
      [] p \in Signed \cup Unsigned -> Unsign(j.v, Bits[p])
      [] p = "bool" -> Truthy(j)
      [] p = "str" -> LengthOf(j)
      [] OTHER -> j.v
=============================================================================
