------------------------------ MODULE WasmReader -----------------------------
(* The codegen's own reader of the wasm binary format: four passes over one    *)
(* module, each for a section of one kind. A byte is scaled to three bits, two *)
(* of them data, and an integer to five bits, so that a LEB128 number has at   *)
(* most three bytes and the last of them room for one bit.                     *)
EXTENDS Integers, Sequences, FiniteSets

CONSTANTS Images,     \* what the passes are given: [bytes, wrote, kind]
          Wanted      \* the name of the custom section that is looked for

VARIABLES img,        \* the bytes, and how they came about
          pass,       \* which reader runs: customs, memory, functions or exports
          at,         \* its position
          end,        \* the last byte of the section it is in, 0 between sections
          left,       \* entries of that section still to be read
          saw,        \* it met its section before
          found,      \* what it has collected
          out         \* reading, ok or error

vars == <<img, pass, at, end, left, saw, found, out>>

Buf == img.bytes
Bits == 2
Groups == 3
Magic == <<5, 6>>
NotUtf8 == 7

\* ------------------------------------------------------------- single reads
\* A read past the end leaves the reader at Bad, from where every read fails.
Bad == Len(Buf) + 2
Byte(p, e) == [val |-> IF p <= e THEN Buf[p] ELSE 0, at |-> IF p <= e THEN p + 1 ELSE Bad]
Take(p, n, e) == [val |-> IF p + n - 1 <= e THEN SubSeq(Buf, p, p + n - 1) ELSE <<>>,
                  at |-> IF p + n - 1 <= e THEN p + n ELSE Bad]

More(b) == b >= 2^Bits
Data(b) == b % 2^Bits
\* The number of bytes a LEB128 number has here, 0 when it is cut off, too long,
\* or its last byte has bits no u32 can hold.
LebLength(p, e) ==
    LET ends == {k \in 1..Groups : p + k - 1 <= e /\ ~More(Buf[p + k - 1])}
        first == CHOOSE k \in ends : \A j \in ends : k <= j
    IN IF ends = {} THEN 0
       ELSE IF first = Groups /\ Data(Buf[p + first - 1]) > 1 THEN 0
       ELSE first
Leb(p, e) ==
    LET n == LebLength(p, e)
        sum[k \in 0..Groups] ==
            IF k = 0 THEN 0 ELSE sum[k - 1] + Data(Buf[p + k - 1]) * 2^(Bits * (k - 1))
    IN [val |-> sum[n], at |-> IF n = 0 THEN Bad ELSE p + n]

Name(p, e) == LET len == Leb(p, e)
                  bytes == Take(len.at, len.val, e)
              IN [val |-> bytes.val,
                  at |-> IF NotUtf8 \in {bytes.val[i] : i \in 1..Len(bytes.val)}
                         THEN Bad ELSE bytes.at]

\* Limits: flag bit 0 says a maximum follows, bit 1 that the memory is shared.
ReadLimits(p, e) ==
    LET flags == Byte(p, e)
        hasMax == flags.val \in {1, 3}
        shared == flags.val \in {2, 3}
        min == Leb(flags.at, e)
        max == IF hasMax THEN Leb(min.at, e) ELSE [val |-> -1, at |-> min.at]
    IN [val |-> [initial |-> min.val, maximum |-> max.val, shared |-> shared],
        at |-> IF flags.val > 3 \/ (shared /\ ~hasMax) \/ (hasMax /\ max.val < min.val)
               THEN Bad ELSE max.at]
SkipLimits(p, e) ==
    LET flags == Byte(p, e)
        min == Leb(flags.at, e)
    IN IF flags.val > 1 THEN Bad ELSE IF flags.val = 1 THEN Leb(min.at, e).at ELSE min.at

\* --------------------------------------------------------------- the passes
Init == /\ img \in Images
        /\ pass \in {"customs", "memory", "functions", "exports"}
        /\ at = 0 /\ end = 0 /\ left = 0 /\ saw = FALSE /\ found = <<>> /\ out = "reading"

Stop(o) == out' = o /\ UNCHANGED <<img, pass, at, end, left, saw, found>>
Goto(p, f) == IF p > Len(Buf) + 1 THEN Stop("error")
              ELSE at' = p /\ found' = f /\ UNCHANGED <<img, pass, end, left, saw, out>>

Header == /\ out = "reading" /\ at = 0
          /\ IF Len(Buf) >= 2 /\ SubSeq(Buf, 1, 2) = Magic THEN Goto(3, found) ELSE Stop("error")

SectionOf == [customs |-> 0, memory |-> 2, functions |-> 2, exports |-> 7]

\* The custom section's name is compared as bytes, its content is kept whole.
ReadCustom(p, last) ==
    LET len == Leb(p, last)
        name == Take(len.at, len.val, last)
    IN IF name.at = Bad THEN Stop("error")
       ELSE Goto(last + 1, IF name.val = Wanted
                           THEN Append(found, SubSeq(Buf, name.at, last)) ELSE found)

\* A second section of its kind is refused by all but the pass for functions.
Enter(p, last) ==
    LET count == Leb(p, last)
    IN IF (saw /\ pass # "functions") \/ count.at = Bad THEN Stop("error")
       ELSE /\ at' = count.at /\ end' = last /\ left' = count.val /\ saw' = TRUE
            /\ UNCHANGED <<img, pass, found, out>>

NextSection ==
    LET id == Byte(at, Len(Buf))
        size == Leb(id.at, Len(Buf))
        body == Take(size.at, size.val, Len(Buf))
        last == size.at + size.val - 1
    IN /\ out = "reading" /\ at > 0 /\ end = 0
       /\ IF at > Len(Buf) THEN Stop("ok")
          ELSE IF body.at = Bad THEN Stop("error")
          ELSE IF id.val # SectionOf[pass] THEN Goto(body.at, found)
          ELSE IF pass = "customs" THEN ReadCustom(size.at, last)
          ELSE Enter(size.at, last)

\* One import: two names, a kind, and what that kind has after it.
ReadImport ==
    LET module == Name(at, end)
        name == Name(module.at, end)
        kind == Byte(name.at, end)
        limits == ReadLimits(kind.at, end)
        past == CASE kind.val = 0 -> Leb(kind.at, end).at
                  [] kind.val = 1 -> SkipLimits(Byte(kind.at, end).at, end)
                  [] kind.val = 2 -> limits.at
                  [] kind.val = 3 -> Take(kind.at, 2, end).at
                  [] OTHER -> Bad
        collected ==
            IF pass = "memory" /\ kind.val = 2 THEN Append(found, limits.val)
            ELSE IF pass = "functions" /\ kind.val = 0
            THEN Append(found, <<module.val, name.val>>) ELSE found
    IN IF past = Bad \/ (pass = "memory" /\ Len(collected) > 1) THEN Stop("error")
       ELSE /\ at' = past /\ left' = left - 1 /\ found' = collected
            /\ UNCHANGED <<img, pass, end, saw, out>>
ReadExport ==
    LET name == Name(at, end)
        kind == Byte(name.at, end)
        past == IF kind.val > 3 THEN Bad ELSE Leb(kind.at, end).at
    IN IF past = Bad THEN Stop("error")
       ELSE /\ at' = past /\ left' = left - 1 /\ found' = Append(found, name.val)
            /\ UNCHANGED <<img, pass, end, saw, out>>
Entry == /\ out = "reading" /\ end > 0 /\ left > 0
         /\ IF pass = "exports" THEN ReadExport ELSE ReadImport

\* Bytes that no entry accounts for are an error, but not to the functions' pass.
Leave == /\ out = "reading" /\ end > 0 /\ left = 0
         /\ IF at <= end /\ pass # "functions" THEN Stop("error")
            ELSE /\ at' = end + 1 /\ end' = 0
                 /\ UNCHANGED <<img, pass, left, saw, found, out>>

Next == Header \/ NextSection \/ Entry \/ Leave
Spec == Init /\ [][Next]_vars
-----------------------------------------------------------------------------
\* What a module says is what every pass reads of it, whatever the order of its
\* sections and however long its numbers; a file that breaks off is an error of
\* all four, unless the rest of it is whole sections.
ReadsWhatWasWritten ==
    /\ out = "ok" => img.kind # "cut"
    /\ img.kind = "whole" => out # "error"
    /\ img.kind = "whole" /\ out = "ok" => found = img.wrote[pass]

\* No pass leaves the section it is in, and a memory it accepts can be created:
\* its limits are numbers of the format, in order.
StaysInside ==
    /\ out = "reading" /\ end > 0 => at <= end + 1
    /\ pass = "memory" => Len(found) <= 1 /\ \A i \in DOMAIN found :
          /\ found[i].shared => found[i].maximum # -1
          /\ found[i].maximum # -1 => found[i].initial <= found[i].maximum
          /\ found[i].maximum < 2^5
=============================================================================
