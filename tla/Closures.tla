------------------------------ MODULE Closures ------------------------------
(* Rust closures that JavaScript can call: the per-arity registries, the      *)
(* trampolines and the value-table handles that cross with every call.        *)
EXTENDS Integers, Sequences, FiniteSets, SequencesExt

CONSTANTS Closures,     \* the Closure objects a run may create, each once
          ArityOf(_),   \* "zero", "one" or "any"
          Payloads,     \* JavaScript values that are passed around
          MaxIndex,     \* bound on the value table, below HighBit - 1
          MaxHeld,      \* bound on the handles Rust code holds
          MaxDepth,     \* bound on nested calls
          Captures      \* may a closure own other closures?

Arities == {"zero", "one", "any"}
HighBit == 64           \* stands for 2^31, above every table index

ASSUME ClosureAssumption ==
    /\ IsFiniteSet(Closures) /\ "none" \notin Closures
    /\ \A c \in Closures : ArityOf(c) \in Arities
    /\ MaxIndex \in Nat /\ 3 <= MaxIndex /\ MaxIndex + 1 < HighBit

-----------------------------------------------------------------------------
(* The host's table of JavaScript values: Rust holds indices into it and owns *)
(* each index it was given, except the four singletons, which nobody owns.    *)

Singletons == <<"undefined", "null", "true", "false">>
Reserved == 0..3

NewTable == [heap |-> [i \in Reserved |-> Singletons[i + 1]], free |-> <<>>]

\* The most recently freed index, or a new one at the end.
NewIndex(t) == IF t.free = <<>> THEN Cardinality(DOMAIN t.heap) ELSE Last(t.free)
Add(t, v) == [heap |-> [i \in DOMAIN t.heap \cup {NewIndex(t)} |->
                          IF i = NewIndex(t) THEN v ELSE t.heap[i]],
              free |-> IF t.free = <<>> THEN <<>> ELSE Front(t.free)]

Drop(t, i) == IF i \in Reserved THEN t
              ELSE [heap |-> [t.heap EXCEPT ![i] = "undefined"], free |-> Append(t.free, i)]
\* One argument stands for all that a call was given.
DropAll(t, is) == IF is = <<>> THEN t ELSE Drop(t, Head(is))

Obj(t, i) == t.heap[i]

\* Indices that somebody must own.
Allocated(t) == DOMAIN t.heap \ (Reserved \cup ToSet(t.free))
-----------------------------------------------------------------------------
VARIABLES table,    \* the value table
          held,     \* indices owned by JsValues in Rust code
          foreign,  \* values moved to wasm-bindgen's own table
          slots,    \* per arity, the registry's slots
          free,     \* per arity, its free list
          cl,       \* each Closure: its state, captor, id and function handle
          stack,    \* the trampolines that are running, innermost last
          dead      \* a drop found the registry borrowed and trapped

vars == <<table, held, foreign, slots, free, cl, stack, dead>>

Unmade == [st |-> "unmade", by |-> "none", id |-> 0, handle |-> 0]

Init ==
    /\ table = NewTable /\ held = {} /\ foreign = {}
    /\ slots = [a \in Arities |-> <<>>] /\ free = [a \in Arities |-> <<>>]
    /\ cl = [c \in Closures |-> Unmade]
    /\ stack = <<>> /\ dead = FALSE

Room == NewIndex(table) <= MaxIndex
MayHold == Cardinality(held) < MaxHeld
Owned(c) == cl[c].st = "owned" /\ cl[c].by = "none"
Held(c) == {d \in Closures : cl[d].st = "owned" /\ cl[d].by = c}

\* ------------------------------------------------------------------ handles
Make(v) ==
    /\ Room /\ MayHold /\ table' = Add(table, v) /\ held' = held \cup {NewIndex(table)}
    /\ UNCHANGED <<foreign, slots, free, cl, stack, dead>>

Clone(i) ==
    /\ i \in held /\ Room /\ MayHold
    /\ table' = Add(table, Obj(table, i)) /\ held' = held \cup {NewIndex(table)}
    /\ UNCHANGED <<foreign, slots, free, cl, stack, dead>>

DropHandle(i) ==
    /\ i \in held /\ held' = held \ {i} /\ table' = Drop(table, i)
    /\ UNCHANGED <<foreign, slots, free, cl, stack, dead>>

\* put, drop, take: the handle moves from our table to wasm-bindgen's.
ToWasmBindgen(i) ==
    /\ i \in held /\ held' = held \ {i} /\ table' = Drop(table, i)
    /\ foreign' = foreign \cup {Obj(table, i)}
    /\ UNCHANGED <<slots, free, cl, stack, dead>>

ToWasmLite(v) ==
    /\ v \in foreign /\ foreign' = foreign \ {v}
    /\ Room /\ MayHold /\ table' = Add(table, v) /\ held' = held \cup {NewIndex(table)}
    /\ UNCHANGED <<slots, free, cl, stack, dead>>

\* ----------------------------------------------------------------- registry
Empty == [st |-> "empty", c |-> "none"]
Slot(a, id) == slots[a][id + 1]
SetSlot(s, a, id, v) == [s EXCEPT ![a][id + 1] = v]

\* insert, then the JavaScript function that carries the id.
New(c, S) ==
    LET a == ArityOf(c)
        reuse == free[a] # <<>>
        id == IF reuse THEN Last(free[a]) ELSE Len(slots[a])
        filled == [st |-> "filled", c |-> c]
    IN /\ cl[c] = Unmade /\ Room
       /\ S \subseteq {d \in Closures : Owned(d) /\ Held(d) = {}}
       /\ S # {} => Captures
       /\ slots' = IF reuse THEN SetSlot(slots, a, id, filled)
                   ELSE [slots EXCEPT ![a] = Append(@, filled)]
       /\ free' = IF reuse THEN [free EXCEPT ![a] = Front(@)] ELSE free
       /\ table' = Add(table, c)   \* the JavaScript function is known by its closure
       /\ cl' = [d \in Closures |->
                   IF d = c THEN [st |-> "owned", by |-> "none", id |-> id,
                                  handle |-> NewIndex(table)]
                   ELSE IF d \in S THEN [cl[d] EXCEPT !.by = c] ELSE cl[d]]
       /\ UNCHANGED <<held, foreign, stack, dead>>

\* A registry state r = [slots, free, table, cl] after Closure::drop of d: a
\* running closure is only marked, and the function's handle is freed.
UnregisterEagerly(r, d) ==
    LET a == ArityOf(d)  id == r.cl[d].id
    IN [slots |-> SetSlot(r.slots, a, id, Empty),
        free |-> [r.free EXCEPT ![a] = Append(@, id)],
        table |-> Drop(r.table, r.cl[d].handle), cl |-> [r.cl EXCEPT ![d].st = "gone"]]
Unregister(r, d) ==
    LET a == ArityOf(d)
        id == r.cl[d].id
        s == r.slots[a][id + 1]
    IN [slots |-> SetSlot(r.slots, a, id, IF s.st = "borrowed"
                                          THEN [s EXCEPT !.st = "dropped"] ELSE Empty),
        free |-> IF s.st = "borrowed" THEN r.free ELSE [r.free EXCEPT ![a] = Append(@, id)],
        table |-> Drop(r.table, r.cl[d].handle),
        cl |-> [r.cl EXCEPT ![d].st = "gone"]]

Registry == [slots |-> slots, free |-> free, table |-> table, cl |-> cl]
Becomes(r) == slots' = r.slots /\ free' = r.free /\ table' = r.table /\ cl' = r.cl

\* The boxed closure of c is destroyed while its registry is borrowed, so a
\* closure of the same arity among the things it owns cannot be removed.
Traps(c) == \E d \in Held(c) : ArityOf(d) = ArityOf(c)
WithHeld(r, c) ==
    LET each == SetToSeq(Held(c))
        without[n \in 0..Len(each)] == IF n = 0 THEN r ELSE Unregister(without[n - 1], each[n])
    IN without[Len(each)]

DropClosure(c) ==
    LET running == Slot(ArityOf(c), cl[c].id).st = "borrowed"
    IN /\ Owned(c)
       /\ IF ~running /\ Traps(c) THEN dead' = TRUE /\ UNCHANGED <<slots, free, table, cl>>
          ELSE /\ Becomes(IF running THEN Unregister(Registry, c)
                          ELSE Unregister(WithHeld(Registry, c), c))
               /\ UNCHANGED dead
       /\ UNCHANGED <<held, foreign, stack>>

Forget(c) == /\ Owned(c) /\ cl' = [cl EXCEPT ![c].st = "forgotten"]
             /\ UNCHANGED <<table, held, foreign, slots, free, stack, dead>>

\* -------------------------------------------------------------- trampolines
Args(a) == CASE a = "zero" -> {<<>>}
             [] a = "one"  -> {<<v>> : v \in Payloads}
             [] a = "any"  -> {<<>>} \cup {<<v>> : v \in Payloads}

\* JavaScript calls the function of c, which it may have kept for ever.  The
\* arguments enter the table; a slot that is not filled makes it a no-op that
\* still frees them.
Call(c, vs) ==
    LET a == ArityOf(c)
        s == Slot(a, cl[c].id)
        is == IF vs = <<>> THEN <<>> ELSE <<NewIndex(table)>>
        passed == IF vs = <<>> THEN table ELSE Add(table, Head(vs))
    IN /\ cl[c] # Unmade /\ vs \in Args(a) /\ Room /\ Len(stack) < MaxDepth
       /\ IF s.st = "filled"
          THEN /\ slots' = SetSlot(slots, a, cl[c].id, [s EXCEPT !.st = "borrowed"])
               /\ stack' = Append(stack, [fn |-> c, c |-> s.c, args |-> is])
               /\ table' = passed
          ELSE table' = DropAll(passed, is) /\ UNCHANGED <<slots, stack>>
       /\ UNCHANGED <<held, foreign, free, cl, dead>>

Top == Last(stack)

\* A one-argument closure owns its argument and may keep it.
Keep ==
    /\ stack # <<>> /\ ArityOf(Top.c) = "one" /\ Top.args # <<>> /\ MayHold
    /\ held' = held \cup ToSet(Top.args)
    /\ stack' = Append(Front(stack), [Top EXCEPT !.args = <<>>])
    /\ UNCHANGED <<table, foreign, slots, free, cl, dead>>

\* What the trampoline answers for a result index, and how the glue reads it.
Encode(i, throws) == IF throws THEN i + 1 + HighBit ELSE i + 1
Decode(r) == (r % HighBit) - 1

\* give_back.  A closure that was dropped while it ran is destroyed here.
GiveBack(r, c) ==
    LET a == ArityOf(c)
        id == r.cl[c].id
        s == r.slots[a][id + 1]
    IN IF s.st = "dropped"
       THEN WithHeld([slots |-> SetSlot(r.slots, a, id, Empty),
                      free |-> [r.free EXCEPT ![a] = Append(@, id)],
                      table |-> r.table, cl |-> r.cl], c)
       ELSE [slots |-> SetSlot(r.slots, a, id, [s EXCEPT !.st = "filled"]),
             free |-> r.free, table |-> r.table, cl |-> r.cl]

\* The innermost closure returns nothing, or hands over one of Rust's handles
\* (a variadic one), which JavaScript reads and frees.
Return(res, throws) ==
    LET c == Top.c
        back == GiveBack(Registry, c)
        freed == DropAll(back.table, Top.args)
    IN /\ stack # <<>>
       /\ res # {} => ArityOf(c) = "any" /\ res \subseteq held /\ Cardinality(res) = 1
       /\ throws => res # {}
       /\ stack' = Front(stack)
       /\ IF Slot(ArityOf(c), cl[c].id).st = "dropped" /\ Traps(c)
          THEN dead' = TRUE /\ UNCHANGED <<slots, free, table, cl, held>>
          ELSE /\ slots' = back.slots /\ free' = back.free /\ cl' = back.cl
               /\ table' = IF res = {} THEN freed
                           ELSE Drop(freed, Decode(Encode(CHOOSE i \in res : TRUE, throws)))
               /\ held' = held \ res
               /\ UNCHANGED dead
       /\ UNCHANGED foreign

Handles == (\E v \in Payloads : Make(v) \/ ToWasmLite(v))
           \/ (\E i \in held : Clone(i) \/ DropHandle(i) \/ ToWasmBindgen(i))
Objects == \E c \in Closures :
    \/ \E S \in SUBSET Closures : New(c, S)
    \/ DropClosure(c) \/ Forget(c)
    \/ \E vs \in Args(ArityOf(c)) : Call(c, vs)
Returns == Keep \/ \E res \in SUBSET held, t \in BOOLEAN : Return(res, t)
Next == ~dead /\ (Handles \/ Objects \/ Returns)
Spec == Init /\ [][Next]_vars
-----------------------------------------------------------------------------
\* Every table index has exactly one owner: a handle in Rust, the function of a
\* closure that is not gone, or an argument of a running call; the free lists
\* name nothing twice.  No call, drop, throw or re-entrance may leak or free twice.
Functions == {c \in Closures : cl[c].st \in {"owned", "forgotten"}}
InCalls == UNION {ToSet(stack[i].args) : i \in 1..Len(stack)}
TableBalanced ==
    ~dead =>
    /\ Allocated(table) = held \cup InCalls \cup {cl[c].handle : c \in Functions}
    /\ Cardinality(Allocated(table)) = Cardinality(held) + Cardinality(InCalls)
                                       + Cardinality(Functions)
    /\ IsInjective(table.free)
    /\ \A a \in Arities : IsInjective(free[a])

\* A closure that Rust has not dropped is behind its id, callable unless it is
\* running; a closure runs at most once at a time and is not destroyed, nor its
\* id reused, before it has returned.
Running(c) == \E i \in 1..Len(stack) : stack[i].c = c
RegistryExact ==
    ~dead =>
      /\ \A c \in Functions : Slot(ArityOf(c), cl[c].id) =
             [st |-> IF Running(c) THEN "borrowed" ELSE "filled", c |-> c]
      /\ \A i, j \in 1..Len(stack) : i # j => stack[i].c # stack[j].c
      /\ \A i \in 1..Len(stack) :
             LET c == stack[i].c
             IN Slot(ArityOf(c), cl[c].id).c = c /\ cl[c].id \notin ToSet(free[ArityOf(c)])
=============================================================================
