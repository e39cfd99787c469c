------------------------------ MODULE MCInputs ------------------------------
(* The inputs the components of MCGlue are tried with, one section per         *)
(* component.                                                                  *)
EXTENDS Integers, Sequences, FiniteSets, TLC

(* The declarations of import! and the functions of #[export] that TLC goes    *)
(* through: every type in an argument and as a return, every attribute with    *)
(* parameters that do and do not fit it.                                       *)

Type(w, f, o, e) == [wrap |-> w, form |-> f, of |-> o, err |-> e]
Val(o) == Type("", "val", o, "")
Unwritten == Type("none", "", "", "")
Param(n, ty) == [name |-> n, ty |-> ty]
This == Param("this", Type("", "ref", "JsValue", ""))
Decl(attr, variadic, params, ret) ==
    [attr |-> attr, variadic |-> variadic, js |-> "clean", params |-> params, ret |-> ret]

Ints == {"i8", "u16", "i32", "u32", "usize", "isize", "i64", "u64"}
Widths == [t \in {"i8", "u8", "i16", "u16", "i32", "u32", "isize", "usize", "i64", "u64"} |->
             CASE t \in {"i8", "u8"} -> 2 [] t \in {"i16", "u16"} -> 3
               [] t \in {"i64", "u64"} -> 5 [] OTHER -> 4]
-----------------------------------------------------------------------------
ArgTypes ==
    {Type(w, "val", o, "") : w \in {"", "Option"}, o \in Ints \cup {"f64", "bool", "String"}}
    \cup {Type(w, f, o, "") : w \in {"", "Option"}, f \in {"ref", "slice"},
                              o \in {"str", "u8", "JsValue", "f32", "usize"}}
RetTypes ==
    {Type(w, "val", o, "") :
       w \in {"", "Option"}, o \in Ints \cup {"bool", "unit", "JsValue", "String"}}
    \cup {Type(w, "val", o, e) : w \in {"Result", "ResultOption"}, e \in {"JsValue", "String"},
                                 o \in {"u64", "i8", "u32", "bool", "unit", "JsValue"}}
    \cup {Type(w, "vec", "u8", "JsValue") : w \in {"", "Option", "Result", "ResultOption"}}
SmallParams == {<<>>, <<Param("x", Val("u32"))>>, <<This>>, <<This, Param("x", Val("u64"))>>,
                <<This, Param("x", Type("Option", "ref", "str", "")), Param("y", Val("i8"))>>,
                <<This, Param("x", Val("i32")), Param("y", Type("", "slice", "JsValue", ""))>>}
Attributes == {"", "getter", "setter", "constructor", "indexing_getter", "indexing_setter",
               "instanceof", "static_getter", "indexing_deleter"}
AllDeclarations ==
    {Decl("", v, <<Param("x", t), Param("y", Val("u32"))>>, Unwritten) :
       t \in ArgTypes, v \in BOOLEAN}
    \cup {Decl(a, FALSE, <<>>, r) : a \in {"", "static_getter", "constructor"}, r \in RetTypes}
    \cup {Decl(a, v, p, r) : a \in Attributes, v \in BOOLEAN, p \in SmallParams,
                             r \in {Unwritten, Val("bool"), Val("u32"), Val("JsValue"),
                                    Type("Result", "val", "unit", "JsValue")}}
    \cup {[Decl("", FALSE, <<>>, Unwritten) EXCEPT !.js = "barred"]}
-----------------------------------------------------------------------------
Function(k, ps, r) == [kind |-> k, params |-> ps, ret |-> r]
TakenTypes ==
    {Type(w, "val", o, "") : w \in {"", "Option"}, o \in Ints \cup {"f64", "bool", "JsValue"}}
    \cup {Type(w, f, o, "") : w \in {"", "Option"}, o \in {"str", "u8"},
                              f \in {"ref", "slice", "static", "mutslice"}}
ReturnedTypes ==
    {Val(o) : o \in Ints \cup {"bool", "unit", "String", "JsValue"}}
    \cup {Type(w, "val", o, "String") : w \in {"Option", "Result", "ResultOption"},
                                        o \in Ints \cup {"bool", "unit", "String", "JsValue"}}
    \cup {Type(w, "vec", "u8", "JsValue") : w \in {"", "Option", "Result"}}
AllFunctions ==
    {Function("sync", <<p>>, Val("unit")) : p \in TakenTypes}
    \cup {Function("sync", <<Type("", "ref", "str", ""), Type("Option", "val", "u64", "")>>, r) :
             r \in ReturnedTypes}
    \cup {Function("async", <<>>, Val("unit"))}
-----------------------------------------------------------------------------
(* Items written for wasm-bindgen: every shape of binding, with options that   *)
(* the shim refuses, and callbacks and closures of every signature.            *)

Item(is, flags, params, ret) ==
    [is |-> is, block |-> FALSE, flags |-> flags, name |-> "name", js |-> "", class |-> "",
     static |-> "", ns |-> <<>>, params |-> params, ret |-> ret]
Foreign == Val("Element")
Receive == Param("el", Type("", "ref", "Element", ""))
Lent(of, ret) == Param("cb", Type("", "callback", of, ret))
Members == {<<{"method"}, <<Receive>>, Val("u32")>>,
            <<{"getter", "method"}, <<Receive>>, Foreign>>,
            <<{"setter", "method"}, <<Receive, Param("v", Val("Enum"))>>, Unwritten>>,
            <<{"indexing_getter", "method"}, <<Receive, Param("k", Val("u32"))>>, Val("Enum")>>,
            <<{"indexing_setter", "method"},
              <<Receive, Param("k", Val("u32")), Param("v", Val("JsValue"))>>, Unwritten>>,
            <<{"indexing_deleter", "method"}, <<Receive, Param("k", Val("u32"))>>, Val("bool")>>,
            <<{"constructor"}, <<Param("x", Type("Option", "ref", "Element", ""))>>, Foreign>>,
            <<{"variadic"}, <<Param("xs", Type("", "slice", "Element", ""))>>, Unwritten>>}
Bindings ==
    {Item("fn", m[1], m[2], m[3]) : m \in Members}
    \cup {Item("fn", {}, <<Param("x", t)>>, Unwritten) :
             t \in ArgTypes \cup {Foreign, Type("Clamped", "slice", "u8", ""),
                                 Type("Option", "slice", "Element", "")}}
    \cup {Item("fn", {"catch"}, <<>>, r) :
             r \in RetTypes \cup {Type("Option", "val", "Element", ""),
                                  Type("Result", "val", "Enum", "JsError")}}
    \cup {Item("fn", {}, <<Lent(of, ret)>>, Type("Result", "val", "unit", "JsValue")) :
             of \in {"u32", "i8", "i64", "bool", "String", "Element"}, ret \in {"none", "Result"}}
    \cup {Item("fn", {}, <<Lent("u32", ret)>>, Unwritten) :
             ret \in {"bool", "u32", "u64", "String", "Vec", "Element"}}
    \cup {Item("static", {}, <<>>, Val("f64")), Item("type", {}, <<>>, Unwritten),
          Item("type", {"is_type_of"}, <<>>, Unwritten), Item("export", {}, <<>>, Unwritten),
          Item("other", {}, <<>>, Unwritten),
          Item("enum", {}, <<Param("A", Type("", "ref", "str", ""))>>, Unwritten),
          Item("enum", {}, <<Param("A", Val("u32"))>>, Unwritten),
          Item("fn", {}, <<Receive>>, Unwritten), Item("fn", {}, <<This>>, Unwritten)}
    \cup {Item("closure", f, <<Param("f", Type("", "callback", of, "none"))>>, Unwritten) :
             f \in {{}, {"once"}}, of \in {"u32", "Element"}}
\* The same with a name, a class and a namespace, and with options that are refused.
Elsewhere == {[b EXCEPT !.js = js, !.class = class, !.ns = ns, !.static = s] :
                b \in {Item("fn", {f}, <<>>, Val("JsValue")) : f \in {"constructor", "getter"}}
                      \cup {Item("fn", {}, <<>>, Val("bool")), Item("static", {}, <<>>, Val("bool"))},
                js \in {"", "js"}, class \in {"", "Class"}, ns \in {<<>>, <<"ns">>, <<"a", "b">>},
                s \in {"", "Static"}}
Unfit == {[Item("fn", f, <<>>, Unwritten) EXCEPT !.block = b] :
            f \in {{}, {"module"}, {"start"}, {"unknown"}}, b \in BOOLEAN}
AllItems == Bindings \cup Elsewhere \cup Unfit
-----------------------------------------------------------------------------
(* The modules the reader is given: a few of them whole, every one broken off  *)
(* at each place, and with each byte replaced.                                 *)

LebOf(n) == IF n < 4 THEN <<n>>
            ELSE IF n < 16 THEN <<4 + (n % 4), n \div 4>>
            ELSE <<4 + (n % 4), 4 + ((n \div 4) % 4), n \div 16>>
NameOf(s) == LebOf(Len(s)) \o s
Section(id, body) == <<id>> \o LebOf(Len(body)) \o body
Wanted == <<1>>

\* Entries with what they are to the pass that looks for them.
ImportedFunction == NameOf(<<1>>) \o NameOf(<<2>>) \o <<0>> \o LebOf(5)
Table == NameOf(<<1>>) \o NameOf(<<>>) \o <<1, 0, 1, 2, 3>>
Shared == NameOf(<<>>) \o NameOf(<<3>>) \o <<2, 3>> \o LebOf(4) \o LebOf(17)
Own == NameOf(<<>>) \o NameOf(<<3>>) \o <<2, 0, 1>>
Global == NameOf(<<2>>) \o NameOf(<<>>) \o <<3, 0, 7>>
Export(name) == NameOf(name) \o <<0>> \o LebOf(2)

Written(customs, memory, functions, exports) ==
    [customs |-> customs, memory |-> memory, functions |-> functions, exports |-> exports]
Module(sections, wrote) == [sections |-> sections, wrote |-> wrote]
Modules == {
    Module(<<>>, Written(<<>>, <<>>, <<>>, <<>>)),
    Module(<<Section(2, <<2>> \o ImportedFunction \o Shared),
             Section(0, NameOf(Wanted) \o <<6, 0>>)>>,
           Written(<<<<6, 0>>>>, <<[initial |-> 4, maximum |-> 17, shared |-> TRUE]>>,
                   << <<<<1>>, <<2>>>> >>, <<>>)),
    Module(<<Section(0, NameOf(Wanted)), Section(2, <<3>> \o Global \o Own \o Table),
             Section(0, NameOf(Wanted) \o <<7>>), Section(0, NameOf(<<2>>) \o <<1>>)>>,
           Written(<<<<>>, <<7>>>>, <<[initial |-> 1, maximum |-> -1, shared |-> FALSE]>>,
                   <<>>, <<>>)),
    Module(<<Section(3, <<7, 7, 7, 7, 7>>), Section(7, <<2>> \o Export(<<1, 2>>) \o Export(<<>>))>>,
           Written(<<>>, <<>>, <<>>, <<<<1, 2>>, <<>>>>))}

Upto(m, n) == LET join[k \in 0..n] == IF k = 0 THEN <<5, 6>> ELSE join[k - 1] \o m.sections[k]
              IN join[n]
Bytes(m) == Upto(m, Len(m.sections))
Boundaries(m) == {Len(Upto(m, n)) : n \in 0..Len(m.sections)}
Image(kind, bytes, wrote) == [kind |-> kind, bytes |-> bytes, wrote |-> wrote]
Images == UNION {
    {Image("whole", Bytes(m), m.wrote)}
    \cup {Image("cut", SubSeq(Bytes(m), 1, n), m.wrote) :
              n \in (0..Len(Bytes(m)) - 1) \ Boundaries(m)}
    \cup {Image("changed", [Bytes(m) EXCEPT ![i] = b], m.wrote) :
              i \in 1..Len(Bytes(m)), b \in 0..7}
    : m \in Modules}
-----------------------------------------------------------------------------
(* The crates, link flags and command lines the harness is tried with: each of *)
(* the three is varied while the other two stay at a few typical values.       *)

Attr(name, form, text) == [name |-> name, form |-> form, text |-> text]
Texts == {<<>>, <<"a">>, <<"a", "cr">>, <<"cr", "a">>, <<"a", "tab", "a">>, <<"a", "nl">>}
Attrs == {Attr("ignore", "bare", <<>>), Attr("test", "bare", <<>>)}
         \cup {Attr("should_panic", form, <<>>) : form \in {"bare", "other"}}
         \cup {Attr("should_panic", "text", t) : t \in Texts}
AttrLists == {<<>>} \cup {<<a>> : a \in Attrs} \cup {<<a, b>> : a, b \in Attrs}

Fn(kind, path, async, worker, attrs) ==
    [kind |-> kind, path |-> path, async |-> async, attrs |-> attrs,
     args |-> IF worker THEN {"worker"} ELSE {"crate"},
     returns |-> FALSE, params |-> IF kind = "bench" THEN 1 ELSE 0]
Plain == Fn("test", "t::one", FALSE, FALSE, <<>>)
Quiet == Fn("test", "t::oneself", FALSE, FALSE, <<Attr("ignore", "bare", <<>>)>>)
Deferred == Fn("test", "t::task", TRUE, FALSE, <<Attr("should_panic", "text", <<"a">>)>>)
Threaded == Fn("test", "t::two", FALSE, TRUE, <<>>)
Bench == Fn("bench", "b::one", FALSE, FALSE, <<>>)
SlowBench == Fn("bench", "b::two", TRUE, FALSE, <<Attr("ignore", "bare", <<>>)>>)
Contained == {<<"one", "t::one">>, <<"one", "t::oneself">>, <<"one", "b::one">>,
              <<"t::one", "t::oneself">>}

LinkOf(memory, exports) ==
    [memory |-> memory, exports |-> exports, spawns |-> FALSE, bindgen |-> FALSE, cli |-> TRUE,
     noop |-> FALSE, joined |-> TRUE, damaged |-> FALSE, foreign |-> <<>>]
OwnMemory == LinkOf("own", {"main", "__wl_thread_entry"})
Symbols == {"__stack_pointer", "__tls_size", "__wasm_init_tls", "__tls_base", "__tls_align"}
Threads == [LinkOf("shared", {"main", "__wl_thread_entry"} \cup Symbols) EXCEPT !.spawns = TRUE]
CallOf(argv, dir) ==
    [argv |-> argv, dir |-> dir, inBuild |-> FALSE, doctest |-> FALSE, seconds |-> FALSE,
     program |-> "wasm", noOpen |-> FALSE, browser |-> FALSE]
CargoTest == CallOf(<<"prog">>, "deps")

World(fs, ls, cs) == [functions : fs, link : ls, call : cs]
\* Sources: every attribute list on every shape of function, and pairs of them.
Sources == World(
    {<<Fn("test", "t::one", async, worker, attrs)>> :
        async \in BOOLEAN, worker \in BOOLEAN, attrs \in AttrLists}
    \cup {<<[Fn("bench", "b::one", async, worker, attrs) EXCEPT !.params = n]>> :
        async \in BOOLEAN, worker \in BOOLEAN, n \in 0..2,
        attrs \in {<<>>} \cup {<<a>> : a \in Attrs}}
    \cup {<<[f EXCEPT !.returns = TRUE]>> : f \in {Plain, Bench}}
    \cup {<<[f EXCEPT !.args = {"crate", "main"}]>> : f \in {Plain, Bench}}
    \cup {<<f, g>> : f \in {Plain, Deferred, Bench}, g \in {Quiet, Threaded, SlowBench}},
    {OwnMemory, [Threads EXCEPT !.joined = FALSE],
     [OwnMemory EXCEPT !.foreign = <<<<"t::new", "tab", "retry", "nl">>>>],
     [OwnMemory EXCEPT !.damaged = TRUE]},
    {CargoTest, CallOf(<<"prog">>, "debug")})
\* Links: every set of thread symbols on every kind of memory and both backends.
Links == World(
    {<<>>, <<Threaded>>},
    {[LinkOf(memory, exports \cup marker) EXCEPT !.spawns = spawns, !.bindgen = bindgen,
                                                 !.cli = cli, !.noop = noop] :
        memory \in {"own", "imported", "shared"}, exports \in SUBSET Symbols,
        marker \in {{"main", "__wl_thread_entry"}, {"__wl_thread_entry"}},
        spawns \in BOOLEAN, bindgen \in BOOLEAN, cli \in BOOLEAN, noop \in BOOLEAN},
    {CargoTest, [CallOf(<<"prog">>, "debug") EXCEPT !.noOpen = TRUE]})
\* Calls: flags before and after the program, filters, and every place it may lie.
Flags == {"--test", "--serve", "--exact", "--list", "--bench", "--include-ignored",
          "--ignored", "--nocapture", "--stop-browser"}
Argvs == {<<>>, <<"--list">>}
         \cup {<<"prog">> \o fs : fs \in {<<>>, <<"one">>, <<"t::one">>, <<"main">>}}
         \cup {<<f, "prog", g>> : f, g \in Flags} \cup {<<"prog", f, "one", g>> : f, g \in Flags}
Calls == World(
    {<<>>, <<Plain, Quiet>>, <<Quiet, Bench>>, <<Bench, SlowBench>>},
    {OwnMemory, [OwnMemory EXCEPT !.noop = TRUE]},
    {CallOf(argv, "debug") : argv \in Argvs}
    \cup {[argv |-> argv, dir |-> dir, inBuild |-> inBuild, doctest |-> doctest,
           seconds |-> seconds, program |-> program, noOpen |-> noOpen, browser |-> FALSE] :
             argv \in {<<"prog">>, <<"--serve", "prog">>}, dir \in {"deps", "out", "debug"},
             inBuild \in BOOLEAN, doctest \in BOOLEAN, seconds \in BOOLEAN,
             program \in {"wasm", "js", "other"}, noOpen \in BOOLEAN})
Worlds == Sources \cup {w \in Links : w.functions # <<>> => w.link.spawns}
                  \cup {w \in Calls : w.call.program = "wasm" \/ w.functions = <<>>}
-----------------------------------------------------------------------------
(* What the clients of the server send: requests of files, ranges of them,     *)
(* batches of log lines, and frames to be echoed; a second client is idle, or  *)
(* posts a batch of its own.                                                   *)

Five == <<"a", "b", "c", "d", "e">>
ServedRoutes == (<<"program.js">> :> [type |-> "script", body |-> Five])
          @@ (<<"shadowed">> :> [type |-> "wasm", body |-> <<"w">>])
ServedDisk == (<<"data">> :> [inside |-> TRUE, ext |-> "", body |-> Five])
        @@ (<<"empty">> :> [inside |-> TRUE, ext |-> "bin", body |-> <<>>])
        @@ (<<"sub", "x.mjs">> :> [inside |-> TRUE, ext |-> "mjs", body |-> <<"x">>])
        @@ (<<"shadowed">> :> [inside |-> TRUE, ext |-> "wasm", body |-> <<"n", "o">>])
        @@ (<<"link">> :> [inside |-> FALSE, ext |-> "wasm", body |-> <<"s">>])
        @@ (<<"..", "secret">> :> [inside |-> FALSE, ext |-> "js", body |-> <<"s">>])

Get(path) == [idle |-> FALSE, method |-> "GET", path |-> path, headers |-> <<>>,
              body |-> <<>>, frames |-> <<>>]
Idle == [Get(<<>>) EXCEPT !.idle = TRUE]
With(p, name, value) == [p EXCEPT !.headers = Append(@, [name |-> name, value |-> value])]
Range(form, from, to) == [form |-> form, from |-> from, to |-> to]
Post(length, body) ==
    [With(Get(<<"__wl_log">>), "length", length) EXCEPT !.method = "POST", !.body = body]

Ranges == {Range("single", 0, 1), Range("single", 2, 9), Range("single", 4, 4),
           Range("single", 5, 6), Range("single", 3, 1), Range("open", 3, 0),
           Range("open", 5, 0), Range("suffix", 0, 2), Range("multi", 0, 1)}
Reads == {[With(Get(path), "range", r) EXCEPT !.method = m] :
              path \in {<<"data">>, <<"empty">>, <<"program.js">>}, r \in Ranges,
              m \in {"GET", "HEAD"}}
Paths == {Get(path) : path \in {<<"data">>, <<"", "sub", ".", "x.mjs">>, <<"shadowed">>,
                                <<"link">>, <<"..", "secret">>, <<"sub", "..", "data">>,
                                <<"none">>, <<"junk">>, <<"__wl_log">>, <<"__wl_echo">>}}
         \cup {[Get(<<"data">>) EXCEPT !.method = "HEAD"]}
Batches == {Post(2, <<"p", "q">>), Post(3, <<"p", "q">>), Post(6, <<"p", "q", "r", "s", "t", "u">>)}

Frame(op, fin, mask, wire) == [op |-> op, fin |-> fin, masked |-> mask # <<>>, mask |-> mask,
                               wire |-> wire, len |-> Len(wire)]
Odd == <<1, 0, 1, 1>>
Close == Frame("close", TRUE, Odd, <<1, 1>>)
Talks == {<<Frame("text", FALSE, Odd, <<1, 0>>), Frame("ping", TRUE, Odd, <<0>>),
            Frame("more", TRUE, Odd, <<1>>), Close>>,
          <<Frame("binary", TRUE, Odd, <<1, 1, 0, 0, 1>>), Frame("text", TRUE, <<>>, <<>>), Close>>,
          <<Frame("pong", TRUE, <<>>, <<>>), Frame("binary", FALSE, Odd, <<0, 1>>),
            Frame("more", FALSE, Odd, <<1, 1>>), Frame("more", TRUE, Odd, <<>>),
            Frame("text", TRUE, Odd, <<1>>)>>,
          <<Frame("text", TRUE, Odd, <<1>>), Frame("binary", TRUE, <<>>, <<1, 1, 1, 1, 1, 1>>)>>}
Echoes == {[With(Get(<<"__wl_echo">>), "key", "k") EXCEPT !.frames = t] : t \in Talks}

ServedPlans == {("c1" :> p) @@ ("c2" :> Idle) : p \in Reads \cup Paths \cup Echoes}
         \cup {("c1" :> p) @@ ("c2" :> Post(2, <<"v", "w">>)) :
                 p \in Batches \cup {Get(<<"data">>)}}
-----------------------------------------------------------------------------
(* Two builds in one directory: of a module with threads, whose worker's name  *)
(* may be its own output's, and of a module or a bundle that is told to write  *)
(* where that worker goes.                                                     *)

Procs == {"p", "q"}
WithWorker == [kind |-> "shared", path |-> [glue |-> "a", worker |-> "w"]]
Clash == [kind |-> "shared", path |-> [glue |-> "w", worker |-> "w"]]
AtWorker == [kind |-> "plain", path |-> [glue |-> "w"]]
Bundle == [kind |-> "interop", path |-> [glue |-> "w", wasm |-> "b", wl |-> "c", wb |-> "e"]]
Jobs == [p : {WithWorker, Clash}, q : {WithWorker, AtWorker, Bundle}]

Entry(kind) == [kind |-> kind, by |-> "none", part |-> "none"]
Directories ==
    {[a |-> Entry("hand"), b |-> Entry(k), c |-> Entry("generated"), e |-> Entry("none"),
      w |-> Entry(w)] : k \in {"none", "dir"}, w \in {"none", "hand", "generated", "link", "dir"}}
-----------------------------------------------------------------------------
(* The bodies a Bencher measures for TLC: iterations that cost nothing, little *)
(* and more than the target, warm and cold, by a fine clock and a coarse one,  *)
(* and a routine that reports what it likes.                                   *)

Bodies == {[kind |-> "async", cost |-> 0, cold |-> 0, tick |-> 1]}
          \cup [kind : {"sync"}, cost : {0, 1, 3, 25}, cold : {0, 20}, tick : {1, 4}]
Durations == {0, 3, 40}
=============================================================================
