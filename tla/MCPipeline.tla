----------------------------- MODULE MCPipeline -----------------------------
(***************************************************************************)
(* Small repositories for the pipeline, in families, and small identities, *)
(* whose ids are minted beside it.                                         *)
(***************************************************************************)
EXTENDS Pipeline, MCSymbolId

MCHooks == {"useX"}
MCCapitals == {"X", "Y"}

-----------------------------------------------------------------------------
Path(segs, ext) == [segs |-> segs, ext |-> ext]
File(segs, ext, body) == [path |-> Path(segs, ext), ok |-> TRUE, body |-> body]
Spec3(kind, segs, ext) == [kind |-> kind, segs |-> segs, ext |-> ext]
Rel(name) == Spec3("relative", <<".", name>>, "")
Pkg(segs) == Spec3("bare", segs, "")

Import(spec, clause) == [t |-> "import", spec |-> spec, clause |-> clause]
Named(name, local) == [name |-> name, local |-> local, kind |-> "named", typeOnly |-> FALSE]
TypeNamed(name) == [name |-> name, local |-> name, kind |-> "named", typeOnly |-> TRUE]
Namespace(local) == [name |-> "*", local |-> local, kind |-> "namespace", typeOnly |-> FALSE]
Star(spec) == [t |-> "reexport", spec |-> spec, kind |-> "star", clause |-> <<>>]
Again(spec, name, as) ==
    [t |-> "reexport", spec |-> spec, kind |-> "named", clause |-> <<[name |-> name, as |-> as]>>]

Declare(form, name, exported, body, members) ==
    [t |-> "declare", form |-> form, name |-> name, names |-> <<>>, jsx |-> FALSE,
     params |-> <<>>, body |-> body, members |-> members, extends |-> <<>>,
     exported |-> exported]
Function(name, exported, body) == Declare("function", name, exported, body, <<>>)
Call(callee) == [t |-> "call", callee |-> callee, render |-> FALSE, payload |-> <<>>]

Bare(files) == [files |-> files, ignores |-> <<>>, base |-> <<>>, paths |-> <<>>,
                globs |-> <<>>, packages |-> <<>>]

-----------------------------------------------------------------------------
(* Barrels: x reaches `use` through a hub that re-exports two files, which *)
(* may define it, forward to each other, or turn back to the hub.          *)
LeafBodies(other) ==
    {<<>>, <<Function("x", "named", <<>>)>>, <<Star(Rel(other))>>, <<Star(Rel("hub"))>>,
     <<Function("y", "named", <<>>), Again(Rel(other), "y", "x")>>,
     <<Star(Rel(other)), Star(Pkg(<<"pkg">>))>>}
HubStatements == {Star(Rel("a")), Star(Rel("b")), Star(Rel("gone")), Again(Rel("a"), "x", "x"),
                  Again(Rel("b"), "y", "x")}
HubBodies == {<<s>> : s \in HubStatements}
               \cup {<<p[1], p[2]>> : p \in HubStatements \X HubStatements}
Barrels ==
    {Bare(<<File(<<"a">>, ".ts", a), File(<<"b">>, ".ts", b), File(<<"hub">>, ".ts", hub),
            File(<<"use">>, ".ts", <<Import(Rel("hub"), <<Named("x", "x")>>),
                                     Function("main", "no", <<Call(<<"x">>)>>)>>)>>) :
       a \in LeafBodies("b"), b \in LeafBodies("a"), hub \in HubBodies}

-----------------------------------------------------------------------------
(* Uses: what lib exports and how use imports and calls it.                *)
Part(role, name, body) == [role |-> role, name |-> name, params |-> <<>>, body |-> body]
LocalOf(name, callable, body) ==
    [t |-> "local", name |-> name, callable |-> callable, jsx |-> FALSE, params |-> <<>>,
     body |-> body]
Slots == <<<<[name |-> "p", field |-> TRUE]>>>>
(* Two parameters that take apart an object by one key. *)
SlotsAlike == Slots \o Slots
Props == <<[k \in 1 .. 3 |-> [name |-> <<"p", "r", "s">>[k], field |-> TRUE]]>>
Component(name) ==
    [Function(name, "named", <<>>) EXCEPT !.jsx = TRUE, !.params = Props]
Render(callee) ==
    [t |-> "call", callee |-> callee, render |-> TRUE,
     payload |-> <<[pass |-> "named", name |-> "p", ordinal |-> 0],
                   [pass |-> "named", name |-> "q", ordinal |-> 1]>>]
CallWith(callee) ==
    [Call(callee) EXCEPT !.payload = <<[pass |-> "positional", name |-> "", ordinal |-> 0]>>]

LibBodies ==
    {<<Function("x", "named", <<>>), Function("y", "named", <<Call(<<"x">>)>>)>>,
     <<[Function("x", "default", <<>>) EXCEPT !.params = Slots]>>,
     <<Function("y", "no", <<>>), [t |-> "clause", clause |-> <<[name |-> "y", as |-> "x"]>>]>>,
     <<Declare("class", "X", "named", <<>>, <<Part("method", "m", <<Call(<<"X">>)>>)>>)>>,
     <<Component("X"), Declare("variable", "x", "named", <<>>, <<>>)>>,
     <<[Component("X") EXCEPT !.params = SlotsAlike]>>}
UseImports ==
    {<<Import(Rel("lib"), <<Named("x", "x"), Named("X", "X")>>)>>,
     <<Import(Rel("lib"), <<Named("default", "x")>>), Import(Rel("lib"), <<Namespace("X")>>)>>,
     <<Import(Rel("lib"), <<TypeNamed("x")>>)>>,
     <<Import(Rel("lib"), <<Namespace("x")>>)>>,
     <<Import(Spec3("relative", <<"lib">>, ".js"), <<Namespace("X")>>)>>}
Callees == {Call(<<"x">>), Call(<<"X", "m">>), Call(<<"x", "x">>), Call(<<"X", "x">>),
            Call(<<"o", "x">>), Call(<<"X", "x", "m">>), Render(<<"X">>), Render(<<"X", "X">>)}
Callers(call) ==
    {<<Function("main", "named", <<call, call>>)>>,
     <<Function("main", "no", <<LocalOf("run", TRUE, <<call>>)>>)>>,
     <<Declare("class", "C", "named", <<>>, <<Part("method", "m", <<call>>)>>)>>}
UsesOf(callees) ==
    {Bare(<<File(<<"lib">>, ".tsx", lib), File(<<"use">>, ".tsx", import \o caller)>>) :
       lib \in LibBodies, import \in UseImports, caller \in UNION {Callers(c) : c \in callees}}

-----------------------------------------------------------------------------
(* Shapes: one file, with declarations, members, parameters, locals and    *)
(* calls that repeat names.                                                *)
SeqsOf(set, n) == UNION {[1 .. k -> set] : k \in 0 .. n}
MemberSeqs ==
    SeqsOf({Part("method", "m", <<LocalOf("a", TRUE, <<>>)>>), Part("method", "n", <<>>),
             Part("getter", "g", <<Call(<<"f">>)>>), Part("setter", "g", <<>>),
             Part("field", "h", <<>>)}, 3)
LocalBodies ==
    SeqsOf({LocalOf("a", TRUE, <<Call(<<"f">>), LocalOf("a", FALSE, <<>>)>>),
             LocalOf("a", FALSE, <<>>), LocalOf("p", TRUE, <<>>), CallWith(<<"f">>)}, 3)
Shape(members, body) ==
    Bare(<<File(<<"s">>, ".ts",
             <<[Function("f", "named", body) EXCEPT !.params = Slots],
               Declare("class", "K", "default", <<>>, members)>>)>>)
(* A second declaration beside f and K, of a name of theirs or not. *)
Seconds ==
    {Declare("interface", "K", "named", <<>>, <<Part("property", "h", <<>>)>>),
     Declare("type", "f", "named", <<>>, <<>>), Declare("type", "T", "named", <<>>, <<>>),
     [Declare("destructured", "", "no", <<>>, <<>>) EXCEPT !.names = <<"d", "f">>],
     [Function("h", "no", <<>>) EXCEPT !.params = SlotsAlike]}
Beside(repository, second) ==
    [repository EXCEPT !.files[1].body = Append(@, second)]
Shapes == {Shape(m, <<>>) : m \in MemberSeqs} \cup {Shape(<<>>, b) : b \in LocalBodies}
            \cup {Beside(Shape(<<Part("field", "h", <<>>)>>, <<CallWith(<<"f">>)>>), d) : d \in Seconds}

-----------------------------------------------------------------------------
(* Workspaces: nested packages, an alias, ignored files, and imports by    *)
(* relative path, alias or package name.                                   *)
Statements3(spec) == <<Import(spec, <<Named("x", "x")>>),
                       Function("y", "named", <<Call(<<"x">>)>>),
                       Function("z", "no", <<Call(<<"y">>)>>)>>
Specs(from) == {Spec3("relative", <<"..", "in", "src", "index">>, ""), Pkg(<<"@ws/in">>),
                Pkg(<<"@ws/in", "sub">>), Pkg(<<"other">>),
                Spec3("alias", <<"@", "in", "src">>, "")}
Alias(prefix, star, segs) ==
    [prefix |-> prefix, star |-> star,
     targets |-> <<[segs |-> segs, star |-> star, ext |-> ""]>>]
Package(name, dir, exports) ==
    [name |-> name, dir |-> dir, built |-> <<[segs |-> <<"dist", "index">>, ext |-> ".js"]>>,
     exports |-> exports]
SubExport == [sub |-> <<"sub">>, target |-> [segs |-> <<"dist", "sub">>, ext |-> ".js"]]
Ignores == {<<>>, <<[dir |-> <<"p">>, ignored |-> {<<"b.ts">>}, unignored |-> {}]>>,
            <<[dir |-> <<"p">>, ignored |-> {}, unignored |-> {<<"b.ts">>}],
              [dir |-> <<>>, ignored |-> {<<"p", "b.ts">>}, unignored |-> {}]>>}
Glob(negated, segs) == [negated |-> negated, segs |-> segs]
Globs == {<<>>, <<Glob(FALSE, <<"p">>), Glob(FALSE, <<"p", "*">>)>>,
          <<Glob(TRUE, <<"*", "in">>), Glob(FALSE, <<"**">>)>>}
Workspaces ==
    {[files |-> <<File(<<"main">>, ".ts", Statements3(main)),
                  File(<<"p", "b">>, ".ts", Statements3(Rel("c"))),
                  File(<<"p", "c">>, ".ts", Statements3(c)),
                  File(<<"p", "dist", "d">>, ".ts", <<>>),
                  File(<<"p", "in", "src", "index">>, ".ts",
                       <<Function("x", "named", <<>>), Star(Rel("sub"))>>),
                  File(<<"p", "in", "src", "sub">>, ".ts",
                       <<Function("x", "named", <<>>), Function("w", "no", <<Call(<<"x">>)>>)>>)>>,
      ignores |-> ignores, base |-> <<".">>,
      paths |-> <<Alias(<<"@">>, TRUE, <<"p">>), Alias(<<"@", "in">>, TRUE, <<".", "p", "in">>)>>,
      globs |-> globs,
      packages |-> <<Package("@ws/p", <<"p">>, <<>>),
                     Package("@ws/in", <<"p", "in">>, <<SubExport>>)>>] :
       main \in {Spec3("relative", <<".", "p", "in", "src">>, "")} \cup Specs("main"),
       c \in Specs("c"), ignores \in Ignores,
       globs \in Globs}

-----------------------------------------------------------------------------
NoFiles == Bare(<<>>)
MCRepositories == {NoFiles} \cup Barrels \cup UsesOf(Callees) \cup Shapes \cup Workspaces

(* Every repository beside the minting of one identity, and one repository *)
(* beside that of every identity: they share nothing.                      *)
MCInit ==
    /\ Init
    /\ \/ repo = NoFiles
       \/ repo # NoFiles /\ identity = OneIdentity
    /\ MintSymbol
MCNext ==
    \/ Next /\ UNCHANGED minting
    \/ MintCallSite /\ UNCHANGED vars
MCSpec == MCInit /\ [][MCNext]_<<vars, minting>>
=============================================================================
