------------------------------ MODULE Extract ------------------------------
(***************************************************************************)
(* The parse pass: from one source file to its fragment, the graph of what *)
(* the file declares and calls, and the records the resolve pass needs     *)
(* (packages/parser, packages/lang-react/src/extract).                     *)
(*                                                                         *)
(* A file is given by its syntax, at the grain the extractor looks at it:  *)
(*   file  [path: [segs, ext], ok, body: Seq(statement)]                   *)
(*   "import"   spec, clause: Seq([name, local, kind, typeOnly])           *)
(*   "reexport" spec, kind, clause: Seq([name, as])                        *)
(*   "clause"   clause: Seq([name, as])          export { a as b }         *)
(*   "default"  name                             export default a          *)
(*   "declare"  form, name, names, jsx, params, body, members, extends,    *)
(*              exported: "no" | "named" | "default"                       *)
(*   a body is a sequence of locals [t, name, callable, jsx, params, body] *)
(*   and of calls [t, callee, render, payload]; a callee is the sequence   *)
(*   of the names between its dots; params is a sequence of slots, a slot  *)
(*   a sequence of [name, field].                                          *)
(* A specifier is [kind, segs, ext], where kind tells "./x" ("relative"),  *)
(* "@/x" ("alias") and "pkg/x" ("bare") apart.                             *)
(***************************************************************************)
EXTENDS Naturals, Sequences, SequencesExt, FiniteSets, TLC

CONSTANTS HookNames,      \* names that match ^use[A-Z0-9]
          CapitalNames    \* names that begin with an upper-case letter

(* An identity: a package coordinate ("" in the repository) and a path of  *)
(* descriptors, each a name, a suffix and a disambiguator ("" if none).    *)
Id(pkg, path) == [pkg |-> pkg, path |-> path]
Child(id, name, suffix, dis) == [id EXCEPT !.path = Append(@, <<name, suffix, dis>>)]
ExternalId(pkg, name) == Id(pkg, <<<<name, "term", "">>>>)
LastSegment(path) == path.segs[Len(path.segs)] \o path.ext
FileId(path) == Id("", [i \in DOMAIN path.segs |->
                          <<IF i = Len(path.segs) THEN LastSegment(path) ELSE path.segs[i],
                            "namespace", "">>])

-----------------------------------------------------------------------------
(* Symbols.  `listed` symbols are the ExtractedSymbols of the code, which  *)
(* can enclose calls; those with `bare` have no memberOf.  The others only *)
(* become nodes.                                                           *)

CallsIn(body) == SelectSeq(body, LAMBDA i : i.t = "call")
Symbol(id, name, subKind, parent, listed, bare, params, extends, body) ==
    [id |-> id, name |-> name, subKind |-> subKind, parent |-> parent, listed |-> listed,
     bare |-> bare, params |-> params, extends |-> extends,
     calls |-> CallsIn(body)]

ClassifySymbol(name, returnsJsx) ==
    CASE name \in HookNames -> "hook"
      [] name \in CapitalNames \ HookNames /\ returnsJsx -> "component"
      [] OTHER -> "function"

(* Mutant: looks at the item before only. *)
OccurrenceNextTo(items, k) == IF k > 1 /\ items[k - 1].name = items[k].name THEN 1 ELSE 0
(* How often the name at k occurs before k, and in all. *)
Occurrence(items, k) == Cardinality({j \in 1 .. k - 1 : items[j].name = items[k].name})
Count(items, k) == Cardinality({j \in DOMAIN items : items[j].name = items[k].name})

(* What a scope declares itself, then what its functions declare. *)
RECURSIVE Locals(_, _, _)
Locals(scope, body, jsx) ==
    LET locals == SelectSeq(body, LAMBDA i : i.t = "local")
        Dis(k) == IF Count(locals, k) > 1 THEN ToString(Occurrence(locals, k)) ELSE ""
        One(k) ==
            LET l == locals[k]
                id == Child(scope, l.name, "local", Dis(k))
            IN  IF l.callable
                THEN <<Symbol(id, l.name, ClassifySymbol(l.name, jsx /\ l.jsx), scope,
                              TRUE, FALSE, l.params, <<>>, l.body)>>
                         \o Locals(id, l.body, jsx)
                ELSE <<Symbol(id, l.name, "variable", scope, FALSE, FALSE, <<>>, <<>>, <<>>)>>
    IN  FlattenSeq([k \in DOMAIN locals |-> One(k)])

MethodLike == {"method", "getter", "setter"}

(* A class or interface body. *)
Members(owner, members, jsx) ==
    LET methods == SelectSeq(members, LAMBDA m : m.role = "method")
        Overloaded(m) == Cardinality({j \in DOMAIN methods : methods[j].name = m.name}) > 1
        Dis(k) == CASE members[k].role = "getter" -> "get"
                    [] members[k].role = "setter" -> "set"
                    [] Overloaded(members[k]) -> ToString(Occurrence(members, k))
                    [] OTHER -> ""
        One(k) ==
            LET m == members[k] IN
            IF m.role \in MethodLike
            THEN LET id == Child(owner, m.name, "method", Dis(k))
                 IN  <<Symbol(id, m.name, m.role, owner, TRUE, FALSE, m.params, <<>>, m.body)>>
                         \o Locals(id, m.body, jsx)
            ELSE <<Symbol(Child(owner, m.name, "term", ""), m.name, m.role, owner,
                          FALSE, FALSE, <<>>, <<>>, <<>>)>>
    IN  FlattenSeq([k \in DOMAIN members |-> One(k)])

ReactBases == {"Component", "PureComponent", "React.Component", "React.PureComponent"}

(* The subkind of a top-level declaration. *)
SubKindOf(d, jsx) ==
    CASE d.form \in {"function", "arrow"} -> ClassifySymbol(d.name, jsx /\ d.jsx)
      [] d.form = "wrapper" -> "component"
      [] d.form = "class" /\ ToSet(d.extends) \cap ReactBases # {} -> "component"
      [] OTHER -> d.form

Declared(file, d, jsx) ==
    LET id == Child(file, d.name, "term", "")
        hasBody == d.form \in {"function", "arrow"}
    IN  IF d.form = "destructured"
        THEN [k \in DOMAIN d.names |->
                Symbol(Child(file, d.names[k], "term", ""), d.names[k], "variable", file,
                       FALSE, FALSE, <<>>, <<>>, <<>>)]
        ELSE <<Symbol(id, d.name, SubKindOf(d, jsx), file, TRUE, TRUE, d.params,
                      d.extends, d.body)>>
                 \o (IF hasBody THEN Locals(id, d.body, jsx) ELSE <<>>)
                 \o Members(id, d.members, jsx)

Statements(file, t) == SelectSeq(file.body, LAMBDA s : s.t = t)

Jsx(file) == file.path.ext = ".tsx"

Symbols(file) ==
    LET decls == Statements(file, "declare")
    IN  FlattenSeq([k \in DOMAIN decls |-> Declared(FileId(file.path), decls[k], Jsx(file))])

(* The declared inputs of a symbol, each with the slot it stands in. *)
Inputs(s) ==
    LET Slot(k) == [j \in DOMAIN s.params[k] |->
                      [id |-> Child(s.id, s.params[k][j].name, "parameter", ""),
                       name |-> s.params[k][j].name, ordinal |-> k - 1,
                       prop |-> s.params[k][j].field /\ s.subKind = "component"
                                /\ s.bare]]
    IN  FlattenSeq([k \in DOMAIN s.params |-> Slot(k)])

-----------------------------------------------------------------------------
(* Nodes and edges of the graph.                                           *)

Node(kind, id, name, subKind, payload) ==
    [kind |-> kind, id |-> id, name |-> name, subKind |-> subKind, payload |-> payload]
Deterministic == "deterministic"
Edge(kind, source, target, pass, subKind, certainty) ==
    [kind |-> kind, source |-> source, target |-> target, pass |-> pass,
     subKind |-> subKind, certainty |-> certainty]
ParseEdge(kind, source, target, subKind) ==
    Edge(kind, source, target, "parse", subKind, Deterministic)

(* The last symbol of a sequence that goes by a name, as a Map would have it. *)
LastNamed(symbols, name) ==
    LET at == {k \in DOMAIN symbols : symbols[k].name = name}
    IN  IF at = {} THEN <<>> ELSE <<symbols[CHOOSE k \in at : \A j \in at : j <= k]>>

(* Imports of packages, and the local names they bind. *)
Externals(file) == SelectSeq(Statements(file, "import"), LAMBDA s : s.spec.kind = "bare")
PackageOf(spec) == spec.segs[1]
ExternalBindings(file) ==
    LET Of(s) == SelectSeq(s.clause, LAMBDA b : b.kind # "namespace")
        all == FlattenSeq([k \in DOMAIN Externals(file) |->
                 [j \in DOMAIN Of(Externals(file)[k]) |->
                    [name |-> Of(Externals(file)[k])[j].local,
                     id |-> ExternalId(PackageOf(Externals(file)[k].spec),
                                       Of(Externals(file)[k])[j].name)]]])
    IN  all

(* Call and render sites of a symbol, with their ordinals.                 *)
Collected(c, jsx) == c.render => jsx /\ (Len(c.callee) > 1 \/ c.callee[1] \in CapitalNames)
SitesOf(s, jsx) ==
    LET calls == SelectSeq(s.calls, LAMBDA c : Collected(c, jsx))
        Ordinal(k) == Cardinality({j \in 1 .. k - 1 : calls[j].callee = calls[k].callee})
    IN  [k \in DOMAIN calls |->
           [id |-> Child(s.id, ToString(<<calls[k].callee, Ordinal(k)>>), "meta", ""),
            enclosing |-> s.id, callee |-> calls[k].callee, render |-> calls[k].render,
            payload |-> calls[k].payload]]

(* A payload entry binds a prop by name, an argument by a slot of one name. *)
BindPayload(site, receiver) ==
    LET inputs == ToSet(Inputs(receiver))
        Bound(a) == IF site.render
                    THEN {i \in inputs : a.pass = "named" /\ i.prop /\ i.name = a.name}
                    ELSE {i \in inputs : /\ a.pass = "positional"
                                         /\ i.ordinal = a.ordinal
                                         /\ \A j \in inputs : j.ordinal = a.ordinal => j = i}
    IN  UNION {{ParseEdge("references", site.id, i.id,
                          IF site.render THEN "propBinding" ELSE "argBinding") :
                  i \in Bound(a)} : a \in ToSet(site.payload)}

ResolveTarget(site, externals, bare) ==
    LET subKind == IF site.render THEN "renders" ELSE ""
        name == site.callee[1]
        external == LastNamed(externals, name)
        local == LastNamed(bare, name)
    IN  CASE Len(site.callee) > 1 -> {}
          [] Len(site.callee) = 1 /\ external # <<>> ->
               {ParseEdge("calls", site.id, external[1].id, subKind)}
          [] Len(site.callee) = 1 /\ external = <<>> /\ local # <<>> ->
               {ParseEdge("calls", site.id, local[1].id, subKind)} \cup BindPayload(site, local[1])
          [] OTHER -> {}

(* Supertypes: an imported one, else the last listed symbol of that name. *)
HeritageEdges(symbols, listed, externals) ==
    UNION {UNION {LET external == LastNamed(externals, base)
                      local == LastNamed(listed, base)
                  IN  CASE external # <<>> ->
                             {ParseEdge("extends", s.id, external[1].id, "")}
                        [] external = <<>> /\ local # <<>> ->
                             {ParseEdge("extends", s.id, local[1].id, "")}
                        [] OTHER -> {} :
                    base \in ToSet(s.extends)} : s \in ToSet(symbols)}

(* Exports: the names a statement exports and the symbols they bind.  The  *)
(* look-up is by name among all listed symbols, the last one wins.         *)
ExportedNames(s) ==
    CASE s.t = "declare" /\ s.exported = "named" ->
           IF s.form = "destructured" THEN <<>> ELSE <<[name |-> s.name, as |-> s.name]>>
      [] s.t = "declare" /\ s.exported = "default" -> <<[name |-> s.name, as |-> "default"]>>
      [] s.t = "clause" -> s.clause
      [] s.t = "default" -> <<[name |-> s.name, as |-> "default"]>>
      [] OTHER -> <<>>

LocalExports(file, listed) ==
    LET all == FlattenSeq([k \in DOMAIN file.body |-> ExportedNames(file.body[k])])
        bound == SelectSeq(all, LAMBDA b : LastNamed(listed, b.name) # <<>>)
    IN  [k \in DOMAIN bound |-> [name |-> bound[k].as, id |-> LastNamed(listed, bound[k].name)[1].id]]

ReExports(file) == Statements(file, "reexport")

-----------------------------------------------------------------------------
(* The fragment of a file.  A file whose extension no plugin claims, or    *)
(* that does not parse, degrades to its node.                              *)

Fragment(path, nodes, edges, sites, unresolved, exports, reExports, externals) ==
    [path |-> path, id |-> FileId(path), nodes |-> nodes, edges |-> edges, sites |-> sites,
     unresolved |-> unresolved, exports |-> exports, reExports |-> reExports,
     externals |-> externals]

FileNode(path) == Node("file", FileId(path), LastSegment(path), "", <<>>)
Degraded(path) == Fragment(path, {FileNode(path)}, {}, <<>>, <<>>, <<>>, <<>>, <<>>)

Analyzed(file) ==
    LET id == FileId(file.path)
        symbols == Symbols(file)
        listed == SelectSeq(symbols, LAMBDA s : s.listed)
        bare == SelectSeq(listed, LAMBDA s : s.bare)
        externals == ExternalBindings(file)
        exports == LocalExports(file, listed)
        sites == FlattenSeq([k \in DOMAIN listed |-> SitesOf(listed[k], Jsx(file))])
        inputs == [s \in ToSet(symbols) |-> ToSet(Inputs(s))]
    IN  Fragment(file.path,
          {FileNode(file.path)}
            \cup {Node("symbol", s.id, s.name, s.subKind, <<>>) : s \in ToSet(symbols)}
            \cup UNION {{Node("symbol", i.id, i.name, IF i.prop THEN "prop" ELSE "parameter", <<>>) :
                           i \in inputs[s]} : s \in ToSet(symbols)}
            \cup {Node("callSite", c.id, c.callee[Len(c.callee)], "", c.payload) : c \in ToSet(sites)},
          {ParseEdge("contains", s.parent, s.id, "") : s \in ToSet(symbols)}
            \cup UNION {{ParseEdge("contains", s.id, i.id, "") : i \in inputs[s]} :
                          s \in ToSet(symbols)}
            \cup {ParseEdge("contains", c.enclosing, c.id, "") : c \in ToSet(sites)}
            \cup {ParseEdge("imports", id, e.id, "") : e \in ToSet(externals)}
            \cup {ParseEdge("exports", id, e.id,
                            IF e.name = "default" THEN "defaultExport" ELSE "") :
                    e \in ToSet(exports)}
            \cup UNION {ResolveTarget(c, externals, bare) : c \in ToSet(sites)}
            \cup HeritageEdges(symbols, listed, externals),
          sites,
          SelectSeq(Statements(file, "import"), LAMBDA s : s.spec.kind # "bare"),
          exports, ReExports(file), Externals(file))

(* One plugin claims .ts (and so .d.ts), one .tsx. *)
Claimed(path) == path.ext \in {".ts", ".d.ts", ".tsx"}
ParseFile(file) ==
    IF Claimed(file.path) /\ file.ok THEN Analyzed(file) ELSE Degraded(file.path)
=============================================================================
