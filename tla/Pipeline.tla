------------------------------ MODULE Pipeline ------------------------------
(***************************************************************************)
(* The ingest of one repository, from its files to its graph: discovery,   *)
(* one fragment per file, resolution against the project model, and the    *)
(* synthesis of packages (packages/ingest, composed of Extract and         *)
(* Resolve).                                                               *)
(*                                                                         *)
(* A repository is                                                         *)
(*   [files: Seq(file), ordered by path,                                   *)
(*    ignores: Seq([dir, ignored, unignored: sets of relative segs]),      *)
(*    base: segs, paths: Seq([prefix, star, targets: Seq([segs, star,      *)
(*    ext])]),                                                             *)
(*    globs: Seq([negated, segs]),                                         *)
(*    packages: Seq([name, dir, built: Seq([segs, ext]),                   *)
(*    exports: Seq([sub, target: [segs, ext]])])],                         *)
(* a package for every package.json below the root, "" if it has no name.  *)
(***************************************************************************)
EXTENDS Resolve, GraphViews

CONSTANT Repositories

VARIABLES
    repo,        \* the repository
    paths,       \* the discovered files, <<>> before discovery
    fragments,   \* those parsed so far, in order
    stage,       \* "discover", "parse", "resolve" or "done"
    graph        \* the document and its diagnostics

vars == <<repo, paths, fragments, stage, graph>>
NoGraph == [nodes |-> {}, edges |-> {}, diagnostics |-> {}]

-----------------------------------------------------------------------------
(* Discovery.  The last .gitignore on the way down that has a say decides. *)

HardDefaultDirs == {"node_modules", ".git", "dist", "build", "coverage"}

IsIgnored(r, path) ==
    LET full == Front(path.segs) \o <<LastSegment(path)>>
        Below(s) == SubSeq(full, Len(s.dir) + 1, Len(full))
        Verdict(was, s) == CASE ~IsPrefix(s.dir, Front(path.segs)) -> was
                             [] Below(s) \in s.ignored -> TRUE
                             [] Below(s) \in s.unignored -> FALSE
                             [] OTHER -> was
    IN  FoldLeft(Verdict, FALSE,
                 SortSeq(r.ignores, LAMBDA a, b : Len(a.dir) < Len(b.dir)))

DiscoverFiles(r) ==
    SelectSeq(r.files, LAMBDA f : /\ Claimed(f.path)
                                  /\ ToSet(Front(f.path.segs)) \cap HardDefaultDirs = {}
                                  /\ ~IsIgnored(r, f.path))

-----------------------------------------------------------------------------
(* The project model, from the files that were discovered.                 *)

Down(dir, segs) ==
    FoldLeft(LAMBDA d, part : CASE part = "." -> d
                                [] part = ".." -> IF d = <<>> THEN d ELSE Front(d)
                                [] OTHER -> Append(d, part), dir, segs)

BuildAliasTable(r) ==
    [k \in DOMAIN r.paths |->
       [r.paths[k] EXCEPT !.targets =
          [j \in DOMAIN @ |-> [@[j] EXCEPT !.segs = Down(Down(<<>>, r.base), @)]]]]

At(segs, ext) == [segs |-> segs, ext |-> ext]
FirstOf(candidates, exists) ==
    LET hits == SelectSeq(candidates, LAMBDA p : p \in exists)
    IN  IF hits = <<>> THEN <<>> ELSE <<hits[1]>>

(* The first directory called dist becomes src. *)
SourceOf(dir, built) ==
    LET at == {k \in 1 .. Len(built.segs) - 1 : built.segs[k] = "dist"}
    IN  dir \o (IF at = {} THEN built.segs ELSE [built.segs EXCEPT ![Min(at)] = "src"])

(* A "*" stands for one segment, a "**" for one or more; an exclusion that *)
(* matches wins.                                                           *)
RECURSIVE GlobMatches(_, _)
GlobMatches(glob, dir) ==
    CASE glob = <<>> -> dir = <<>>
      [] glob # <<>> /\ dir = <<>> -> FALSE
      [] glob # <<>> /\ dir # <<>> /\ glob[1] = "**" ->
           \E n \in 1 .. Len(dir) : GlobMatches(Tail(glob), SubSeq(dir, n + 1, Len(dir)))
      [] OTHER -> glob[1] \in {"*", dir[1]} /\ GlobMatches(Tail(glob), Tail(dir))
MatchesWorkspaceGlobs(dir, globs) ==
    LET Hits(negated) == \E g \in ToSet(globs) : g.negated = negated /\ GlobMatches(g.segs, dir)
    IN  Hits(FALSE) /\ ~Hits(TRUE)

WorkspacePackages(r) ==
    SelectSeq(r.packages, LAMBDA p : /\ p.dir # <<>> /\ p.name # ""
                                     /\ ToSet(p.dir) \cap HardDefaultDirs = {}
                                     /\ MatchesWorkspaceGlobs(p.dir, r.globs))

(* The source file behind a package's main entry, or behind a subpath.     *)
MainEntry(p, exists) ==
    FirstOf(<<At(p.dir \o <<"src", "index">>, ".ts"), At(p.dir \o <<"src", "index">>, ".tsx"),
              At(p.dir \o <<"index">>, ".ts"), At(p.dir \o <<"index">>, ".tsx")>>
              \o [k \in DOMAIN p.built |->
                    At(SourceOf(p.dir, p.built[k]),
                       CASE p.built[k].ext \in {".d.ts", ".js"} -> ".ts"
                         [] p.built[k].ext = ".jsx" -> ".tsx"
                         [] OTHER -> p.built[k].ext)], exists)

SourceExtensions == {".d.ts", ".ts", ".tsx", ".js", ".jsx", ".mjs", ".cjs", ".mts", ".cts"}
SubpathEntry(p, target, exists) ==
    LET stem == SourceOf(p.dir, target)
    IN  IF target.ext \notin SourceExtensions THEN <<>>
        ELSE FirstOf(<<At(stem, ".ts"), At(stem, ".tsx"), At(Append(stem, "index"), ".ts"),
                       At(Append(stem, "index"), ".tsx")>>, exists)

BuildWorkspacePackages(r, exists) ==
    LET Entries(p) ==
            [k \in DOMAIN MainEntry(p, exists) |->
               [sub |-> <<>>, path |-> MainEntry(p, exists)[k]]]
            \o FlattenSeq([k \in DOMAIN p.exports |->
                 LET entry == SubpathEntry(p, p.exports[k].target, exists)
                 IN  [j \in DOMAIN entry |-> [sub |-> p.exports[k].sub, path |-> entry[j]]]])
        members == WorkspacePackages(r)
        all == [k \in DOMAIN members |->
                  [name |-> members[k].name, entries |-> Entries(members[k])]]
    IN  SelectSeq(all, LAMBDA p : p.entries # <<>>)

ProjectModel(r, found) ==
    [aliases |-> BuildAliasTable(r),
     packages |-> BuildWorkspacePackages(r, {f.path : f \in ToSet(found)})]

(* Mutant: a file belongs to every package around it. *)
EveryPackageAround(g, r, found) ==
    LET owned == UNION {{<<Id(p.name, <<>>), f.path>> :
                           p \in {q \in ToSet(WorkspacePackages(r)) : IsPrefix(q.dir, Front(f.path.segs))}} :
                          f \in ToSet(found)}
    IN  [g EXCEPT !.nodes = @ \cup {Node("package", o[1], o[1].pkg, "", <<>>) : o \in owned},
                  !.edges = @ \cup {ResolveEdge("contains", o[1], FileId(o[2]), Deterministic,
                                                "") : o \in owned}]

(* A file belongs to the package whose directory is the deepest around it. *)
SynthesizePackages(g, r, found) ==
    LET deepestFirst == SortSeq(WorkspacePackages(r), LAMBDA a, b : Len(a.dir) > Len(b.dir))
        Owner(path) == SelectSeq(deepestFirst, LAMBDA p : IsPrefix(p.dir, Front(path.segs)))
        owned == {<<Id(Owner(f.path)[1].name, <<>>), f.path>> :
                    f \in {h \in ToSet(found) : Owner(h.path) # <<>>}}
    IN  [g EXCEPT !.nodes = @ \cup {Node("package", o[1], o[1].pkg, "", <<>>) : o \in owned},
                  !.edges = @ \cup {ResolveEdge("contains", o[1], FileId(o[2]), Deterministic,
                                                "") : o \in owned}]

-----------------------------------------------------------------------------
Init == /\ repo \in Repositories
        /\ paths = <<>> /\ fragments = <<>> /\ stage = "discover" /\ graph = NoGraph

Discover ==
    /\ stage = "discover"
    /\ paths' = DiscoverFiles(repo)
    /\ stage' = IF paths' = <<>> THEN "resolve" ELSE "parse"
    /\ UNCHANGED <<repo, fragments, graph>>

ParseNext ==
    /\ stage = "parse"
    /\ fragments' = Append(fragments, ParseFile(paths[Len(fragments) + 1]))
    /\ stage' = IF Len(fragments') = Len(paths) THEN "resolve" ELSE "parse"
    /\ UNCHANGED <<repo, paths, graph>>

ResolveAndSynthesize ==
    /\ stage = "resolve"
    /\ graph' = SynthesizePackages(ResolveProject(fragments, ProjectModel(repo, paths)),
                                   repo, paths)
    /\ stage' = "done"
    /\ UNCHANGED <<repo, paths, fragments>>

Next == Discover \/ ParseNext \/ ResolveAndSynthesize
Spec == Init /\ [][Next]_vars

-----------------------------------------------------------------------------
(* What a name exported by a file stands for, found by a plain search: the *)
(* (file, name) pairs its re-exports reach, and the symbols and packages   *)
(* at their ends.                                                          *)

Done == stage = "done"
Project == ProjectModel(repo, paths)
FragmentOf(path) == FragmentsAt(fragments, path)[1]

HopsFrom(path, name) ==
    LET hop == ResolveExport(FragmentOf(path), name)
    IN  CASE hop.status = "re-export" -> {<<hop.spec, hop.name>>}
          [] hop.status = "multi-star" -> {<<spec, name>> : spec \in ToSet(hop.specs)}
          [] OTHER -> {}

EndsFrom(path, name) ==
    LET hop == ResolveExport(FragmentOf(path), name)
        external == {h \in HopsFrom(path, name) : h[1].kind = "bare"}
    IN  (IF hop.status = "symbol" THEN {hop.id} ELSE {})
          \cup {ExternalId(PackageOf(h[1]), h[2]) : h \in external}

InternalFrom(path, name) ==
    {<<m[1].path, m[2]>> :
       m \in {n \in {<<ResolveModule(fragments, Project, path, h[1]), h[2]>> :
                       h \in HopsFrom(path, name)} : n[1].status = "internal"}}

RECURSIVE Reachable(_, _)
Reachable(done, todo) ==
    IF todo = {} THEN done
    ELSE Reachable(done \cup todo,
                   (UNION {InternalFrom(p[1], p[2]) : p \in todo}) \ (done \cup todo))

Providers(path, name) ==
    UNION {EndsFrom(p[1], p[2]) : p \in Reachable({}, {<<path, name>>})}

(* The value imports of a file: the name asked of which file.  Those of a  *)
(* workspace package reach it through any entry it is asked under.         *)
InternalImports(f) ==
    LET Module(s) == ResolveModule(fragments, Project, f.path, s.spec)
        inside == {s \in ToSet(f.unresolved) : Module(s).status = "internal"}
    IN  UNION {{[path |-> Module(s).path, name |-> b.name] :
                  b \in {c \in ToSet(s.clause) : c.kind # "namespace" /\ ~c.typeOnly}} :
                 s \in inside}
WorkspaceImports(f) ==
    LET Asked(s, name) == {h \in UNION {ToSet(o.externals) : o \in ToSet(fragments)} :
                             /\ PackageOf(h.spec) = PackageOf(s.spec)
                             /\ \E c \in ToSet(h.clause) : c.name = name}
    IN  UNION {UNION {UNION {{[path |-> e.path, name |-> b.name] :
                                e \in ToSet(SourceEntryFor(fragments, Project, h.spec))} :
                               h \in Asked(s, b.name)} : b \in ToSet(s.clause)} :
                 s \in ToSet(f.externals)}

ImportEdges(id) ==
    {e \in graph.edges : e.kind = "imports" /\ e.source = id /\ e.target \notin Files(graph)}

(* An import bound inside the repository is an import of a symbol the file *)
(* it names provides, directly or through re-exports (bind-imports,        *)
(* export-chain, workspace).                                               *)
ImportsReachAProvider ==
    Done => \A f \in ToSet(fragments) : \A e \in ImportEdges(f.id) :
              e.target.pkg = "" =>
                \E i \in InternalImports(f) \cup WorkspaceImports(f) :
                    e.target \in Providers(i.path, i.name)

(* A name that one symbol only can be is bound to it, however the barrels  *)
(* on the way fan out, cross or turn back (export-chain, the one visited   *)
(* set of a chain).                                                        *)
SoleProviderIsFound ==
    LET Found(id, providers) ==
            Cardinality(providers) = 1 => \E e \in ImportEdges(id) : e.target \in providers
    IN  Done => \A f \in ToSet(fragments) : \A i \in InternalImports(f) :
                  Found(f.id, Providers(i.path, i.name))

(* What the resolver could not bind is on record: a named import of a file *)
(* is an edge or a diagnostic, never neither (bind-imports).               *)
NoImportIsSilent ==
    Done => \A f \in ToSet(fragments) : \A i \in InternalImports(f) :
              \/ \E e \in ImportEdges(f.id) : e.target \in Providers(i.path, i.name)
              \/ \E d \in graph.diagnostics :
                   /\ d.code \in {"unresolved-export", "ambiguous-export"}
                   /\ d.from = f.id /\ d.target = FileId(i.path) /\ d.name = i.name

(* An argument binds one input at most, so that reading as many references *)
(* of a call site as it has arguments reads them all (bind-call-site,      *)
(* bindingEdgesByParamName).                                               *)
BindingsFitArguments(site) ==
    Cardinality({e \in graph.edges : e.kind = "references" /\ e.source = site.id})
      <= Len(site.payload)

(* No two things of a file are told apart by nothing but their place: no   *)
(* two top-level declarations share a name, no two accessors of one kind,  *)
(* nor two fields, do in a class or interface, and no two inputs in a list *)
(* of parameters.  Methods, locals and calls may repeat one.               *)
NamesAreDistinct(file) ==
    LET decls == Statements(file, "declare")
        NamesOf(d) == IF d.form = "destructured" THEN d.names ELSE <<d.name>>
        Told(m) == <<m.role, m.name>>
    IN  /\ IsInjective(FlattenSeq([k \in DOMAIN decls |-> NamesOf(decls[k])]))
        /\ \A d \in ToSet(decls) : \A j, k \in DOMAIN d.members :
             j # k /\ Told(d.members[j]) = Told(d.members[k]) => d.members[j].role = "method"
        /\ \A s \in ToSet(Symbols(file)) :
             LET inputs == FlattenSeq(s.params) IN
             IsInjective([k \in DOMAIN inputs |-> inputs[k].name])

(* The identities that extraction, export chains and workspace superseding *)
(* mint independently agree: an edge starts at a node, and ends at one if  *)
(* it ends inside the repository; an argument of a call is bound to one    *)
(* input only; and the declarations, inputs and call sites of a file have  *)
(* an identity each, with overloads, accessor pairs, locals that shadow    *)
(* and calls of one callee among them, exactly when NamesAreDistinct.      *)
IdentitiesAgree ==
    LET ids == {n.id : n \in graph.nodes}
        Minted(k) ==
            LET symbols == Symbols(paths[k])
                inputs == FlattenSeq([j \in DOMAIN symbols |-> Inputs(symbols[j])])
            IN  [j \in DOMAIN symbols |-> symbols[j].id]
                  \o [j \in DOMAIN inputs |-> inputs[j].id]
                  \o [j \in DOMAIN fragments[k].sites |-> fragments[k].sites[j].id]
    IN  Done => /\ \A e \in graph.edges :
                     e.source \in ids /\ (e.target.pkg = "" => e.target \in ids)
                /\ \A k \in DOMAIN fragments :
                     IsInjective(Minted(k)) <=> NamesAreDistinct(paths[k])
                /\ \A n \in graph.nodes : n.kind = "callSite" => BindingsFitArguments(n)

(* A binding is as sure as its weakest link: certain only if some way from *)
(* the imported file to the symbol takes no lone star, a guess             *)
(* (combineCertainty, export-resolution).                                  *)
RECURSIVE ProvenEnds(_, _, _)
ProvenEnds(path, name, seen) ==
    LET hop == ResolveExport(FragmentOf(path), name)
        guess == hop.status = "re-export" /\ hop.certainty # Deterministic
    IN  IF guess \/ <<path, name>> \in seen THEN {}
        ELSE EndsFrom(path, name)
               \cup UNION {ProvenEnds(p[1], p[2], seen \cup {<<path, name>>}) :
                             p \in InternalFrom(path, name)}
CertainIsProven ==
    Done => \A f \in ToSet(fragments) : \A e \in ImportEdges(f.id) :
              e.pass = "resolve" /\ e.certainty = Deterministic /\ e.target.pkg = "" =>
                \E i \in InternalImports(f) \cup WorkspaceImports(f) :
                    e.target \in ProvenEnds(i.path, i.name, {})

(* The uses a reader sees in the source: a symbol that imports bind calls  *)
(* x, or ns.x of a namespace import.                                       *)
NamespacesOf(f) ==
    UNION {LET module == ResolveModule(fragments, Project, f.path, s.spec)
           IN  {[local |-> b.local, path |-> module.path] :
                  b \in {c \in ToSet(s.clause) : /\ c.kind = "namespace" /\ ~c.typeOnly
                                                 /\ module.status = "internal"}} :
             s \in ToSet(f.unresolved)}
UsesThroughNamespace(f, sites) ==
    UNION {UNION {Providers(n.path, c.callee[2]) :
                    n \in {m \in NamespacesOf(f) : /\ Len(c.callee) >= 2
                                                   /\ m.local = c.callee[1]}} : c \in sites}
SitesAtTop(f) == {c \in ToSet(f.sites) : \E e \in f.edges : /\ e.kind = "contains" /\ e.source = f.id
                                                           /\ e.target = c.enclosing}
CertainlyUnused == {u.id : u \in {v \in UnusedSymbols(graph) : ~v.candidate}}

(* A symbol that a top-level symbol of another file calls as a member of   *)
(* its namespace is not reported unused for certain (bind-call-site,       *)
(* unusedSymbols).                                                         *)
CalledIsNotUnused ==
    Done => \A f \in ToSet(fragments) :
              UsesThroughNamespace(f, {c \in SitesAtTop(f) : Len(c.callee) = 2})
                \cap CertainlyUnused = {}

(* The map's levels agree: what it draws between two packages is what it   *)
(* draws between their files (aggregate-sql, synthesize-packages).         *)
MapLevelsAgree ==
    LET Ids(level) == {n.id : n \in ContainerRows(graph, level, {})}
        Of(p) == {n.id : n \in ContainedDeclarations(graph, p)}
        Total(edges, sure) ==
            FoldSet(LAMBDA d, n : (IF sure THEN d.deterministic ELSE d.inferred) + n, 0, edges)
        SumsUp(e, drawn) == /\ e.deterministic = Total(drawn, TRUE)
                            /\ e.inferred = Total(drawn, FALSE)
        Same(at, drawn) == (at = {}) = (drawn = {}) /\ \A e \in at : SumsUp(e, drawn)
        Agree(packages, between, byFile) ==
            \A p, q \in packages : p # q =>
               Same({e \in between : e.source = p /\ e.target = q},
                    {e \in byFile : e.source \in Of(p) /\ e.target \in Of(q)})
    IN  Done => Agree(Ids("package"), ProjectedEdges(graph, "package", Ids("package")),
                      ProjectedEdges(graph, "file", Ids("file")))
=============================================================================
