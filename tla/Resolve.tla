------------------------------ MODULE Resolve ------------------------------
(***************************************************************************)
(* The resolve pass: binds the imports and the calls of the fragments to   *)
(* the symbols of other files and merges everything into one graph         *)
(* (packages/resolver, packages/lang-react/src/resolve).                   *)
(*                                                                         *)
(* A project model is [aliases: Seq([prefix, star, targets: Seq([segs,     *)
(* star])]), packages: Seq([name, entries: Seq([sub, path])])].            *)
(* Paths and specifiers are sequences of segments and an extension.        *)
(***************************************************************************)
EXTENDS Extract

-----------------------------------------------------------------------------
(* Certainty: a chain is as certain as its weakest link.                   *)

Rank == [deterministic |-> 4, high |-> 3, medium |-> 2, low |-> 1]
(* Mutant: the last link decides. *)
CertaintyOfLast(a, b) == b
CombineCertainty(a, b) == IF Rank[a] <= Rank[b] THEN a ELSE b
ResolveEdge(kind, source, target, certainty, subKind) ==
    Edge(kind, source, target, "resolve", subKind, certainty)

-----------------------------------------------------------------------------
(* Modules: the parsed file a specifier reaches.                           *)

FragmentsAt(frags, path) == SelectSeq(frags, LAMBDA f : f.path = path)

ResolveRelative(importer, spec) ==
    LET Walk(dir, part) == CASE part = "." -> dir
                             [] part = ".." -> IF dir = <<>> THEN dir ELSE Front(dir)
                             [] OTHER -> Append(dir, part)
    IN  [segs |-> FoldLeft(Walk, Front(importer.segs), spec.segs), ext |-> spec.ext]

FileExtensions == <<".ts", ".tsx", ".d.ts", ".js", ".jsx">>

CandidatePaths(base) ==
    LET esm == CASE base.ext = ".js" -> <<".ts", ".tsx">>
                 [] base.ext = ".mjs" -> <<".mts">>
                 [] base.ext = ".cjs" -> <<".cts">>
                 [] OTHER -> <<>>
        As(ext) == [base EXCEPT !.ext = ext]
        Index(ext) == [segs |-> Append(Append(Front(base.segs), LastSegment(base)), "index"),
                       ext |-> ext]
    IN  [k \in DOMAIN esm |-> As(esm[k])] \o <<base>>
          \o [k \in DOMAIN FileExtensions |-> As(base.ext \o FileExtensions[k])]
          \o [k \in DOMAIN FileExtensions |-> Index(FileExtensions[k])]

Internal(path) == [status |-> "internal", path |-> path]
NoModule == [status |-> "unresolved"]

(* The first candidate of the bases, in order, that was parsed. *)
Probe(frags, bases) ==
    LET all == FlattenSeq([k \in DOMAIN bases |->
                 IF bases[k].segs = <<>> THEN <<>> ELSE CandidatePaths(bases[k])])
        hits == SelectSeq(all, LAMBDA p : FragmentsAt(frags, p) # <<>>)
    IN  IF hits = <<>> THEN NoModule ELSE Internal(hits[1])

(* The targets of the rule with the longest prefix, the first one of equals. *)
AliasBases(spec, aliases) ==
    LET Matches(r) == IF r.star THEN IsPrefix(r.prefix, spec.segs) /\ r.prefix # spec.segs
                                ELSE r.prefix = spec.segs
        Better(best, r) == IF /\ Matches(r)
                              /\ best = <<>> \/ Len(r.prefix) > Len(best[1].prefix)
                           THEN <<r>> ELSE best
        rule == FoldLeft(Better, <<>>, aliases)
        captured == SubSeq(spec.segs, Len(rule[1].prefix) + 1, Len(spec.segs))
    IN  IF rule = <<>> THEN <<>>
        ELSE [k \in DOMAIN rule[1].targets |->
                LET target == rule[1].targets[k]
                IN  [segs |-> IF target.star THEN target.segs \o captured ELSE target.segs,
                     ext |-> IF target.star THEN spec.ext ELSE target.ext]]

ResolveModule(frags, project, importer, spec) ==
    CASE spec.kind = "relative" -> Probe(frags, <<ResolveRelative(importer, spec)>>)
      [] spec.kind = "alias" -> Probe(frags, AliasBases(spec, project.aliases))
      [] OTHER -> [status |-> "external", package |-> PackageOf(spec)]

-----------------------------------------------------------------------------
(* Exports: one hop from a file, then the chain of hops to the symbol.     *)

Hop(status) == [status |-> status]
Redirect(spec, name, certainty) ==
    [status |-> "re-export", spec |-> spec, name |-> name, certainty |-> certainty]

ResolveExport(f, name) ==
    LET local == LastNamed(f.exports, name)
        named == FlattenSeq([k \in DOMAIN f.reExports |->
                   LET r == f.reExports[k]
                       hits == IF r.kind = "named"
                               THEN SelectSeq(r.clause, LAMBDA b : b.as = name) ELSE <<>>
                   IN  [j \in DOMAIN hits |-> Redirect(r.spec, hits[j].name, Deterministic)]])
        stars == SelectSeq(f.reExports, LAMBDA r : r.kind = "star")
    IN  CASE local # <<>> -> [status |-> "symbol", id |-> local[1].id]
          [] local = <<>> /\ Len(named) = 1 -> named[1]
          [] local = <<>> /\ Len(named) > 1 -> Hop("ambiguous")
          [] local = <<>> /\ named = <<>> /\ stars = <<>> -> Hop("unresolved")
          [] local = <<>> /\ named = <<>> /\ Len(stars) = 1 ->
               Redirect(stars[1].spec, name, "high")
          [] OTHER -> [status |-> "multi-star",
                       specs |-> [k \in DOMAIN stars |-> stars[k].spec]]

Provider(status, id, certainty) == [status |-> status, id |-> id, certainty |-> certainty]

(* What a chain answers, and the hops it has visited: the star branches of *)
(* one chain share them.                                                   *)
Answer(result, visited) == [result |-> result, visited |-> visited]

RECURSIVE ChainStep(_, _, _, _, _, _), Redirected(_, _, _, _, _, _), ProbeStars(_, _, _, _, _, _, _)
ChainStep(frags, project, path, name, certainty, visited) ==
    LET hop == ResolveExport(FragmentsAt(frags, path)[1], name)
        seen == visited \cup {<<path, name>>}
    IN  CASE <<path, name>> \in visited -> Answer(Hop("unresolved"), visited)
          [] <<path, name>> \notin visited /\ hop.status = "symbol" ->
               Answer(Provider("symbol", hop.id, certainty), seen)
          [] <<path, name>> \notin visited /\ hop.status \in {"ambiguous", "unresolved"} ->
               Answer(hop, seen)
          [] <<path, name>> \notin visited /\ hop.status = "multi-star" ->
               ProbeStars(frags, project, path, name, certainty, hop.specs, seen)
          [] OTHER -> Redirected(frags, project, ResolveModule(frags, project, path, hop.spec),
                                 hop, certainty, seen)

Redirected(frags, project, module, hop, certainty, seen) ==
    CASE module.status = "unresolved" -> Answer(module, seen)
      [] module.status = "external" ->
           Answer(Provider("external", ExternalId(module.package, hop.name), Deterministic), seen)
      [] OTHER -> ChainStep(frags, project, module.path, hop.name,
                            CombineCertainty(certainty, hop.certainty), seen)

Among(found, id, provider) == (id :> provider) @@ found

(* Mutant: only the first star is followed. *)
ProbeFirstStar(frags, project, path, name, certainty, specs, visited) ==
    LET module == ResolveModule(frags, project, path, specs[1])
    IN  IF module.status # "internal" THEN Answer(Hop("unresolved"), visited)
        ELSE ChainStep(frags, project, module.path, name, certainty, visited)
(* The one provider among the stars; an ambiguous branch provides nothing. *)
ProbeStars(frags, project, path, name, certainty, specs, visited) ==
    LET Provided(acc, sub) ==
            [visited |-> sub.visited,
             found |-> IF sub.result.status \in {"symbol", "external"}
                       THEN Among(acc.found, sub.result.id, sub.result) ELSE acc.found]
        Branch(acc, module) ==
            CASE module.status = "unresolved" -> acc
              [] module.status = "external" ->
                   LET id == ExternalId(module.package, name)
                   IN  [acc EXCEPT !.found = Among(@, id, Provider("external", id, Deterministic))]
              [] OTHER -> Provided(acc, ChainStep(frags, project, module.path, name, certainty,
                                                  acc.visited))
        Only(probed) ==
            Answer(CASE DOMAIN probed.found = {} -> Hop("unresolved")
                     [] Cardinality(DOMAIN probed.found) > 1 -> Hop("ambiguous")
                     [] OTHER -> probed.found[CHOOSE id \in DOMAIN probed.found : TRUE],
                   probed.visited)
    IN  Only(FoldLeft(LAMBDA acc, spec : Branch(acc, ResolveModule(frags, project, path, spec)),
                      [visited |-> visited, found |-> <<>>], specs))

ResolveExportChain(frags, project, path, name) ==
    ChainStep(frags, project, path, name, Deterministic, {}).result

-----------------------------------------------------------------------------
(* Imports of a file.                                                      *)

Diagnostic(code, from, target, name) ==
    [code |-> code, from |-> from, target |-> target, name |-> name]
NoTarget == Id("", <<>>)

Bound(edges, imports, namespaces, diagnostics) ==
    [edges |-> edges, imports |-> imports, namespaces |-> namespaces,
     diagnostics |-> diagnostics]
Nothing == Bound({}, <<>>, <<>>, {})
Also(a, b) == Bound(a.edges \cup b.edges, a.imports \o b.imports,
                    a.namespaces \o b.namespaces, a.diagnostics \cup b.diagnostics)

(* Mutant: forgets the ambiguous. *)
NoteUnresolved(f, target, b, chain) ==
    IF chain.status = "ambiguous" THEN Nothing
    ELSE [Nothing EXCEPT !.diagnostics =
            {Diagnostic("unresolved-export", f.id, FileId(target), b.name)}]
NoteUnbound(f, target, b, chain) ==
    [Nothing EXCEPT !.diagnostics =
       {Diagnostic(IF chain.status = "ambiguous" THEN "ambiguous-export" ELSE "unresolved-export",
                   f.id, FileId(target), b.name)}]

BindNamedImport(f, target, b, chain) ==
    IF chain.status \in {"symbol", "external"}
    THEN Bound({ResolveEdge("imports", f.id, chain.id, chain.certainty, "")},
               <<[name |-> b.local, id |-> chain.id, certainty |-> chain.certainty]>>, <<>>, {})
    ELSE NoteUnbound(f, target, b, chain)

BindClause(frags, project, f, s, path) ==
    LET Binding(b) ==
            CASE b.kind = "namespace" /\ ~b.typeOnly ->
                   [Nothing EXCEPT !.namespaces = <<[name |-> b.local, path |-> path]>>]
              [] b.typeOnly -> Nothing
              [] OTHER -> BindNamedImport(f, path, b, ResolveExportChain(frags, project, path, b.name))
    IN  FoldLeft(LAMBDA acc, b : Also(acc, Binding(b)), Nothing, s.clause)

(* Nothing bound by name: the file imports the file. *)
OrTheModule(f, path, bound) ==
    IF bound.imports # <<>> THEN bound
    ELSE [bound EXCEPT !.edges =
            @ \cup {ResolveEdge("imports", f.id, FileId(path), Deterministic, "")}]

BindStatement(frags, project, f, s) ==
    LET module == ResolveModule(frags, project, f.path, s.spec)
    IN  CASE module.status = "unresolved" ->
               [Nothing EXCEPT !.diagnostics =
                  {Diagnostic("unresolved-module", f.id, NoTarget, LastSegment(s.spec))}]
          [] module.status = "external" -> Nothing
          [] OTHER -> OrTheModule(f, module.path, BindClause(frags, project, f, s, module.path))

BindFileImports(frags, project, f) ==
    FoldLeft(LAMBDA acc, s : Also(acc, BindStatement(frags, project, f, s)),
             Nothing, f.unresolved)

-----------------------------------------------------------------------------
(* Calls of a file.                                                        *)

(* Who contains whom, and which sites are bound already. *)
SymbolGraph(frags) ==
    LET nodes == UNION {frags[k].nodes : k \in DOMAIN frags}
        edges == UNION {frags[k].edges : k \in DOMAIN frags}
        files == {n.id : n \in {m \in nodes : m.kind = "file"}}
        contains == {e \in edges : e.kind = "contains"}
    IN  [nodes |-> nodes, edges |-> edges, files |-> files,
         topLevel |-> {<<e.target, e.source>> : e \in {c \in contains : c.source \in files}},
         props |-> UNION {{<<e.source, n.name, n.id>> :
                             n \in {m \in nodes : m.id = e.target /\ m.subKind = "prop"}} :
                            e \in contains},
         bound |-> {e.source : e \in {c \in edges : c.kind = "calls"}}]

FileOf(graph, id) ==
    {p[2] : p \in {q \in graph.topLevel : q[1] = id}} \cup ({id} \cap graph.files)

(* Mutant: every prop of the receiver, if any is passed. *)
EveryPropEdges(graph, site, to) ==
    {ResolveEdge("calls", site.id, to.id, to.certainty, IF site.render THEN "renders" ELSE "")}
      \cup {ResolveEdge("references", site.id, p[3], to.certainty, "propBinding") :
              p \in {q \in graph.props : site.render /\ q[1] = to.id /\ site.payload # <<>>}}
TargetEdges(graph, site, to) ==
    {ResolveEdge("calls", site.id, to.id, to.certainty, IF site.render THEN "renders" ELSE "")}
      \cup {ResolveEdge("references", site.id, p[3], to.certainty, "propBinding") :
              p \in {q \in graph.props : /\ site.render /\ q[1] = to.id
                                         /\ \E a \in ToSet(site.payload) :
                                              a.pass = "named" /\ a.name = q[2]}}

UsageDiagnostic(graph, f, root, member) ==
    IF FileOf(graph, root) = {} THEN Diagnostic("unbound-callee", f.id, NoTarget, member)
    ELSE Diagnostic("unresolved-member", f.id, CHOOSE t \in FileOf(graph, root) : TRUE, member)

(* A member is named by all that follows the first dot. *)
Member(callee) == IF Len(callee) = 2 THEN callee[2] ELSE ToString(Tail(callee))

ResolveMember(frags, project, namespace, member) ==
    ResolveExportChain(frags, project, namespace.path, member)

BindCallSite(frags, project, graph, f, bound, site) ==
    LET import == LastNamed(bound.imports, site.callee[1])
        namespace == LastNamed(bound.namespaces, site.callee[1])
        member == Member(site.callee)
        Gap(root) == [Nothing EXCEPT !.diagnostics = {UsageDiagnostic(graph, f, root, member)}]
    IN  CASE site.callee = <<>> -> Nothing
          [] Len(site.callee) = 1 ->
               IF import = <<>> THEN Nothing
               ELSE [Nothing EXCEPT !.edges = TargetEdges(graph, site, import[1])]
          [] Len(site.callee) > 1 /\ import # <<>> ->
               [Gap(import[1].id) EXCEPT !.edges =
                  {ResolveEdge("calls", site.id, import[1].id,
                               CombineCertainty(import[1].certainty, "medium"), "memberRoot")}]
          [] Len(site.callee) > 1 /\ import = <<>> /\ namespace # <<>> ->
               LET chain == ResolveMember(frags, project, namespace[1], member)
               IN  IF chain.status = "symbol"
                   THEN [Nothing EXCEPT !.edges = TargetEdges(graph, site, chain)]
                   ELSE Gap(FileId(namespace[1].path))
          [] OTHER -> Gap(NoTarget)

(* Sites of the symbols the file itself contains. *)
Bindable(graph, f) ==
    {c \in ToSet(f.sites) : <<c.enclosing, f.id>> \in graph.topLevel /\ c.id \notin graph.bound}

(* Mutant: a file with namespaces only has nothing to bind. *)
HasNames(bound) == bound.imports # <<>>
HasImports(bound) == bound.imports # <<>> \/ bound.namespaces # <<>>

BindFileCallSites(frags, project, graph, f, bound) ==
    LET each == {BindCallSite(frags, project, graph, f, bound, c) : c \in Bindable(graph, f)}
    IN  IF ~HasImports(bound) THEN Nothing
        ELSE [Nothing EXCEPT !.edges = UNION {b.edges : b \in each},
                             !.diagnostics = UNION {b.diagnostics : b \in each}]

-----------------------------------------------------------------------------
(* Imports of the workspace's own packages: the external symbol gives way  *)
(* to the one the package's source exports.  The first record of a package *)
(* and name decides, whatever subpath it names.                            *)

SourceEntryFor(frags, project, spec) ==
    LET packages == SelectSeq(project.packages, LAMBDA p : p.name = PackageOf(spec))
    IN  IF packages = <<>> THEN <<>>
        ELSE SelectSeq(packages[Len(packages)].entries,
                       LAMBDA e : /\ e.sub = Tail(spec.segs)
                                  /\ FragmentsAt(frags, e.path) # <<>>)

SupersedeFrom(frags, project, EntryFor(_)) ==
    LET Record(acc, target, chain) ==
            IF chain.status = "symbol" THEN (target :> chain) @@ acc ELSE acc
        Clause(acc, s, entry) ==
            FoldLeft(LAMBDA a, b :
                       LET target == ExternalId(PackageOf(s.spec), b.name)
                       IN  IF b.kind = "namespace" \/ target \in DOMAIN a THEN a
                           ELSE Record(a, target,
                                       ResolveExportChain(frags, project, entry.path, b.name)),
                     acc, s.clause)
    IN  FoldLeft(LAMBDA acc, s : IF EntryFor(s.spec) = <<>> THEN acc
                                 ELSE Clause(acc, s, EntryFor(s.spec)[1]),
                 <<>>, FlattenSeq([k \in DOMAIN frags |-> frags[k].externals]))
(* Mutant: a subpath is looked up in the main entry. *)
SupersedeByMain(frags, project) ==
    SupersedeFrom(frags, project,
        LAMBDA spec : SourceEntryFor(frags, project, [spec EXCEPT !.segs = <<Head(@)>>]))
WorkspaceSupersede(frags, project) ==
    SupersedeFrom(frags, project, LAMBDA spec : SourceEntryFor(frags, project, spec))

ApplySupersede(edges, supersede) ==
    {IF e.target \in DOMAIN supersede
     THEN ResolveEdge(e.kind, e.source, supersede[e.target].id,
                      supersede[e.target].certainty, e.subKind)
     ELSE e : e \in edges}

-----------------------------------------------------------------------------
MergeDocuments(graph, imports, calls, supersede) ==
    LET all == {imports[k] : k \in DOMAIN imports} \cup {calls[k] : k \in DOMAIN calls}
    IN  [nodes |-> graph.nodes,
         edges |-> ApplySupersede(graph.edges \cup UNION {b.edges : b \in all}, supersede),
         diagnostics |-> UNION {b.diagnostics : b \in all}]

BindCalls(frags, project, graph, imports) ==
    MergeDocuments(graph, imports,
                   [k \in DOMAIN frags |->
                      BindFileCallSites(frags, project, graph, frags[k], imports[k])],
                   WorkspaceSupersede(frags, project))

ResolveProject(frags, project) ==
    BindCalls(frags, project, SymbolGraph(frags),
              [k \in DOMAIN frags |-> BindFileImports(frags, project, frags[k])])
=============================================================================
