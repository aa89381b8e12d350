----------------------------- MODULE GraphViews -----------------------------
(***************************************************************************)
(* What a stored graph answers: the relations of a node, the lists over    *)
(* the whole graph and the map (packages/db graph reads, packages/serve).  *)
(* A graph is [nodes, edges, diagnostics]; identities are values of any    *)
(* kind.                                                                   *)
(***************************************************************************)
EXTENDS Naturals, Sequences, SequencesExt, FiniteSets, FiniteSetsExt

DependencyKinds == {"imports", "references", "calls", "extends", "implements"}
Dependencies(g) == {e \in g.edges : e.kind \in DependencyKinds}

-----------------------------------------------------------------------------
(* The file a node belongs to: the first file among its containers.        *)

Files(g) == {n.id : n \in {m \in g.nodes : m.kind = "file"}}
ParentOf(g) ==
    LET contains == {e \in g.edges : e.kind = "contains"}
    IN  [id \in {e.target : e \in contains} |->
           (CHOOSE e \in contains : e.target = id).source]

FileOfNode(g) ==
    LET files == Files(g)
        parent == ParentOf(g)
        ids == {n.id : n \in g.nodes}
        climb[steps \in Nat, id \in ids \cup Range(parent)] ==
            CASE id \in files -> {id}
              [] id \notin files /\ (id \notin DOMAIN parent \/ steps = 0) -> {}
              [] OTHER -> climb[steps - 1, parent[id]]
    IN  [id \in ids |-> climb[Cardinality(DOMAIN parent), id]]

-----------------------------------------------------------------------------
(* Relations of one node.                                                  *)

Contained(g, id) == {e.target : e \in {f \in g.edges : f.kind = "contains" /\ f.source = id}}
DeclaredInterface(g, id) == {n \in g.nodes : n.kind = "symbol" /\ n.id \in Contained(g, id)}
ContainedDeclarations(g, id) ==
    {n \in g.nodes : n.kind # "callSite" /\ n.id \in Contained(g, id)}
CallSitesOf(g, id) == {n \in g.nodes : n.kind = "callSite" /\ n.enclosing = id}

NeighborEdges(g, id, direction) ==
    {e \in g.edges : (IF direction = "out" THEN e.source ELSE e.target) = id}
FarEnd(e, direction) == IF direction = "out" THEN e.target ELSE e.source
Hydrated(g, id) == {n \in g.nodes : n.id = id}

(* A payload argument is shown with the input of its own name that one of  *)
(* the site's references reaches.  A positional argument has no name.      *)
CallBindings(g, site) ==
    LET references == {e \in NeighborEdges(g, site.id, "out") : e.kind = "references"}
        Named(a) == {n \in g.nodes : /\ a.pass = "named" /\ n.kind = "symbol" /\ n.name = a.name
                                     /\ \E e \in references : e.target = n.id}
    IN  [k \in DOMAIN site.payload |-> Named(site.payload[k])]

-----------------------------------------------------------------------------
(* Lists over the whole graph.                                             *)

TopLevelSymbols(g) ==
    LET file == FileOfNode(g)
    IN  {n \in g.nodes : /\ n.kind = "symbol"
                         /\ \E e \in g.edges : /\ e.kind = "contains" /\ e.target = n.id
                                               /\ file[n.id] = {e.source}}

NameCollisions(g) ==
    LET top == TopLevelSymbols(g)
    IN  {n \in top : Cardinality({m \in top : m.name = n.name}) > 1}

(* A symbol nothing uses is a candidate when a gap might hide its use.     *)
Candidate(g, file, n) ==
    \E d \in g.diagnostics :
        \/ d.code = "unresolved-member" /\ {d.target} = file[n.id] /\ d.name = n.name
        \/ d.code = "unbound-callee" /\ d.name = n.name

UnusedSymbols(g) ==
    LET used == {e.target : e \in Dependencies(g)}
        file == FileOfNode(g)
    IN  {[id |-> n.id, candidate |-> Candidate(g, file, n),
          exported |-> \E e \in g.edges : e.kind = "exports" /\ e.target = n.id] :
            n \in {m \in TopLevelSymbols(g) : m.id \notin used}}

(* Edges that may lie on a cycle, by the degrees of their ends.            *)
CyclicDependencyEdges(g) ==
    LET deps == Dependencies(g)
        reached == {e.target : e \in deps}
        leaving == {e.source : e \in deps}
    IN  {e \in deps : e.source \in reached /\ e.target \in leaving}

-----------------------------------------------------------------------------
(* The map: the containers of a level, what each holds, and the dependency *)
(* edges between them, counted by trust.                                   *)

PackageOfNode(g, file, id) ==
    {e.source : e \in {f \in g.edges : f.kind = "contains" /\ file[id] = {f.target}}}

ContainerRows(g, level, scope) ==
    CASE level = "package" -> {n \in g.nodes : n.kind = "package"}
      [] level = "file" -> {n \in g.nodes : n.kind = "file"
                                /\ (scope = {} \/ n.id \in UNION {Contained(g, s) : s \in scope})}
      [] level = "symbol" -> {n \in g.nodes : n.kind = "symbol" /\ FileOfNode(g)[n.id] = scope}

(* Where a stored node is drawn at a level; a dependency between two places *)
(* is drawn once for every pair of them.                                    *)
PlacesOf(g, level) ==
    LET file == FileOfNode(g)
    IN  [id \in DOMAIN file |-> CASE level = "package" -> PackageOfNode(g, file, id)
                                  [] level = "file" -> file[id]
                                  [] level = "symbol" -> {id}]

ProjectedEdges(g, level, ids) ==
    LET places == PlacesOf(g, level)
        At(id, c) == id \in DOMAIN places /\ c \in places[id]
        Between(c, d) == {e \in Dependencies(g) : At(e.source, c) /\ At(e.target, d)}
        Count(c, d, sure) ==
            Cardinality({e \in Between(c, d) : (e.certainty = "deterministic") = sure})
    IN  {[source |-> p[1], target |-> p[2],
          deterministic |-> Count(p[1], p[2], TRUE), inferred |-> Count(p[1], p[2], FALSE)] :
            p \in {q \in ids \X ids : q[1] # q[2] /\ Between(q[1], q[2]) # {}}}

ChildCount(g, level, id) ==
    LET file == FileOfNode(g) IN
    CASE level = "package" -> Cardinality({n \in g.nodes : /\ n.kind = "symbol"
                                             /\ id \in PackageOfNode(g, file, n.id)})
      [] level = "file" -> Cardinality({n \in g.nodes : n.kind = "symbol" /\ file[n.id] = {id}})
      [] level = "symbol" -> Cardinality(Contained(g, id))
=============================================================================
