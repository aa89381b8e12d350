----------------------------- MODULE GraphServe -----------------------------
(***************************************************************************)
(* Requests on a stored graph (apps/api graph, packages/serve, the graph   *)
(* reads of packages/db).  A request is answered by several statements;    *)
(* each sees the whole graph some replacement committed, and a replacement *)
(* may commit between any two of them, or between two pages.               *)
(*                                                                         *)
(* Identities and names are numbers: their order is the order of keysets.  *)
(***************************************************************************)
EXTENDS GraphViews, Integers

CONSTANTS
    Graphs,          \* the graphs that may be stored at first
    Versions,        \* those that may replace one of their own
    MaxReplacements, \* bound: replacements in a behaviour
    RequestsOn(_),   \* the requests made on a graph
    LikeForm(_),     \* what LIKE sees of an identity: all of it on PostgreSQL, but
                     \* not the case of its letters on libSQL
    PageLimit,       \* DEFAULT_PAGE_LIMIT of graph-page.ts
    MemberCap        \* CYCLE_MEMBER_CAP of cycles.ts

EdgeKinds ==
    {"calls", "contains", "exports", "extends", "implements", "imports", "references"}
Arguments == [pass : {"named", "positional", "spread"}, name : Nat, ordinal : Nat]

(* What the primary keys and the foreign shape of the tables allow.  An     *)
(* edge is its identity, 0 for no sub-kind; its ends need not be stored.   *)
StoredGraph(g) ==
    /\ IsFiniteSet(g.nodes) /\ IsFiniteSet(g.edges)
    /\ \A n \in g.nodes : n.id \in Nat /\ n.name \in Nat /\ n.payload \in Seq(Arguments)
    /\ \A m, n \in g.nodes : m.id = n.id => m = n
    /\ g.edges \subseteq [kind : EdgeKinds, source : Nat, target : Nat,
                        subKind : Nat, certainty : {"deterministic", "inferred"}]
(* At most one reference for each argument of a call site.                 *)
BindsEachOnce(g) ==
    \A n \in g.nodes :
        Cardinality({e \in NeighborEdges(g, n.id, "out") : n.kind = "callSite" /\ e.kind = "references"})
          <= Len(n.payload)
Requests ==
    [view : {"nodeDetail", "neighbors", "callBindings", "cycles", "map", "declaredInterface",
             "declarations", "callSites", "search", "nameCollisions", "unusedSymbols",
             "blastRadius"},
     id : Nat, limit : Nat, direction : {"in", "out"}, kind : STRING, name : Nat,
     depth : Nat, level : {"package", "file", "symbol"}, scope : SUBSET Nat]

ASSUME GraphsAssumption == \A g \in Graphs \cup Versions : StoredGraph(g) /\ BindsEachOnce(g)
ASSUME RequestsAssumption == \A g \in Graphs \cup Versions : RequestsOn(g) \subseteq Requests
ASSUME LimitsAssumption == PageLimit \in Nat \ {0} /\ MemberCap \in Nat

VARIABLES
    stored,      \* the committed graph
    replaced,    \* replacements so far
    request,     \* what the client asked, <<>> when there is no request
    head,        \* what the first statement of a composed view found
    reads,       \* the paged reads of the request, by list
    pages,       \* the answers so far, one for each page
    versions     \* the graphs stored since the first page was asked

vars == <<stored, replaced, request, head, reads, pages, versions>>

-----------------------------------------------------------------------------
(* The blast radius: the paths that end in a node, backwards, up to a      *)
(* length; a node is reached at its least depth, and for certain if some   *)
(* path to it has no inferred edge.  A path does not come to a node it has *)
(* been at: its identity, or one alike, is found by LIKE in the path.      *)

Visited(p, id) == \E m \in p.path : LikeForm(m) = LikeForm(id)
BlastPaths(g, id) ==
    LET Longer(p, e) == [node |-> e.source, depth |-> p.depth + 1, path |-> p.path \cup {e.source},
                         certain |-> p.certain /\ e.certainty = "deterministic"]
        upTo[depth \in Nat] ==
            IF depth = 0 THEN {[node |-> id, depth |-> 0, path |-> {id}, certain |-> TRUE]}
            ELSE LET shorter == upTo[depth - 1]
                 IN  shorter \cup
                     {Longer(x[1], x[2]) : x \in {y \in shorter \X Dependencies(g) :
                                                    /\ y[2].target = y[1].node
                                                    /\ ~Visited(y[1], y[2].source)}}
    IN  upTo

(* Mutant: as certain as its shortest path. *)
ShortestRadius(g, id, maxDepth) ==
    LET hits == {p \in BlastPaths(g, id)[maxDepth] : p.depth > 0}
        Depth(n) == Min({p.depth : p \in {h \in hits : h.node = n}})
    IN  {[node |-> n, depth |-> Depth(n),
          certain |-> \E p \in hits : p.node = n /\ p.depth = Depth(n) /\ p.certain] :
            n \in {p.node : p \in hits}}

BlastRadius(g, id, maxDepth) ==
    LET hits == {p \in BlastPaths(g, id)[maxDepth] : p.depth > 0}
        To(n) == {p \in hits : p.node = n}
    IN  {[node |-> n, depth |-> Min({p.depth : p \in To(n)}),
          certain |-> \E p \in To(n) : p.certain] : n \in {p.node : p \in hits}}

BlastTruncated(hits, maxDepth) == \E h \in hits : h.depth >= maxDepth

-----------------------------------------------------------------------------
(* Keyset pages.                                                           *)

Before(a, b) == \E k \in DOMAIN a : a[k] < b[k] /\ \A j \in 1 .. k - 1 : a[j] = b[j]
(* A row is listed after those before it. *)
ByKey(rows) ==
    LET rank == [r \in rows |-> Cardinality({s \in rows : Before(s.key, r.key)})]
    IN  [k \in 1 .. Cardinality(rows) |-> CHOOSE r \in rows : rank[r] = k - 1]
(* Mutant: the cursor's own row again. *)
FromCursor(rows, cursor) == {r \in rows : cursor = <<>> \/ ~Before(r.key, cursor)}
After(rows, cursor) == {r \in rows : cursor = <<>> \/ Before(cursor, r.key)}

FirstOf(rows, n) == SubSeq(rows, 1, Min({n, Len(rows)}))
(* Mutant: a full page is taken for the last one. *)
PageOrEnd(rows, limit) ==
    [items |-> FirstOf(rows, limit),
     next |-> IF Len(rows) <= limit + 1 THEN <<>> ELSE rows[limit].key]
BuildPage(rows, limit) ==
    [items |-> FirstOf(rows, limit),
     next |-> IF Len(rows) <= limit THEN <<>> ELSE rows[limit].key]

KindRank(kind) ==
    CHOOSE k \in 1 .. 7 :
      <<"calls", "contains", "exports", "extends", "implements", "imports", "references">>[k]
        = kind
TrustRank(certainty) == IF certainty = "deterministic" THEN 0 ELSE 1
EdgeKey(e) == <<e.source, KindRank(e.kind), e.target, e.subKind, TrustRank(e.certainty)>>

(* The rows of a list, with the keys it is ordered by. *)
ListRows(g, list, q) ==
    LET Nodes(set) == {[key |-> <<n.id>>, item |-> n] : n \in set}
        Edges(set) == {[key |-> EdgeKey(e), item |-> e] : e \in set}
    IN  CASE list = "declaredInterface" -> Nodes(DeclaredInterface(g, q.id))
          [] list = "declarations" -> Nodes(ContainedDeclarations(g, q.id))
          [] list = "callSites" -> Nodes(CallSitesOf(g, q.id))
          [] list = "search" -> Nodes({n \in g.nodes : /\ q.kind \in {"", n.kind}
                                                       /\ q.name \in {0, n.name}})
          [] list = "nameCollisions" ->
               {[key |-> <<n.name, n.id>>, item |-> n] : n \in NameCollisions(g)}
          [] list = "unusedSymbols" -> Nodes(UnusedSymbols(g))
          [] list \in {"in", "out"} -> Edges(NeighborEdges(g, q.id, list))
          [] list = "references" ->
               Edges({e \in NeighborEdges(g, q.id, "out") : e.kind = "references"})
          [] list = "cyclic" -> Edges(CyclicDependencyEdges(g))
          [] list = "blastRadius" ->
               {[key |-> <<h.depth, h.node>>, item |-> h] : h \in BlastRadius(g, q.id, q.depth)}

Counted == {"declaredInterface", "declarations", "callSites", "search", "nameCollisions",
            "unusedSymbols", "in", "out", "references"}
Hydrates == {"in", "out", "references", "blastRadius"}
(* Mutant: always the target. *)
TargetId(list, row) == IF list = "blastRadius" THEN row.item.node ELSE row.item.target
(* The node a row is shown with. *)
NodeId(list, row) == IF list = "blastRadius" THEN row.item.node
                     ELSE FarEnd(row.item, IF list = "in" THEN "in" ELSE "out")

-----------------------------------------------------------------------------
(* Strongly connected components, by Tarjan's algorithm with an explicit   *)
(* stack of frames; components come out in order of completion.            *)

Sorted(ids) ==
    LET rows == ByKey({[key |-> <<id>>] : id \in ids})
    IN  [k \in DOMAIN rows |-> rows[k].key[1]]
Ends(edges) == {e.source : e \in edges} \cup {e.target : e \in edges}
BuildAdjacency(edges) ==
    [n \in Ends(edges) |->
       ByKey({[key |-> <<e.target, KindRank(e.kind), e.subKind, TrustRank(e.certainty)>>] :
                e \in {f \in edges : f.source = n}})]

(* Entered: a frame whose next index is zero is numbered and stacked. *)
Enter(t, node) ==
    LET Numbered(f) == [n \in DOMAIN f \cup {node} |-> IF n = node THEN t.counter ELSE f[n]]
    IN  IF Last(t.work).next # 0 THEN t
        ELSE [t EXCEPT !.index = Numbered(@), !.low = Numbered(@),
                       !.counter = @ + 1, !.stack = Append(@, node)]

(* Mutant: a finished component lowers the link too. *)
ChildOrLink(t, node, child) ==
    LET moved == [t EXCEPT !.work[Len(t.work)].next = @ + 1]
    IN  IF child \notin DOMAIN t.index
        THEN [moved EXCEPT !.work = Append(@, [node |-> child, next |-> 0])]
        ELSE [moved EXCEPT !.low[node] = Min({@, t.index[child]})]
VisitChild(t, node, child) ==
    LET moved == [t EXCEPT !.work[Len(t.work)].next = @ + 1]
    IN  CASE child \notin DOMAIN t.index ->
               [moved EXCEPT !.work = Append(@, [node |-> child, next |-> 0])]
          [] child \in DOMAIN t.index /\ child \in ToSet(t.stack) ->
               [moved EXCEPT !.low[node] = Min({@, t.index[child]})]
          [] OTHER -> moved

(* A frame with no child left closes its component and hands on its link.  *)
Leave(t, node) ==
    LET at == CHOOSE k \in DOMAIN t.stack : t.stack[k] = node
        root == t.low[node] = t.index[node]
        work == Front(t.work)
        closed == [t EXCEPT !.work = work,
                            !.stack = IF root THEN SubSeq(@, 1, at - 1) ELSE @,
                            !.found = IF root
                                      THEN Append(@, ToSet(SubSeq(t.stack, at, Len(t.stack))))
                                      ELSE @]
    IN  IF work = <<>> THEN closed
        ELSE [closed EXCEPT !.low[Last(work).node] = Min({@, t.low[node]})]

Advance(adjacency, t) ==
    LET starts == DOMAIN adjacency \ DOMAIN t.index
        node == Last(t.work).node
        next == Last(t.work).next
        entered == Enter(t, node)
    IN  CASE t.work = <<>> /\ starts = {} -> t
          [] t.work = <<>> /\ starts # {} ->
               [t EXCEPT !.work = <<[node |-> Min(starts), next |-> 0]>>]
          [] t.work # <<>> /\ next < Len(adjacency[node]) ->
               VisitChild(entered, node, adjacency[node][next + 1].key[1])
          [] OTHER -> Leave(entered, node)

NotStarted == [work |-> <<>>, index |-> <<>>, low |-> <<>>, counter |-> 0,
               stack |-> <<>>, found |-> <<>>]
Tarjan(adjacency) ==
    LET run[steps \in Nat] ==
            IF steps = 0 THEN NotStarted
            ELSE LET before == run[steps - 1] IN Advance(adjacency, before)
    IN  run

(* A node is started, if at all, and left; an edge is followed once.       *)
FindCycles(edges) ==
    LET steps == 2 * Cardinality(Ends(edges)) + Cardinality(edges)
        components == ToSet(Tarjan(BuildAdjacency(edges))[steps].found)
        Within(c) == {e \in edges : e.source \in c /\ e.target \in c}
    IN  {[id |-> Min(c), members |-> FirstOf(Sorted(c), MemberCap), length |-> Cardinality(c),
          candidate |-> \E e \in Within(c) : e.certainty = "inferred",
          truncated |-> Cardinality(c) > MemberCap] :
            c \in {d \in components : Cardinality(d) > 1 \/ Within(d) # {}}}

-----------------------------------------------------------------------------
(* A request, its reads and its answer.  A composed view starts with a     *)
(* statement of its own, its head.                                         *)

Lists(q) == CASE q.view = "nodeDetail" -> {"declaredInterface", "in", "out", "callSites"}
              [] q.view = "neighbors" -> {q.direction}
              [] q.view = "callBindings" -> {"references"}
              [] q.view = "cycles" -> {"cyclic"}
              [] q.view = "map" -> {"counts", "edges"}
              [] OTHER -> {q.view}
HasHead(q) == q.view \in {"nodeDetail", "callBindings", "map"}

LimitOf(q, list) == CASE list = "cyclic" \/ q.view = "nodeDetail" -> PageLimit
                      [] list = "references" -> Len(head[1].payload)
                      [] OTHER -> q.limit

Fresh(list, cursor) ==
    [at |-> CASE list \in Counted /\ cursor = <<>> -> "count"
              [] list \in {"counts", "edges"} -> "map"
              [] OTHER -> "rows",
     cursor |-> cursor, total |-> -1, rows |-> <<>>, shown |-> <<>>, truncated |-> FALSE]
(* The client's cursor on cycles selects among them once they are found.   *)
Started(q, cursor) ==
    [list \in Lists(q) |-> Fresh(list, IF q.view = "cycles" THEN <<>> ELSE cursor)]
(* A call site without arguments has nothing to read. *)
StartedOn(q, node) ==
    IF q.view = "callBindings" /\ node.payload = <<>>
    THEN [list \in {"references"} |-> [Fresh(list, <<>>) EXCEPT !.at = "done"]]
    ELSE Started(q, <<>>)

Idle == request = <<>>
Reading == ~Idle /\ \E list \in DOMAIN reads : reads[list].at # "done"
Answered == ~Idle /\ reads = <<>> /\ pages # <<>>

(* An answer: its items, the cursor of the next page, the total on a first *)
(* page, and the parts or marks of the views that have some.               *)
Answer(items, next, total, more) ==
    [items |-> items, next |-> next, total |-> total, more |-> more]

Init ==
    /\ stored \in Graphs
    /\ replaced = 0 /\ request = <<>> /\ head = <<>> /\ reads = <<>> /\ pages = <<>>
    /\ versions = {}

(* What the query schemas let through. *)
Valid(q) == /\ q.limit >= 1 /\ q.depth >= 1
            /\ q.view = "map" /\ q.level = "symbol" => q.scope # {}

Ask(q) ==
    /\ Idle /\ Valid(q)
    /\ request' = <<q>>
    /\ reads' = IF HasHead(q) THEN <<>> ELSE Started(q, <<>>)
    /\ versions' = {stored}
    /\ UNCHANGED <<stored, replaced, head, pages>>

(* nodeDetail and callBindings look the node up; none is the answer. *)
GetNode ==
    LET q == request[1]
        found == {n \in stored.nodes : /\ n.id = q.id
                                       /\ q.view = "callBindings" => n.kind = "callSite"}
        node == CHOOSE n \in found : TRUE
    IN  /\ ~Idle /\ q.view \in {"nodeDetail", "callBindings"} /\ head = <<>> /\ pages = <<>>
        /\ \/ /\ found # {}
              /\ head' = <<node>>
              /\ reads' = StartedOn(q, node)
              /\ pages' = pages
           \/ /\ found = {}
              /\ pages' = <<Answer(<<>>, <<>>, -1, {})>>
              /\ UNCHANGED <<head, reads>>
        /\ UNCHANGED <<stored, replaced, request, versions>>

(* The map's containers, cut at the limit. *)
Containers(g, q) == Sorted({n.id : n \in ContainerRows(g, q.level, q.scope)})
SelectContainers ==
    LET q == request[1]
        rows == FirstOf(Containers(stored, q), q.limit + 1)
    IN  /\ ~Idle /\ q.view = "map" /\ head = <<>> /\ pages = <<>>
        /\ head' = <<[ids |-> ToSet(FirstOf(rows, q.limit)), truncated |-> Len(rows) > q.limit]>>
        /\ reads' = Started(q, <<>>)
        /\ UNCHANGED <<stored, replaced, request, pages, versions>>

Become(list, read) ==
    /\ reads' = [reads EXCEPT ![list] = read]
    /\ UNCHANGED <<stored, replaced, request, head, pages, versions>>

CountRows(list) ==
    /\ list \in DOMAIN reads /\ reads[list].at = "count"
    /\ Become(list, [reads[list] EXCEPT
                       !.at = "rows",
                       !.total = Cardinality(ListRows(stored, list, request[1]))])

(* A page is built; the cyclic edges and an argument list are drained.     *)
Drains(list, page, seen) ==
    /\ page.next # <<>>
    /\ list = "cyclic" \/ (list = "references" /\ seen < Len(head[1].payload))
Paged(list, read, rows) ==
    LET page == BuildPage(rows, LimitOf(request[1], list))
        shown == read.shown \o page.items
    IN  [read EXCEPT !.rows = <<>>, !.shown = shown, !.cursor = page.next,
                     !.at = IF Drains(list, page, Len(shown)) THEN "rows" ELSE "done"]

FetchRows(list) ==
    LET q == request[1]
        all == ListRows(stored, list, q)
        rows == FirstOf(ByKey(After(all, reads[list].cursor)), LimitOf(q, list) + 1)
        read == [reads[list] EXCEPT
                   !.truncated = /\ list = "blastRadius" /\ rows # <<>>
                                 /\ BlastTruncated({r.item : r \in all}, q.depth)]
    IN  /\ list \in DOMAIN reads /\ reads[list].at = "rows"
        /\ Become(list, IF list \in Hydrates /\ rows # <<>>
                        THEN [read EXCEPT !.at = "nodes", !.rows = rows]
                        ELSE Paged(list, read, rows))

HydrateRows(list) ==
    /\ list \in DOMAIN reads /\ reads[list].at = "nodes"
    /\ LET rows == reads[list].rows
       IN  Become(list, Paged(list, reads[list],
                              [k \in DOMAIN rows |->
                                 [key |-> rows[k].key, item |-> rows[k].item,
                                  node |-> Hydrated(stored, NodeId(list, rows[k]))]]))

ProjectOn(list) ==
    LET q == request[1]
    IN  IF list = "counts" THEN {<<id, ChildCount(stored, q.level, id)>> : id \in head[1].ids}
        ELSE ProjectedEdges(stored, q.level, head[1].ids)
Project(list) ==
    /\ list \in DOMAIN reads /\ reads[list].at = "map"
    /\ Become(list, [reads[list] EXCEPT !.at = "done", !.shown = <<ProjectOn(list)>>])

(* The answer, put together when every read is done. *)
Bindings ==
    LET site == head[1]
        Named(a) == {r \in ToSet(reads["references"].shown) :
                       /\ a.pass = "named"
                       /\ \E n \in r.node : n.kind = "symbol" /\ n.name = a.name}
    IN  [k \in DOMAIN site.payload |-> UNION {r.node : r \in Named(site.payload[k])}]

CyclesPage(q, cursor) ==
    LET all == {[key |-> <<c.id>>, item |-> c] :
                  c \in FindCycles({r.item : r \in ToSet(reads["cyclic"].shown)})}
        page == BuildPage(ByKey(After(all, cursor)), q.limit)
    IN  Answer(page.items, page.next, IF cursor = <<>> THEN Cardinality(all) ELSE -1, {})

ClientCursor == IF pages = <<>> THEN <<>> ELSE Last(pages).next
Respond ==
    LET q == request[1]
        Only == reads[CHOOSE list \in Lists(q) : TRUE]
        answer ==
            CASE q.view = "cycles" -> CyclesPage(q, ClientCursor)
              [] q.view = "callBindings" -> Answer(Bindings, <<>>, -1, {})
              [] q.view \in {"map", "nodeDetail"} ->
                   Answer(<<>>, <<>>, -1, {[list |-> l, read |-> reads[l]] : l \in DOMAIN reads})
              [] OTHER -> Answer(Only.shown, Only.cursor, Only.total, {Only.truncated})
    IN  /\ ~Idle /\ reads # <<>> /\ ~Reading
        /\ pages' = Append(pages, answer)
        /\ reads' = <<>>
        /\ UNCHANGED <<stored, replaced, request, head, versions>>

(* The client follows the cursor, or leaves. *)
AskNext ==
    /\ Answered /\ ClientCursor # <<>>
    /\ reads' = Started(request[1], ClientCursor)
    /\ UNCHANGED <<stored, replaced, request, head, pages, versions>>
Leaves ==
    /\ Answered
    /\ request' = <<>> /\ head' = <<>> /\ pages' = <<>> /\ versions' = {}
    /\ UNCHANGED <<stored, replaced, reads>>

Replace(g) ==
    /\ stored \in Versions /\ g # stored /\ replaced < MaxReplacements
    /\ stored' = g
    /\ replaced' = replaced + 1
    /\ versions' = IF Idle THEN {} ELSE versions \cup {g}
    /\ UNCHANGED <<request, head, reads, pages>>

Next ==
    \/ \E q \in RequestsOn(stored) : Ask(q)
    \/ GetNode
    \/ SelectContainers
    \/ \E list \in DOMAIN reads : \/ CountRows(list)
                                  \/ FetchRows(list)
                                  \/ HydrateRows(list)
                                  \/ Project(list)
    \/ Respond
    \/ AskNext
    \/ Leaves
    \/ \E g \in Versions : Replace(g)

Spec == Init /\ [][Next]_vars

-----------------------------------------------------------------------------
(* What a client may rely on.                                              *)

Listed == {"declaredInterface", "declarations", "callSites", "search", "nameCollisions",
           "unusedSymbols", "neighbors", "blastRadius"}
ListOf(q) == IF q.view = "neighbors" THEN q.direction ELSE q.view
Complete == Answered /\ ClientCursor = <<>>
Undisturbed == versions = {stored}

(* What is read of a graph that nothing replaces meanwhile is the whole    *)
(* list, in order, counted, however it is cut into pages; the parts of a   *)
(* node's detail are the first pages of its lists, the bindings of a call  *)
(* site those of all its references though only as many are read as it has *)
(* arguments, and a map says whether it hides containers (graph-page, the  *)
(* keyset reads, callBindings, mapView).                                   *)
UndisturbedReadIsExact ==
    LET q == request[1]
        All(list) == ByKey(ListRows(stored, list, q))
        Is(row, was) == row.key = was.key /\ row.item = was.item
    IN  /\ Complete /\ Undisturbed /\ q.view \in Listed =>
             LET all == All(ListOf(q))
             IN  /\ Len(all) = (Len(pages) - 1) * q.limit + Len(Last(pages).items)
                 /\ \A i \in 1 .. Len(pages) - 1 : Len(pages[i].items) = q.limit
                 /\ \A i \in DOMAIN pages : \A k \in DOMAIN pages[i].items :
                      Is(pages[i].items[k], all[(i - 1) * q.limit + k])
                 /\ q.view # "blastRadius" => pages[1].total = Len(all)
        /\ Complete /\ Undisturbed /\ q.view = "nodeDetail" =>
             \A part \in pages[1].more :
               /\ part.read.total = Len(All(part.list))
               /\ Len(part.read.shown) = Min({PageLimit, Len(All(part.list))})
               /\ \A k \in DOMAIN part.read.shown : Is(part.read.shown[k], All(part.list)[k])
        /\ Complete /\ Undisturbed /\ q.view = "callBindings" /\ head # <<>> =>
             pages[1].items = CallBindings(stored, head[1])
        /\ Complete /\ Undisturbed /\ q.view = "map" =>
             LET Drawn(list) == (CHOOSE p \in pages[1].more : p.list = list).read.shown[1]
                 ids == head[1].ids
                 hidden == {n.id : n \in ContainerRows(stored, q.level, q.scope)} \ ids
             IN  /\ head[1].truncated = (hidden # {})
                 /\ \A i \in ids, j \in hidden : i < j
                 /\ Drawn("counts") = {<<id, ChildCount(stored, q.level, id)>> : id \in ids}
                 /\ Drawn("edges") = ProjectedEdges(stored, q.level, ids)

(* Whatever is replaced between the pages of a list, no row comes twice    *)
(* and none comes before one already shown (the keyset reads, cycles).     *)
PagesAscend ==
    Answered /\ request[1].view \in Listed \cup {"cycles"} =>
      \A i, j \in DOMAIN pages :
        \A k \in DOMAIN pages[i].items, l \in DOMAIN pages[j].items :
          i < j \/ (i = j /\ k < l) => Before(pages[i].items[k].key, pages[j].items[l].key)

(* Whatever is replaced between the statements of a read, a row was in     *)
(* some stored graph and is shown with the node at its far end, or with    *)
(* none: of one graph, with none only if that end is not stored            *)
(* (hydrateNeighbors, blastRadiusPage).                                    *)
ShownWithItsFarEnd ==
    LET q == request[1]
        End(list, row) == CASE list = "blastRadius" -> row.item.node
                            [] list = "in" -> row.item.source
                            [] OTHER -> row.item.target
        Genuine(list, row) ==
            /\ \E g \in versions : \E r \in ListRows(g, list, q) : r.item = row.item
            /\ list \in Hydrates => /\ \A n \in row.node : n.id = End(list, row)
                                    /\ row.node \subseteq UNION {g.nodes : g \in versions}
                                    /\ Undisturbed => row.node = Hydrated(stored, End(list, row))
    IN  /\ Answered /\ q.view \in Listed =>
             \A page \in ToSet(pages) : \A row \in ToSet(page.items) : Genuine(ListOf(q), row)
        /\ Answered /\ q.view = "nodeDetail" =>
             \A part \in pages[1].more :
               \A row \in ToSet(part.read.shown) : Genuine(part.list, row)

(* Whom a change of the nodes in a set reaches by so many dependencies. *)
Dependents(deps, to) ==
    LET after[steps \in Nat] ==
            IF steps = 0 THEN to
            ELSE LET near == after[steps - 1]
                 IN  near \cup {e.source : e \in {d \in deps : d.target \in near}}
    IN  after

(* A blast radius read while nothing is replaced names only dependents, at *)
(* a depth some way to them has, certain only if deterministic edges alone *)
(* reach them.  Where LIKE tells the dependents within the depth asked and *)
(* the node itself apart, it has each of them at its distance, certain     *)
(* whenever such edges reach it, and all dependents, direct or not, unless *)
(* it says it was cut (blastRadiusCte, runBlastRadiusPage).                *)
ToldApart(ids) == \A m, n \in ids : LikeForm(m) = LikeForm(n) => m = n
BlastIsDistance ==
    LET q == request[1]
        deps == Dependencies(stored)
        sure == {e \in deps : e.certainty = "deterministic"}
        hits == {row.item : row \in UNION {ToSet(page.items) : page \in ToSet(pages)}}
        nodes == {h.node : h \in hits}
    IN  Complete /\ Undisturbed /\ q.view = "blastRadius" =>
          /\ nodes \subseteq Dependents(deps, {q.id})[q.depth] \ {q.id}
          /\ \A h \in hits : /\ h.node \in Dependents(deps, {q.id})[h.depth]
                             /\ h.certain => h.node \in Dependents(sure, {q.id})[q.depth]
          /\ ToldApart(Dependents(deps, {q.id})[q.depth]) =>
               /\ nodes = Dependents(deps, {q.id})[q.depth] \ {q.id}
               /\ \A h \in hits :
                    /\ h.node \notin Dependents(deps, {q.id})[h.depth - 1]
                    /\ h.certain <=> h.node \in Dependents(sure, {q.id})[q.depth]
               /\ pages[1].more = {FALSE} =>
                    \A e \in deps : e.target \in nodes \cup {q.id} => e.source \in nodes \cup {q.id}

(* Whom following dependencies from a node reaches, itself included; the   *)
(* nodes reached that also reach it; the dependencies inside a set.        *)
Reached(deps, n) ==
    {m \in Ends(deps) : \A s \in SUBSET Ends(deps) :
       n \in s /\ (\A e \in deps : e.source \in s => e.target \in s) => m \in s}
ClassOf(deps, n) == {m \in Reached(deps, n) : n \in Reached(deps, m)}
Inside(deps, c) == {e \in deps : e.source \in c /\ e.target \in c}
CycleClasses(deps) ==
    {ClassOf(deps, n) : n \in {m \in Ends(deps) : Inside(deps, ClassOf(deps, m)) # {}}}

(* Cycles read while nothing is replaced are the classes of mutually       *)
(* dependent nodes a dependency lies inside of, each once on the pages and *)
(* counted, shown with its least members: the edges are drained page by    *)
(* page, only those between two nodes with edges both ways are read, and   *)
(* the components are found without recursion (cycles,                     *)
(* cyclicDependencyEdges, findCycles).                                     *)
CyclesAreComponents ==
    LET q == request[1]
        deps == Dependencies(stored)
        classes == CycleClasses(deps)
        shown == UNION {ToSet(page.items) : page \in ToSet(pages)}
        Shows(cycle, c) ==
            /\ cycle.length = Cardinality(c)
            /\ ToSet(cycle.members) \subseteq c
            /\ \A m \in ToSet(cycle.members), n \in c \ ToSet(cycle.members) : m < n
            /\ Len(cycle.members) = Min({MemberCap, Cardinality(c)})
            /\ cycle.truncated <=> Len(cycle.members) # cycle.length
            /\ cycle.candidate <=> \E e \in Inside(deps, c) : e.certainty = "inferred"
    IN  Complete /\ Undisturbed /\ q.view = "cycles" =>
          /\ {r.item.id : r \in shown} = {Min(c) : c \in classes}
          /\ \A i \in 1 .. Len(pages) - 1 : Len(pages[i].items) = q.limit
          /\ Cardinality(classes) = (Len(pages) - 1) * q.limit + Len(Last(pages).items)
          /\ pages[1].total = Cardinality(classes)
          /\ \A r \in shown : Shows(r.item, ClassOf(deps, r.item.id))
=============================================================================
