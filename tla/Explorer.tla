------------------------------ MODULE Explorer ------------------------------
(***************************************************************************)
(* The graph explorer of apps/web: one browser tab on the map of one       *)
(* project at a time.  The view is a URL (level, scope, selected node,     *)
(* blast overlay); every view is answered by queries whose answers arrive  *)
(* late, out of order or not at all and stay in a cache shared by all the  *)
(* projects the tab visits; the map that arrived is laid out               *)
(* asynchronously, and only a finished layout replaces what the canvas     *)
(* draws.  So the address, the data and the drawing may be three different *)
(* views at once, and the viewer can click during all of it.  While the    *)
(* browser says it is offline nothing new is sent: those queries are       *)
(* paused, neither answered nor loading.                                   *)
(*                                                                         *)
(* What a query answers is a function of the project and the query: the    *)
(* graph is not replaced while the tab is open (GraphServe is about that). *)
(***************************************************************************)
EXTENDS Naturals, Sequences, FiniteSets, SequencesExt

CONSTANTS
  Graph,      \* [project -> [kind, parent: functions on its ids, edges: a set]]
  Urls,       \* addresses a link or a bookmark may open
  Texts,      \* what the viewer may type; Matches says what it finds
  Matches,    \* [Texts -> SUBSET ids], Serve's search
  Nothing,    \* an absent parameter
  MaxMoves,   \* bound: pages opened and addresses pushed
  Failing,    \* bound: the queries whose requests may fail
  MaxWaiting, \* bound: the viewer acts while fewer requests are unanswered, and
              \* types when none is
  MaxFaults   \* bound: requests and layouts that fail, outages

VARIABLES
  project,    \* the project whose page is open, Nothing before the first page
  probe,      \* what its server-side probe found: [level, map: it came with data]
  history,    \* the addresses of the page, newest last
  state,      \* the view the newest one reads as
  cache,      \* query key -> the request whose answer it holds
  inflight,   \* requests of queries unanswered, sent or paused
  failed,     \* keys whose observer shows an error
  online,     \* what the browser says
  carried,    \* requests sent before it said it was offline
  canvas,     \* <<the map request whose layout is drawn>>, <<>> before the first
  layouts,    \* running layouts: [of: a map request, cancelled]
  unlaid,     \* history: the layout of the map that is there has failed
  box,        \* search box: [input: typed, query: asked, pending: its timer]
  open,       \* disclosures open in the panel: "members" or a call site
  spent       \* counters of the bounds: [moves, faults]

link == <<online, carried>>
vars == <<project, probe, history, state, cache, inflight, failed, link, canvas,
          layouts, unlaid, box, open, spent>>

Projects == DOMAIN Graph
Ids(p) == DOMAIN Graph[p].kind
KindOf(p, n) == IF n \in Ids(p) THEN Graph[p].kind[n] ELSE Nothing

-----------------------------------------------------------------------------
(* The address. *)

\* A link may carry any parameters: a level nobody knows reads as package, and
\* an unscoped symbol level as the package map, which drops the selection.
Parse(u) ==
  LET level == IF u.level \in {"package", "file", "symbol"} THEN u.level ELSE "package"
  IN IF level = "symbol" /\ u.scope = Nothing
       THEN [level |-> "package", scope |-> Nothing, node |-> Nothing, blast |-> u.blast]
       ELSE [u EXCEPT !.level = level]

\* The address of a view: the package default is left out of it.
Params(s) == [s EXCEPT !.level = IF s.level = "package" THEN Nothing ELSE s.level]

ViewOf(level, scope) == [level |-> level, scope |-> scope, node |-> Nothing, blast |-> FALSE]

\* The root address shows the coarsest tier that has nodes.
AtRoot == state.level = "package" /\ state.scope = Nothing
Level  == IF AtRoot THEN probe.level ELSE state.level
Scope  == IF AtRoot THEN Nothing ELSE state.scope

-----------------------------------------------------------------------------
(* Queries: what the hooks ask, and the key each answer is kept under. *)

Request(p, ask, a, b) == [project |-> p, ask |-> ask, args |-> <<a, b>>]

\* Mutant of QueryKey: keys that are not namespaced by project.
KeyOfAnyProject(r) == <<r.ask, r.args>>

QueryKey(r) == <<r.project, r.ask, r.args>>

\* useQuery: the data and the error an observer of r sees.
Answered(r) == QueryKey(r) \in DOMAIN cache
Data(r)     == cache[QueryKey(r)]
Error(r)    == QueryKey(r) \in failed

\* fetchStatus "paused": not sent, or its retry was not.
Paused(r)   == ~online /\ r \notin carried

useGraphMap          == Request(project, "map", Level, Scope)
useGraphNode         == Request(project, "node", state.node, Nothing)
useGraphBlastRadius  == Request(project, "blastRadius", state.node, Nothing)
useScopeTrail        == Request(project, "scopeTrail", Scope, Nothing)
useGraphSearch       == Request(project, "search", box.query, Nothing)
useGraphDeclarations == Request(project, "declarations", state.node, Nothing)
useGraphCallBindings(site) == Request(project, "callBindings", site, Nothing)

BlastActive == state.blast /\ state.node # Nothing

-----------------------------------------------------------------------------
(* What Serve answers, as far as the page can tell its answers apart. *)

DependencyKinds == {"imports", "references", "calls", "extends", "implements"}

Above(p, n) == IF n \in Ids(p) THEN Graph[p].parent[n] ELSE Nothing

\* The container of n at a level, n itself included.
Container(p, n, level) ==
  LET found == {m \in {n, Above(p, n), Above(p, Above(p, n))} : KindOf(p, m) = level}
  IN IF found = {} THEN Nothing ELSE CHOOSE m \in found : TRUE

\* The nodes of a level: every package, the files of a package or all of them,
\* the symbols of a file.
MapNodes(r) ==
  {n \in Ids(r.project) :
     /\ KindOf(r.project, n) = r.args[1]
     /\ \/ r.args[1] = "package"
        \/ r.args[1] = "file" /\ r.args[2] \in {Nothing, Container(r.project, n, "package")}
        \/ r.args[1] = "symbol" /\ r.args[2] = Container(r.project, n, "file")}

\* One flow edge per pair of containers and per trust that occurs between them.
FlowEdges(r) ==
  LET At(n) == Container(r.project, n, r.args[1])
  IN {[source |-> At(e.source), target |-> At(e.target), trust |-> e.trust]
        : e \in {f \in Graph[r.project].edges :
                   /\ f.kind \in DependencyKinds
                   /\ At(f.source) # At(f.target)
                   /\ {At(f.source), At(f.target)} \subseteq MapNodes(r)}}

\* Everything that reaches n, each with the best trust of a path (two hops).
Impact(r) ==
  LET es   == Graph[r.project].edges
      n    == r.args[1]
      Hits(S, trusts) == {e.source : e \in {f \in es : f.target \in S /\ f.trust \in trusts}}
      Near(trusts) == Hits({n}, trusts) \cup Hits(Hits({n}, trusts), trusts)
      proven == Near({"deterministic"})
  IN [m \in Near({"deterministic", "inferred"}) \ {n} |->
        IF m \in proven THEN "deterministic" ELSE "inferred"]

\* A neighbour is named by its far end, or external when that is no node.
NeighborRow(p, e, far) == [kind |-> e.kind, id |-> far, named |-> far \in Ids(p), trust |-> e.trust]

\* The panel's lists: dependency neighbours on each side; and whether it warns
\* of inferred edges, which it does for those of every kind.
PanelRows(r) ==
  LET p == r.project
      incoming == {e \in Graph[p].edges : e.target = r.args[1]}
      outgoing == {e \in Graph[p].edges : e.source = r.args[1]}
  IN [callers |-> {NeighborRow(p, e, e.source) : e \in {f \in incoming : f.kind \in DependencyKinds}},
      callees |-> {NeighborRow(p, e, e.target) : e \in {f \in outgoing : f.kind \in DependencyKinds}},
      hasInferredEdge |-> \E e \in incoming \cup outgoing : e.trust = "inferred"]

CallSites(r) == {m \in Ids(r.project) : Above(r.project, m) = r.args[1]
                                     /\ KindOf(r.project, m) = "callSite"}

\* The members a disclosure lists: the children that are neither parameters
\* nor anything the adapter has no bucket for.
Members(r) == {m \in Ids(r.project) : Above(r.project, m) = r.args[1]
                                   /\ KindOf(r.project, m) \in {"local", "nested"}}

\* The trail over a file: the package its parent edge names, when there is one.
TrailPackage(r) == Above(r.project, r.args[1])

-----------------------------------------------------------------------------
(* What the page shows. *)

\* Neither waiting nor empty: a paused map without data is not waiting.
Drawable == IF Answered(useGraphMap) THEN MapNodes(Data(useGraphMap)) # {}
                                     ELSE Paused(useGraphMap)

\* In place of the map: the error, the wait, the empty graph.  Else the canvas,
\* the search box and the panel of the selected node.
Screen == IF Error(useGraphMap) THEN "error"
          ELSE IF Drawable THEN "map"
          ELSE IF Answered(useGraphMap) THEN "empty" ELSE "loading"

Panel == IF state.node = Nothing \/ Screen # "map" THEN "closed"
         ELSE IF Error(useGraphNode) THEN "error"
         ELSE IF Answered(useGraphNode) THEN "shown" ELSE "loading"

\* The disclosures the panel has mounted: its call sites, and of a symbol the
\* members.
Mounted ==
  IF Panel # "shown" THEN {}
  ELSE LET r == Data(useGraphNode)
       IN CallSites(r) \cup (IF KindOf(r.project, r.args[1]) = "symbol" THEN {"members"} ELSE {})

\* A crumb names a view; the middle one needs the resolved trail.
Crumbs ==
  {ViewOf("package", Nothing)}
    \cup (IF Scope = Nothing THEN {} ELSE {ViewOf(Level, Scope)})
    \cup (IF Level = "symbol" /\ Scope # Nothing /\ Answered(useScopeTrail)
             /\ TrailPackage(Data(useScopeTrail)) # Nothing
            THEN {ViewOf("file", TrailPackage(Data(useScopeTrail)))} ELSE {})

Drawn == UNION {MapNodes(r) : r \in Range(canvas)}

\* The focused node and what is one dependency hop away.
focusNeighbourhood(focus, edges) ==
  {focus} \cup UNION {{e.source, e.target} : e \in {f \in edges : focus \in {f.source, f.target}}}

\* A drawn map: the overlay marks the nodes the change of the selected one may
\* reach and dims the others; without it the selected node's one-hop focus dims
\* what does not touch it.
DrawingOf(of, impact) ==
  LET focus == IF BlastActive THEN Nothing ELSE state.node
      edges == FlowEdges(of)
  IN [nodes |-> {[id |-> n, selected |-> n = state.node,
                  impact |-> IF n \in DOMAIN impact THEN impact[n] ELSE Nothing,
                  dimmed |-> \/ BlastActive /\ n \notin DOMAIN impact \cup {state.node}
                             \/ focus # Nothing /\ n \notin focusNeighbourhood(focus, edges)]
                   : n \in MapNodes(of)},
      edges |-> {[edge |-> e, dimmed |-> focus # Nothing /\ focus \notin {e.source, e.target}]
                   : e \in edges}]

Impacted == IF BlastActive /\ Answered(useGraphBlastRadius)
              THEN Impact(Data(useGraphBlastRadius)) ELSE <<>>

\* The panel's overlay section: the wait, or the dependents with their trust;
\* none when the request failed or is paused.
BlastSection ==
  LET r == useGraphBlastRadius
  IN IF ~BlastActive THEN "closed"
     ELSE IF ~Answered(r) /\ ~Error(r) /\ ~Paused(r) THEN "loading"
     ELSE IF DOMAIN Impacted = {} THEN "empty" ELSE "rows"

\* Every query of the rendered page that is enabled: a disclosure that is not
\* mounted is not open.
Asked ==
  {useGraphMap}
    \cup (IF Level = "symbol" /\ Scope # Nothing THEN {useScopeTrail} ELSE {})
    \cup (IF BlastActive THEN {useGraphBlastRadius} ELSE {})
    \cup (IF Panel # "closed" THEN {useGraphNode} ELSE {})
    \cup {IF d = "members" THEN useGraphDeclarations ELSE useGraphCallBindings(d) : d \in open}
    \cup (IF box.query # Nothing THEN {useGraphSearch} ELSE {})

-----------------------------------------------------------------------------
(* One render: what React and the query client do after any change.  The     *)
(* conjuncts read the new address, cache and errors.                         *)

Put(c, r) == [k \in DOMAIN c \cup {QueryKey(r)} |-> IF k = QueryKey(r) THEN r ELSE c[k]]

\* The probe's map is the initial data of the root view, unless one is cached.
Cached(c) ==
  cache' = LET r == Request(project', "map", probe'.level, Nothing)
           IN IF AtRoot' /\ probe'.map /\ QueryKey(r) \notin DOMAIN c THEN Put(c, r) ELSE c

\* A query that begins to be observed without an answer is sent, once per key.
Send(left) ==
  inflight' = left \cup {r \in {q \in Asked : ~Answered(q) /\ ~Error(q)}' :
                           \A s \in left : QueryKey(s) # QueryKey(r)}

\* What the layout effect depends on: the map's data, if there is any.
MapData == IF Answered(useGraphMap) THEN <<Data(useGraphMap)>> ELSE <<>>

Started == {[of |-> r, cancelled |-> FALSE] : r \in Range(MapData)}

\* Mutant of LayoutEffect: the effect without its cleanup.
LayoutEffectUncancelled ==
  /\ layouts' = IF MapData' = MapData THEN layouts ELSE layouts \cup Started'
  /\ unlaid' = (MapData' = MapData /\ unlaid)

\* The layout effect depends on the data alone: its cleanup cancels the running
\* layout, and data that is there starts another.
LayoutEffect ==
  /\ layouts' = IF MapData' = MapData THEN layouts
                ELSE {[l EXCEPT !.cancelled = TRUE] : l \in layouts} \cup Started'
  /\ unlaid' = (MapData' = MapData /\ unlaid)

EmptyBox == [input |-> Nothing, query |-> Nothing, pending |-> FALSE]

\* Components that are no longer on the page lose what they held.
Render(left, typed, opened) ==
  /\ box' = IF Screen' = "map" THEN typed ELSE EmptyBox
  /\ open' = opened \cap Mounted'
  /\ Send(left)
  /\ LayoutEffect

-----------------------------------------------------------------------------
Init ==
  /\ project = Nothing /\ probe = Nothing /\ history = <<>>
  /\ state = ViewOf("package", Nothing)
  /\ cache = <<>> /\ inflight = {} /\ failed = {}
  /\ online = TRUE /\ carried = {}
  /\ canvas = <<>> /\ layouts = {} /\ unlaid = FALSE
  /\ box = EmptyBox /\ open = {}
  /\ spent = [moves |-> 0, faults |-> 0]

\* The coarsest tier with nodes; a failure leaves the tier it happened at and
\* no map; an empty graph is an empty package map.
resolveInitialMap(p) ==
  LET Tier(l) == MapNodes(Request(p, "map", l, Nothing)) # {}
      found == IF ~Tier("package") /\ Tier("file") THEN "file" ELSE "package"
  IN {[level |-> found, map |-> TRUE], [level |-> "package", map |-> FALSE]}
       \cup (IF Tier("package") THEN {} ELSE {[level |-> "file", map |-> FALSE]})

Counted(n) == spent' = [spent EXCEPT !.moves = @ + n]

\* A page is opened: everything but the query cache starts afresh.
OpenProject(p, u) ==
  /\ p # project
  /\ spent.moves < MaxMoves
  /\ Counted(1)
  /\ project' = p
  /\ probe' \in resolveInitialMap(p)
  /\ history' = <<u>> /\ state' = Parse(u)
  /\ failed' = {}
  /\ UNCHANGED link
  /\ canvas' = <<>> /\ box' = EmptyBox /\ open' = {}
  /\ Cached(cache)
  /\ Send(inflight)
  /\ layouts' = Started' /\ unlaid' = FALSE

\* An address is shown.  Errors of queries that are observed throughout stay;
\* the others are asked again.
Show(addresses, typed) ==
  /\ history' = addresses /\ state' = Parse(Last(addresses))
  /\ UNCHANGED <<project, probe, link, canvas>>
  /\ Cached(cache)
  /\ failed' = failed \cap ({QueryKey(r) : r \in {useGraphMap, useScopeTrail, useGraphBlastRadius}}'
                 \cup (IF Screen = "map" /\ Drawable' /\ state.node' = state.node
                         THEN {QueryKey(useGraphNode)} ELSE {}))
  /\ Render(inflight, typed, open)

setState(view) ==
  /\ spent.moves < MaxMoves
  /\ Counted(1)
  /\ Show(Append(history, Params(view)), box)

Back ==
  /\ Len(history) > 1
  /\ Counted(0)
  /\ Show(Front(history), box)

\* Down one tier, scoped to the node; Nothing at the deepest.
drillTarget(level, n) ==
  CASE level = "package" -> ViewOf("file", n)
    [] level = "file"    -> ViewOf("symbol", n)
    [] OTHER             -> Nothing

\* A click reads the level of the address and the node of the drawing.
onNodeClick(n) ==
  /\ Screen = "map" /\ n \in Drawn
  /\ setState(IF drillTarget(Level, n) # Nothing THEN drillTarget(Level, n)
              ELSE [state EXCEPT !.node = n])

\* The level switch: symbols are offered when the view has a scope.
Offered(next) == next = "symbol" => Scope # Nothing

onSelectLevel(next) ==
  /\ Screen = "map" /\ Offered(next)
  /\ setState(ViewOf(next, IF next = "symbol" THEN Scope ELSE Nothing))

\* Every crumb but the current one is a link.
onNavigate(crumb) ==
  /\ Screen = "map"
  /\ crumb # IF Scope = Nothing THEN ViewOf("package", Nothing) ELSE ViewOf(Level, Scope)
  /\ setState(crumb)

onToggleBlast == Panel # "closed" /\ setState([state EXCEPT !.blast = ~@])
onClose       == Panel # "closed" /\ setState([state EXCEPT !.node = Nothing, !.blast = FALSE])

-----------------------------------------------------------------------------
(* The search box, the disclosures, the answers and the layouts. *)

Still == UNCHANGED <<project, probe, history, state, cache, link, canvas, spent>>

\* Every keystroke restarts the timer; the query follows when it fires.
Type(t) ==
  /\ Screen = "map" /\ box.input # t
  /\ Still
  /\ failed' = failed
  /\ Render(inflight, [box EXCEPT !.input = t, !.pending = TRUE], open)

Debounced ==
  /\ box.pending
  /\ Still
  /\ failed' = failed \ {QueryKey(useGraphSearch)}
  /\ Render(inflight, [box EXCEPT !.query = box.input, !.pending = FALSE], open)

Results == IF box.query # Nothing /\ Answered(useGraphSearch)
             THEN Matches[Data(useGraphSearch).args[1]] \cap Ids(Data(useGraphSearch).project)
             ELSE {}

\* A container scopes the map to itself, anything else is selected in place.
searchJumpState(n) ==
  CASE KindOf(project, n) = "package" -> ViewOf("file", n)
    [] KindOf(project, n) = "file"    -> ViewOf("symbol", n)
    [] OTHER -> [state EXCEPT !.node = n]

\* A result is chosen: the box empties, and its timer runs once more.
Choose(n) ==
  /\ Screen = "map" /\ n \in Results
  /\ spent.moves < MaxMoves
  /\ Counted(1)
  /\ Show(Append(history, Params(searchJumpState(n))), [EmptyBox EXCEPT !.pending = TRUE])

\* Disclosures: members open once, call sites toggle.
ToggleDisclosure(d) ==
  /\ d \in Mounted /\ (d = "members" => d \notin open)
  /\ Still
  /\ failed' = failed \ {QueryKey(useGraphDeclarations), QueryKey(useGraphCallBindings(d))}
  /\ Render(inflight, box, IF d \in open THEN open \ {d} ELSE open \cup {d})

Address == <<project, probe, history, state>>
Faulty  == spent.faults < MaxFaults /\ spent' = [spent EXCEPT !.faults = @ + 1]
Landed(r) == online' = online /\ carried' = carried \ {r}

Answer(r) ==
  /\ r \in inflight /\ ~Paused(r)
  /\ UNCHANGED <<Address, canvas, spent>>
  /\ Landed(r)
  /\ Cached(Put(cache, r))
  /\ failed' = failed \ {QueryKey(r)}
  /\ Render(inflight \ {r}, box, open)

\* A request and its one retry fail: an observer shows the error.
Fail(r) ==
  /\ r \in inflight /\ ~Paused(r) /\ r.ask \in Failing
  /\ Faulty
  /\ UNCHANGED <<Address, canvas>>
  /\ Landed(r)
  /\ failed' = IF r \in Asked THEN failed \cup {QueryKey(r)} ELSE failed
  /\ cache' = cache
  /\ Render(inflight \ {r}, box, open)

\* The browser loses its network: requests under way may still be answered.
GoOffline ==
  /\ online
  /\ Faulty
  /\ online' = FALSE /\ carried' = inflight
  /\ UNCHANGED <<Address, cache, inflight, failed, canvas, layouts, unlaid, box, open>>

\* One of them fails instead, and its retry waits for the network.
Pause(r) ==
  /\ ~online /\ r \in carried
  /\ UNCHANGED <<Address, cache, failed, canvas, spent>>
  /\ Landed(r)
  /\ Render(inflight, box, open)

\* The network is back: what is paused is sent, what failed is asked again.
GoOnline ==
  /\ ~online
  /\ UNCHANGED <<Address, cache, canvas, spent>>
  /\ online' = TRUE /\ carried' = {}
  /\ failed' = {}
  /\ Render(inflight, box, open)

\* A layout ends: a cancelled one is dropped, the other becomes the drawing.
LayoutDone(l) ==
  /\ l \in layouts
  /\ layouts' = layouts \ {l}
  /\ canvas' = IF l.cancelled THEN canvas ELSE <<l.of>>
  /\ UNCHANGED <<Address, cache, inflight, failed, link, unlaid, box, open, spent>>

\* Or elk rejects, which nothing catches: the drawing stays what it was.
LayoutFails(l) ==
  /\ l \in layouts
  /\ Faulty
  /\ layouts' = layouts \ {l}
  /\ unlaid' = (unlaid \/ ~l.cancelled)
  /\ UNCHANGED <<Address, cache, inflight, failed, link, canvas, box, open>>

Next ==
  \/ /\ Cardinality(inflight) < MaxWaiting
     /\ \E p \in Projects, u \in Urls : OpenProject(p, u)
  \/ /\ project # Nothing /\ Cardinality(inflight) < MaxWaiting
     /\ \/ Back
        \/ \E n \in Drawn : onNodeClick(n)
        \/ \E l \in {"package", "file", "symbol"} : onSelectLevel(l)
        \/ \E c \in Crumbs : onNavigate(c)
        \/ onToggleBlast
        \/ onClose
        \/ inflight = {} /\ \E t \in Texts : Type(t)
        \/ \E n \in Results : Choose(n)
        \/ \E d \in Mounted : ToggleDisclosure(d)
  \/ /\ project # Nothing
     /\ \/ Debounced
        \/ \E r \in inflight : Answer(r)
        \/ \E r \in inflight : Fail(r)
        \/ \E r \in carried : Pause(r)
        \/ GoOffline
        \/ GoOnline
        \/ \E l \in layouts : LayoutDone(l)
        \/ \E l \in layouts : LayoutFails(l)

Spec == Init /\ [][Next]_vars

-----------------------------------------------------------------------------
(* Properties. *)

\* A canvas draws maps of the open project only; and once the map of its
\* address has come and been laid out, it draws that map and the overlay of the
\* selected node, whatever the order in which the answers, failures, outages and
\* layouts of the views before it came (graph-explorer.tsx:187, the effect and
\* its cleanup).
SettledCanvasShowsView ==
  project # Nothing /\ Screen = "map" =>
    /\ \A of \in Range(canvas) : of.project = project
    /\ Answered(useGraphMap) /\ ~unlaid /\ (\A l \in layouts : l.cancelled) =>
         /\ canvas # <<>>
         /\ DrawingOf(canvas[1], Impacted) =
              DrawingOf(useGraphMap, IF BlastActive /\ Answered(useGraphBlastRadius)
                                       THEN Impact(useGraphBlastRadius) ELSE <<>>)

\* Whatever the page shows answers what its address, its panel and its box ask
\* now, of the project it is open on: the late answer and the cached answer of
\* another view, node or project are never taken for it
\* (use-graph-queries.ts:26).
ShownIsAsked ==
  project # Nothing =>
    /\ \A r \in Asked : Answered(r) => Data(r).ask = r.ask /\ Data(r).args = r.args
    /\ Answered(useGraphMap) => MapNodes(Data(useGraphMap)) = MapNodes(useGraphMap)
    /\ Panel = "shown" => PanelRows(Data(useGraphNode)) = PanelRows(useGraphNode)
    /\ BlastSection = "rows" => Impacted = Impact(useGraphBlastRadius)
    /\ "members" \in open /\ Answered(useGraphDeclarations) =>
         Members(Data(useGraphDeclarations)) = Members(useGraphDeclarations)
=============================================================================
