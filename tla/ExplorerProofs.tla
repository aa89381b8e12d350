--------------------------- MODULE ExplorerProofs ---------------------------
(***************************************************************************)
(* Theorems about Explorer, for any projects, addresses and bounds; and    *)
(* about SymbolId, the codec of the ids its requests, like everything      *)
(* else, name symbols by: for any characters and any identities.           *)
(***************************************************************************)
EXTENDS Explorer, SymbolId, SequenceTheorems, WellFoundedInduction, TLAPS

IsRequest(r) == r = Request(r.project, r.ask, r.args[1], r.args[2])

\* An answer is kept under the key of its own request, which is why the data of
\* a query can be taken for its answer.
CacheOf(c) == \A k \in DOMAIN c : IsRequest(c[k]) /\ QueryKey(c[k]) = k

CacheInv == CacheOf(cache) /\ \A r \in inflight : IsRequest(r)

\* The running layouts that count, and the drawing when there are none and none
\* failed, are of the map the address asks for, once it is there; all are of the
\* open project.
DrawInv ==
  /\ \A l \in layouts : {"of", "cancelled"} \subseteq DOMAIN l /\ l.of.project = project
  /\ canvas = <<>> \/ \E of : canvas = <<of>> /\ of.project = project
  /\ Answered(useGraphMap) =>
       /\ \A l \in layouts : ~l.cancelled => l.of = useGraphMap
       /\ ~unlaid /\ (\A l \in layouts : l.cancelled) => canvas = <<useGraphMap>>

IInv == CacheInv /\ DrawInv

-----------------------------------------------------------------------------
(* Requests and the cache. *)

LEMMA Requests ==
  ASSUME NEW p, NEW ask, NEW a, NEW b
  PROVE  IsRequest(Request(p, ask, a, b))
BY DEF IsRequest, Request

\* The key of a request says all of it.
LEMMA KeysTell ==
  ASSUME NEW r, NEW s, IsRequest(r), IsRequest(s), QueryKey(r) = QueryKey(s)
  PROVE  r = s
<1>1. r.project = s.project /\ r.ask = s.ask /\ r.args = s.args
  BY DEF QueryKey
<1> QED
  BY <1>1 DEF IsRequest

LEMMA AnswerIsOwn ==
  ASSUME NEW c, CacheOf(c), NEW r, IsRequest(r), QueryKey(r) \in DOMAIN c
  PROVE  c[QueryKey(r)] = r
<1>1. IsRequest(c[QueryKey(r)]) /\ QueryKey(c[QueryKey(r)]) = QueryKey(r)
  BY DEF CacheOf
<1> QED
  BY <1>1, KeysTell

LEMMA AskedAreRequests == \A r \in Asked : IsRequest(r)
<1>1. /\ IsRequest(useGraphMap) /\ IsRequest(useGraphNode) /\ IsRequest(useScopeTrail)
      /\ IsRequest(useGraphBlastRadius) /\ IsRequest(useGraphSearch)
      /\ IsRequest(useGraphDeclarations)
  BY Requests DEF useGraphMap, useGraphNode, useScopeTrail, useGraphBlastRadius,
                  useGraphSearch, useGraphDeclarations
<1>2. \A d : IsRequest(useGraphCallBindings(d))
  BY Requests DEF useGraphCallBindings
<1> QED
  BY <1>1, <1>2 DEF Asked

LEMMA PutKeeps ==
  ASSUME NEW c, CacheOf(c), NEW r, IsRequest(r)
  PROVE  CacheOf(Put(c, r))
<1>1. DOMAIN Put(c, r) = DOMAIN c \cup {QueryKey(r)}
  BY DEF Put
<1>2. \A k \in DOMAIN Put(c, r) : Put(c, r)[k] = IF k = QueryKey(r) THEN r ELSE c[k]
  BY DEF Put
<1> QED
  BY <1>1, <1>2 DEF CacheOf

LEMMA CachedKeeps ==
  ASSUME NEW c, CacheOf(c), Cached(c)
  PROVE  CacheOf(cache')
<1> DEFINE r == Request(project', "map", probe'.level, Nothing)
<1>1. cache' = c \/ cache' = Put(c, r)
  BY DEF Cached
<1>2. CacheOf(Put(c, r))
  BY Requests, PutKeeps
<1> QED
  BY <1>1, <1>2

LEMMA SendKeeps ==
  ASSUME NEW left, \A r \in left : IsRequest(r), Send(left)
  PROVE  \A r \in inflight' : IsRequest(r)
<1>1. (\A r \in Asked : IsRequest(r))'
  BY AskedAreRequests, PTL
<1>2. inflight' \subseteq left \cup Asked'
  BY DEF Send
<1> QED
  BY <1>1, <1>2
-----------------------------------------------------------------------------
(* The drawing. *)

LEMMA MapAnswered == CacheInv /\ Answered(useGraphMap) => MapData = <<useGraphMap>>
<1>1. IsRequest(useGraphMap)
  BY Requests DEF useGraphMap
<1> QED
  BY <1>1, AnswerIsOwn DEF CacheInv, Answered, Data, MapData

\* A layout that is started is of the map the address asks for.
LEMMA StartedForView ==
  CacheInv => /\ \A l \in Started : l = [of |-> useGraphMap, cancelled |-> FALSE]
              /\ Answered(useGraphMap) => Started # {}
<1> SUFFICES ASSUME CacheInv
             PROVE  /\ \A l \in Started : l = [of |-> useGraphMap, cancelled |-> FALSE]
                    /\ Answered(useGraphMap) => Started # {}
  OBVIOUS
<1>1. CASE Answered(useGraphMap)
  <2>1. Range(MapData) = {useGraphMap}
    BY <1>1, MapAnswered DEF Range
  <2> QED
    BY <2>1 DEF Started
<1>2. CASE ~Answered(useGraphMap)
  <2>1. Range(MapData) = {}
    BY <1>2 DEF Range, MapData
  <2> QED
    BY <1>2, <2>1 DEF Started
<1> QED
  BY <1>1, <1>2

LEMMA StartDraws ==
  ASSUME CacheInv', \A l \in layouts : {"of", "cancelled"} \subseteq DOMAIN l,
         \/ layouts' = Started'
         \/ /\ layouts' = {[l EXCEPT !.cancelled = TRUE] : l \in layouts} \cup Started'
            /\ \A l \in layouts : l.of.project = project',
         canvas' = <<>> \/ \E of : canvas' = <<of>> /\ of.project = project'
  PROVE  DrawInv'
<1>1. (/\ \A l \in Started : l = [of |-> useGraphMap, cancelled |-> FALSE]
       /\ Answered(useGraphMap) => Started # {})'
  BY StartedForView, PTL
<1>2. \A l \in layouts : LET c == [l EXCEPT !.cancelled = TRUE]
                         IN  {"of", "cancelled"} \subseteq DOMAIN c /\ c.cancelled /\ c.of = l.of
  OBVIOUS
<1>3. useGraphMap'.project = project'
  BY DEF useGraphMap, Request
<1>4. \A l \in layouts' : \/ l = [of |-> useGraphMap', cancelled |-> FALSE]
                         \/ /\ {"of", "cancelled"} \subseteq DOMAIN l /\ l.cancelled
                            /\ l.of.project = project'
  BY <1>1, <1>2
<1>5. \A l \in layouts' : {"of", "cancelled"} \subseteq DOMAIN l /\ l.of.project = project'
  BY <1>3, <1>4
<1>6. Answered(useGraphMap)' =>
        /\ \A l \in layouts' : ~l.cancelled => l.of = useGraphMap'
        /\ ~ \A l \in layouts' : l.cancelled
  BY <1>1, <1>4
<1> QED
  BY <1>5, <1>6 DEF DrawInv

LEMMA EffectDraws ==
  ASSUME CacheInv, CacheInv', DrawInv, LayoutEffect, canvas' = canvas, project' = project
  PROVE  DrawInv'
<1>1. CASE MapData' = MapData
  <2>1. layouts' = layouts /\ (unlaid' <=> unlaid)
    BY <1>1 DEF LayoutEffect
  <2>2. CASE Answered(useGraphMap)'
    <3>1. (CacheInv /\ Answered(useGraphMap) => MapData = <<useGraphMap>>)'
      BY MapAnswered, PTL
    <3>2. Answered(useGraphMap)
      BY <1>1, <2>2, <3>1 DEF MapData
    <3>3. useGraphMap' = useGraphMap
      BY <1>1, <2>2, <3>1, <3>2, MapAnswered
    <3> QED
      BY <2>1, <3>2, <3>3 DEF DrawInv
  <2> QED
    BY <2>1, <2>2 DEF DrawInv
<1>2. CASE MapData' # MapData
  BY <1>2, StartDraws DEF LayoutEffect, DrawInv
<1> QED
  BY <1>1, <1>2

-----------------------------------------------------------------------------
(* The steps. *)

LEMMA RenderKeeps ==
  ASSUME IInv, NEW left, \A r \in left : IsRequest(r), NEW typed, NEW opened,
         Render(left, typed, opened), canvas' = canvas, project' = project, CacheOf(cache')
  PROVE  IInv'
<1>1. CacheInv'
  <2>1. \A r \in inflight' : IsRequest(r)
    BY SendKeeps DEF Render
  <2> QED
    BY <2>1 DEF CacheInv
<1>2. DrawInv'
  BY <1>1, EffectDraws DEF IInv, Render
<1> QED
  BY <1>1, <1>2 DEF IInv

LEMMA ShowKeeps ==
  ASSUME IInv, NEW addresses, NEW typed, Show(addresses, typed)
  PROVE  IInv'
<1>1. CacheOf(cache')
  BY CachedKeeps DEF Show, IInv, CacheInv
<1> QED
  BY <1>1, RenderKeeps DEF Show, IInv, CacheInv

LEMMA InitInv == Init => IInv
<1> SUFFICES ASSUME Init PROVE IInv
  OBVIOUS
<1>1. DOMAIN cache = {} /\ inflight = {} /\ layouts = {} /\ canvas = <<>>
  BY DEF Init
<1> QED
  BY <1>1 DEF IInv, CacheInv, CacheOf, DrawInv, Answered

LEMMA StepInv == IInv /\ [Next]_vars => IInv'
<1> SUFFICES ASSUME IInv, [Next]_vars PROVE IInv'
  OBVIOUS
<1>0. CacheOf(cache) /\ \A r \in inflight : IsRequest(r)
  BY DEF IInv, CacheInv
<1>1. ASSUME NEW p \in Projects, NEW u \in Urls, OpenProject(p, u) PROVE IInv'
  <2>1. CacheInv'
    BY <1>0, <1>1, CachedKeeps, SendKeeps DEF OpenProject, CacheInv
  <2>2. /\ \A l \in layouts : {"of", "cancelled"} \subseteq DOMAIN l
        /\ layouts' = Started' /\ canvas' = <<>>
    BY <1>1 DEF OpenProject, IInv, DrawInv
  <2> QED
    BY <2>1, <2>2, StartDraws DEF IInv
<1>2. ASSUME NEW addresses, NEW typed, Show(addresses, typed) PROVE IInv'
  BY <1>2, ShowKeeps
<1>3. ASSUME NEW view, setState(view) PROVE IInv'
  BY <1>3, <1>2 DEF setState
<1>4. CASE Back
  BY <1>4, <1>2 DEF Back
<1>5. ASSUME NEW n, onNodeClick(n) PROVE IInv'
  BY <1>5, <1>3 DEF onNodeClick
<1>6. ASSUME NEW l, onSelectLevel(l) PROVE IInv'
  BY <1>6, <1>3 DEF onSelectLevel
<1>7. ASSUME NEW c, onNavigate(c) PROVE IInv'
  BY <1>7, <1>3 DEF onNavigate
<1>8. CASE onToggleBlast \/ onClose
  BY <1>8, <1>3 DEF onToggleBlast, onClose
<1>9. ASSUME NEW t, Type(t) PROVE IInv'
  BY <1>0, <1>9, RenderKeeps DEF Type, Still
<1>10. ASSUME NEW n, Choose(n) PROVE IInv'
  BY <1>10, <1>2 DEF Choose
<1>11. ASSUME NEW d, ToggleDisclosure(d) PROVE IInv'
  BY <1>0, <1>11, RenderKeeps DEF ToggleDisclosure, Still
<1>12. CASE Debounced
  BY <1>0, <1>12, RenderKeeps DEF Debounced, Still
<1>13. ASSUME NEW r \in inflight, Answer(r) PROVE IInv'
  <2>1. CacheOf(cache')
    BY <1>0, <1>13, PutKeeps, CachedKeeps DEF Answer
  <2> QED
    BY <1>0, <1>13, <2>1, RenderKeeps DEF Answer, Address
<1>14. ASSUME NEW r, Fail(r) \/ Pause(r) \/ GoOnline PROVE IInv'
  BY <1>0, <1>14, RenderKeeps DEF Fail, Pause, GoOnline, Address
<1>15. ASSUME NEW l \in layouts, LayoutDone(l) \/ LayoutFails(l) PROVE IInv'
  <2>1. CacheInv' /\ useGraphMap' = useGraphMap /\ Answered(useGraphMap)' = Answered(useGraphMap)
    BY <1>15 DEF LayoutDone, LayoutFails, Address, IInv, CacheInv, CacheOf, useGraphMap, Answered,
                 Level, Scope, AtRoot
  <2>2. /\ project' = project /\ layouts' = layouts \ {l}
        /\ \/ canvas' = canvas /\ unlaid' = (unlaid \/ ~l.cancelled)
           \/ canvas' = canvas /\ unlaid' = unlaid /\ l.cancelled
           \/ canvas' = <<l.of>> /\ unlaid' = unlaid /\ ~l.cancelled
    BY <1>15 DEF LayoutDone, LayoutFails, Address
  <2>3. DrawInv'
    BY <2>1, <2>2 DEF IInv, DrawInv
  <2> QED
    BY <2>1, <2>3 DEF IInv
<1>16. CASE GoOffline \/ UNCHANGED vars
  BY <1>16 DEF GoOffline, Address, vars, IInv, CacheInv, CacheOf, DrawInv, useGraphMap, Answered,
               Level, Scope, AtRoot
<1> QED
  BY <1>1, <1>4, <1>5, <1>6, <1>7, <1>8, <1>9, <1>10, <1>11, <1>12, <1>13, <1>14, <1>15, <1>16
     DEF Next

-----------------------------------------------------------------------------
\* In whatever order addresses, answers, failures, outages and layouts come: a
\* canvas draws maps of the open project only, and when the map its address asks
\* for is there, laid out, it is what the page draws, with the overlay of its
\* selected node (graph-explorer.tsx:187).
THEOREM CanvasSettles == Spec => []SettledCanvasShowsView
<1>1. IInv => SettledCanvasShowsView
  <2>1. ASSUME IInv PROVE \A of \in Range(canvas) : of.project = project
    <3>1. CASE canvas = <<>>
      BY <3>1 DEF Range
    <3>2. ASSUME NEW of, canvas = <<of>>, of.project = project
          PROVE  \A d \in Range(canvas) : d.project = project
      BY <3>2 DEF Range
    <3> QED
      BY <2>1, <3>1, <3>2 DEF IInv, DrawInv
  <2>2. ASSUME IInv, Answered(useGraphMap), ~unlaid, \A l \in layouts : l.cancelled
        PROVE  /\ canvas # <<>>
               /\ DrawingOf(canvas[1], Impacted) =
                    DrawingOf(useGraphMap, IF BlastActive /\ Answered(useGraphBlastRadius)
                                             THEN Impact(useGraphBlastRadius) ELSE <<>>)
    <3>1. canvas = <<useGraphMap>>
      BY <2>2 DEF IInv, DrawInv
    <3>2. IsRequest(useGraphBlastRadius)
      BY Requests DEF useGraphBlastRadius
    <3>3. Answered(useGraphBlastRadius) => Data(useGraphBlastRadius) = useGraphBlastRadius
      BY <2>2, <3>2, AnswerIsOwn DEF IInv, CacheInv, Answered, Data
    <3>4. Impacted = IF BlastActive /\ Answered(useGraphBlastRadius)
                       THEN Impact(useGraphBlastRadius) ELSE <<>>
      BY <3>3 DEF Impacted
    <3> QED
      BY <3>1, <3>4
  <2> QED
    BY <2>1, <2>2 DEF SettledCanvasShowsView
<1> QED
  BY <1>1, InitInv, StepInv, PTL DEF Spec

\* Every answer on the page is the answer to what the page asks, of the project
\* it is open on: no late or cached answer of another view is taken for it
\* (use-graph-queries.ts:26).
THEOREM AnswersAreOwn == Spec => []ShownIsAsked
<1>1. IInv => ShownIsAsked
  <2> SUFFICES ASSUME IInv PROVE ShownIsAsked
    OBVIOUS
  <2>1. \A r : IsRequest(r) /\ Answered(r) => Data(r) = r
    BY AnswerIsOwn DEF IInv, CacheInv, Answered, Data
  <2>2. /\ IsRequest(useGraphMap) /\ IsRequest(useGraphNode) /\ IsRequest(useGraphDeclarations)
        /\ IsRequest(useGraphBlastRadius)
    BY Requests DEF useGraphMap, useGraphNode, useGraphDeclarations, useGraphBlastRadius
  <2>3. BlastSection = "rows" => Impacted = Impact(useGraphBlastRadius)
    <3>1. CASE BlastActive /\ Answered(useGraphBlastRadius)
      <4>1. Impacted = Impact(Data(useGraphBlastRadius))
        BY <3>1 DEF Impacted
      <4> QED
        BY <2>1, <2>2, <3>1, <4>1
    <3>2. CASE ~(BlastActive /\ Answered(useGraphBlastRadius))
      <4>1. Impacted = <<>>
        BY <3>2 DEF Impacted
      <4>2. DOMAIN Impacted = {}
        BY <4>1
      <4> QED
        BY <4>2 DEF BlastSection
    <3> QED
      BY <3>1, <3>2
  <2>4. Panel = "shown" => Answered(useGraphNode)
    BY DEF Panel
  <2> QED
    BY <2>1, <2>2, <2>3, <2>4, AskedAreRequests DEF ShownIsAsked
<1> QED
  BY <1>1, InitInv, StepInv, PTL DEF Spec

-----------------------------------------------------------------------------
(* Recursion on the naturals: a loop takes one turn after the other.       *)

Less == {p \in Nat \X Nat : p[1] < p[2]}

\* Induction on the naturals, for a set.
LEMMA Induction ==
  ASSUME NEW S \in SUBSET Nat, 0 \in S, \A n \in S : n + 1 \in S
  PROVE  S = Nat
<1> SUFFICES ASSUME Nat \ S # {} PROVE FALSE
  OBVIOUS
<1>1. IsWellFoundedOn(Less, Nat)
  <2>1. Less = OpToRel(<, Nat)
    BY DEF Less, OpToRel
  <2> QED
    BY <2>1, NatLessThanWellFounded
<1>2. PICK x \in Nat \ S : \A y \in Nat \ S : ~(<<y, x>> \in Less)
  BY <1>1, WFMin
<1>3. \A y \in Nat \ S : ~(y < x)
  BY <1>2 DEF Less
<1>4. x # 0 /\ x - 1 \in Nat
  OBVIOUS
<1>5. x - 1 \in S
  BY <1>3, <1>4
<1> QED
  BY <1>4, <1>5

\* The first n turns from a start.
Turns(turn, start, n, f) ==
  /\ f[0] = start
  /\ \A k \in 0 .. n - 1 : f[k + 1] = turn[f[k]]

LEMMA TurnsExist ==
  ASSUME NEW turn, NEW start, NEW n \in Nat
  PROVE  \E f : Turns(turn, start, n, f)
<1> DEFINE taken == {m \in Nat : \E f : Turns(turn, start, m, f)}
<1>1. 0 \in taken
  <2> DEFINE f == [k \in 0 .. 0 |-> start]
  <2>1. Turns(turn, start, 0, f)
    BY DEF Turns
  <2> QED
    BY <2>1
<1>2. ASSUME NEW m \in taken PROVE m + 1 \in taken
  <2>1. m \in Nat /\ m + 1 \in Nat
    OBVIOUS
  <2>2. PICK f : Turns(turn, start, m, f)
    OBVIOUS
  <2> DEFINE h == [k \in 0 .. m + 1 |-> IF k <= m THEN f[k] ELSE turn[f[m]]]
  <2>3. h[0] = start
    BY <2>1, <2>2 DEF Turns
  <2>4. \A k \in 0 .. m : h[k + 1] = turn[h[k]]
    <3> TAKE k \in 0 .. m
    <3>1. k \in Nat /\ k <= m /\ h[k] = f[k]
      BY <2>1
    <3>2. CASE k = m
      <4>1. k + 1 \in 0 .. m + 1 /\ ~(k + 1 <= m)
        BY <2>1, <3>2
      <4> QED
        BY <3>1, <3>2, <4>1
    <3>3. CASE k # m
      <4>1. k + 1 \in 0 .. m + 1 /\ k + 1 <= m /\ k \in 0 .. m - 1
        BY <2>1, <3>1, <3>3
      <4> QED
        BY <2>2, <3>1, <4>1 DEF Turns
    <3> QED
      BY <3>2, <3>3
  <2> HIDE DEF h
  <2>5. (m + 1) - 1 = m
    BY <2>1
  <2>6. Turns(turn, start, m + 1, h)
    BY <2>3, <2>4, <2>5 DEF Turns
  <2> QED
    BY <2>1, <2>6
<1>3. taken = Nat
  BY <1>1, <1>2, Induction
<1> QED
  BY <1>3

LEMMA TurnsAgree ==
  ASSUME NEW turn, NEW start, NEW m \in Nat, NEW n \in Nat, NEW f, NEW h,
         Turns(turn, start, m, f), Turns(turn, start, n, h)
  PROVE  \A k \in Nat : k <= m /\ k <= n => f[k] = h[k]
<1> DEFINE same == {k \in Nat : k <= m /\ k <= n => f[k] = h[k]}
<1>1. 0 \in same
  BY DEF Turns
<1>2. ASSUME NEW k \in same PROVE k + 1 \in same
  <2> SUFFICES ASSUME k + 1 <= m, k + 1 <= n PROVE f[k + 1] = h[k + 1]
    OBVIOUS
  <2>1. k \in Nat /\ k \in 0 .. m - 1 /\ k \in 0 .. n - 1
    OBVIOUS
  <2>2. f[k] = h[k]
    BY <2>1
  <2>3. f[k + 1] = turn[f[k]] /\ h[k + 1] = turn[h[k]]
    BY <2>1 DEF Turns
  <2> QED
    BY <2>2, <2>3
<1>3. same = Nat
  BY <1>1, <1>2, Induction
<1> QED
  BY <1>3

\* A loop of n + 1 turns is one of n turns and a turn.
LEMMA LoopUnfolds ==
  ASSUME NEW turn, NEW start
  PROVE  /\ Loop(turn, start, 0) = start
         /\ \A n \in Nat : Loop(turn, start, n + 1) = turn[Loop(turn, start, n)]
<1> DEFINE Unfolds(f) == f = [k \in Nat |-> IF k = 0 THEN start ELSE turn[f[k - 1]]]
           pick == [n \in Nat |-> CHOOSE f : Turns(turn, start, n, f)]
           whole == [n \in Nat |-> pick[n][n]]
           run == CHOOSE f : Unfolds(f)
<1>1. \A n \in Nat : Turns(turn, start, n, pick[n])
  BY TurnsExist
<1> HIDE DEF pick
<1>2. whole[0] = start
  BY <1>1 DEF Turns
<1>3. \A n \in Nat : whole[n + 1] = turn[whole[n]]
  <2> TAKE n \in Nat
  <2>1. n + 1 \in Nat /\ n <= n + 1 /\ n \in 0 .. (n + 1) - 1
    OBVIOUS
  <2>2. whole[n + 1] = pick[n + 1][n + 1] /\ whole[n] = pick[n][n]
    BY <2>1
  <2>3. pick[n][n] = pick[n + 1][n]
    <3>1. Turns(turn, start, n, pick[n]) /\ Turns(turn, start, n + 1, pick[n + 1])
      BY <1>1, <2>1
    <3>2. \A f, h : Turns(turn, start, n, f) /\ Turns(turn, start, n + 1, h)
                    => \A k \in Nat : k <= n /\ k <= n + 1 => f[k] = h[k]
      <4> SUFFICES ASSUME NEW f, NEW h, Turns(turn, start, n, f), Turns(turn, start, n + 1, h)
                   PROVE  \A k \in Nat : k <= n /\ k <= n + 1 => f[k] = h[k]
        OBVIOUS
      <4> HIDE DEF whole, run, Unfolds
      <4>1. n + 1 \in Nat
        BY <2>1
      <4> QED
        BY <4>1, TurnsAgree
    <3> QED
      BY <3>1, <3>2, <2>1
  <2>4. pick[n + 1][n + 1] = turn[pick[n + 1][n]]
    BY <1>1, <2>1 DEF Turns
  <2> QED
    BY <2>2, <2>3, <2>4
<1>4. Unfolds(whole)
  <2> DEFINE other == [k \in Nat |-> IF k = 0 THEN start ELSE turn[whole[k - 1]]]
  <2>1. \A k \in Nat : whole[k] = other[k]
    <3> TAKE k \in Nat
    <3>1. CASE k = 0
      BY <1>2, <3>1
    <3>2. CASE k # 0
      <4>1. k - 1 \in Nat /\ (k - 1) + 1 = k
        BY <3>2
      <4>2. whole[k] = turn[whole[k - 1]]
        BY <1>3, <4>1
      <4> QED
        BY <3>2, <4>2
    <3> QED
      BY <3>1, <3>2
  <2>2. whole = [k \in Nat |-> whole[k]] /\ other = [k \in Nat |-> other[k]]
    OBVIOUS
  <2> HIDE DEF whole, other
  <2>3. whole = other
    BY <2>1, <2>2
  <2> QED
    BY <2>3 DEF other
<1>5. Unfolds(run)
  BY <1>4
<1>6. \A n : Loop(turn, start, n) = run[n]
  BY DEF Loop
<1> HIDE DEF run, whole
<1>7. run[0] = start
  BY <1>5
<1>8. \A n \in Nat : run[n + 1] = turn[run[n]]
  <2> TAKE n \in Nat
  <2>1. n + 1 \in Nat /\ n + 1 # 0 /\ (n + 1) - 1 = n
    OBVIOUS
  <2> QED
    BY <1>5, <2>1
<1> QED
  BY <1>6, <1>7, <1>8

LEMMA LoopOn ==
  ASSUME NEW turn, NEW start, NEW m \in Nat, NEW n \in Nat
  PROVE  Loop(turn, start, m + n) = Loop(turn, Loop(turn, start, m), n)
<1> DEFINE middle == Loop(turn, start, m)
           S == {k \in Nat : Loop(turn, start, m + k) = Loop(turn, middle, k)}
<1>1. /\ Loop(turn, middle, 0) = middle
      /\ \A k \in Nat : Loop(turn, middle, k + 1) = turn[Loop(turn, middle, k)]
      /\ \A k \in Nat : Loop(turn, start, k + 1) = turn[Loop(turn, start, k)]
  BY LoopUnfolds
<1>2. 0 \in S
  BY <1>1
<1>3. ASSUME NEW k \in S PROVE k + 1 \in S
  <2>1. k \in Nat /\ m + k \in Nat /\ m + (k + 1) = (m + k) + 1
    OBVIOUS
  <2>2. Loop(turn, start, m + (k + 1)) = turn[Loop(turn, start, m + k)]
    BY <1>1, <2>1
  <2> QED
    BY <1>1, <2>1, <2>2
<1> HIDE DEF middle
<1>4. S = Nat
  BY <1>2, <1>3, Induction
<1> QED
  BY <1>4 DEF middle

LEMMA LoopRests ==
  ASSUME NEW turn, NEW start, turn[start] = start, NEW n \in Nat
  PROVE  Loop(turn, start, n) = start
<1> DEFINE S == {k \in Nat : Loop(turn, start, k) = start}
<1>1. 0 \in S
  BY LoopUnfolds
<1>2. ASSUME NEW k \in S PROVE k + 1 \in S
  BY LoopUnfolds
<1>3. S = Nat
  BY <1>1, <1>2, Induction
<1> QED
  BY <1>3

\* From a the turns lead to b, each at the cost of a character at least.
Runs(turn, a, b) ==
  /\ Len(a.rest) \in Nat /\ Len(b.rest) \in Nat
  /\ \E m \in Nat : Loop(turn, a, m) = b /\ m + Len(b.rest) <= Len(a.rest)

LEMMA RunsNowhere ==
  ASSUME NEW turn, NEW a, Len(a.rest) \in Nat
  PROVE  Runs(turn, a, a)
<1>1. Loop(turn, a, 0) = a /\ 0 \in Nat /\ 0 + Len(a.rest) <= Len(a.rest)
  BY LoopUnfolds
<1> QED
  BY <1>1 DEF Runs

LEMMA RunsOnce ==
  ASSUME NEW turn, NEW a, NEW b, turn[a] = b,
         Len(a.rest) \in Nat, Len(b.rest) \in Nat, Len(b.rest) < Len(a.rest)
  PROVE  Runs(turn, a, b)
<1>1. Loop(turn, a, 0 + 1) = b
  <2>1. Loop(turn, a, 0) = a /\ \A n \in Nat : Loop(turn, a, n + 1) = turn[Loop(turn, a, n)]
    BY LoopUnfolds
  <2>2. 0 \in Nat
    OBVIOUS
  <2>3. Loop(turn, a, 0 + 1) = turn[Loop(turn, a, 0)]
    BY <2>1, <2>2, Zenon
  <2> QED
    BY <2>1, <2>3, Zenon
<1>2. 0 + 1 \in Nat /\ (0 + 1) + Len(b.rest) <= Len(a.rest)
  OBVIOUS
<1> QED
  BY <1>1, <1>2 DEF Runs

\* Runs compose.
LEMMA RunsOn ==
  ASSUME NEW turn, NEW a, NEW b, NEW c, Runs(turn, a, b), Runs(turn, b, c)
  PROVE  Runs(turn, a, c)
<1>1. PICK m \in Nat : Loop(turn, a, m) = b /\ m + Len(b.rest) <= Len(a.rest)
  BY DEF Runs
<1>2. PICK n \in Nat : Loop(turn, b, n) = c /\ n + Len(c.rest) <= Len(b.rest)
  BY DEF Runs
<1>3. Len(a.rest) \in Nat /\ Len(b.rest) \in Nat /\ Len(c.rest) \in Nat
  BY DEF Runs
<1>4. m + n \in Nat /\ (m + n) + Len(c.rest) <= Len(a.rest)
  <2> DEFINE x == Len(a.rest)
             y == Len(b.rest)
             z == Len(c.rest)
  <2>1. x \in Nat /\ y \in Nat /\ z \in Nat /\ m + y <= x /\ n + z <= y
    BY <1>1, <1>2, <1>3
  <2> HIDE DEF x, y, z
  <2>2. m + n \in Nat /\ (m + n) + z <= x
    BY <2>1
  <2> QED
    BY <2>2 DEF x, z
<1>5. Loop(turn, a, m + n) = c
  BY <1>1, <1>2, LoopOn
<1> QED
  BY <1>3, <1>4, <1>5 DEF Runs

\* So a loop that makes as many turns as there are characters is over when
\* the turns have led where nothing turns any more.
LEMMA LoopEnds ==
  ASSUME NEW turn, NEW a, NEW b, Runs(turn, a, b), turn[b] = b
  PROVE  Loop(turn, a, Len(a.rest)) = b
<1>1. PICK m \in Nat : Loop(turn, a, m) = b /\ m + Len(b.rest) <= Len(a.rest)
  BY DEF Runs
<1> DEFINE n == Len(a.rest) - m
<1>2. n \in Nat /\ m + n = Len(a.rest)
  BY <1>1 DEF Runs
<1> HIDE DEF n
<1>3. Loop(turn, a, m + n) = Loop(turn, b, n)
  BY <1>1, <1>2, LoopOn
<1>4. Loop(turn, b, n) = b
  BY <1>2, LoopRests
<1> QED
  BY <1>2, <1>3, <1>4

-----------------------------------------------------------------------------
(* Texts, taken apart at their heads.                                      *)

LEMMA HeadOf ==
  ASSUME NEW S, NEW c \in S, NEW t \in Seq(S)
  PROVE  /\ <<c>> \o t \in Seq(S) /\ <<c>> \o t # <<>> /\ Len(<<c>> \o t) = Len(t) + 1
         /\ Head(<<c>> \o t) = c /\ Tail(<<c>> \o t) = t
         /\ Len(t) \in Nat
<1> DEFINE s == <<c>> \o t
<1>1. <<c>> \in Seq(S) /\ Len(<<c>>) = 1 /\ Len(t) \in Nat
  OBVIOUS
<1>2. /\ s \in Seq(S) /\ Len(s) = 1 + Len(t)
      /\ \A i \in 1 .. 1 + Len(t) : s[i] = IF i <= 1 THEN <<c>>[i] ELSE t[i - 1]
  BY <1>1, ConcatProperties
<1> HIDE DEF s
<1>3. s # <<>> /\ s[1] = c
  BY <1>1, <1>2
<1>4. Head(s) = c
  BY <1>3
<1>5. /\ Tail(s) \in Seq(S) /\ Len(Tail(s)) = Len(t)
      /\ \A i \in 1 .. Len(Tail(s)) : Tail(s)[i] = s[i + 1]
  BY <1>1, <1>2, <1>3, HeadTailProperties
<1>6. \A i \in 1 .. Len(Tail(s)) : Tail(s)[i] = t[i]
  BY <1>1, <1>2, <1>5
<1>7. Tail(s) = t
  BY <1>5, <1>6, SeqEqual
<1> QED
  BY <1>1, <1>2, <1>3, <1>4, <1>7 DEF s

LEMMA Decomposed ==
  ASSUME NEW S, NEW s \in Seq(S), s # <<>>
  PROVE  Head(s) \in S /\ Tail(s) \in Seq(S) /\ s = <<Head(s)>> \o Tail(s)
<1>1. Head(s) \in S /\ Tail(s) \in Seq(S) /\ Len(Tail(s)) = Len(s) - 1
      /\ \A i \in 1 .. Len(Tail(s)) : Tail(s)[i] = s[i + 1]
  BY HeadTailProperties
<1> DEFINE h == Head(s)
           t == Tail(s)
<1>2. h = s[1] /\ Len(s) \in Nat /\ Len(s) # 0
  OBVIOUS
<1>3. <<h>> \in Seq(S) /\ Len(<<h>>) = 1 /\ <<h>>[1] = h
  BY <1>1
<1>4. /\ <<h>> \o t \in Seq(S) /\ Len(<<h>> \o t) = 1 + Len(t)
      /\ \A i \in 1 .. 1 + Len(t) : (<<h>> \o t)[i] = IF i <= 1 THEN <<h>>[i] ELSE t[i - 1]
  BY <1>1, <1>3, ConcatProperties
<1>5. \A i \in 1 .. Len(s) : (<<h>> \o t)[i] = s[i]
  BY <1>1, <1>2, <1>3, <1>4
<1>6. Len(<<h>> \o t) = Len(s)
  BY <1>1, <1>2, <1>4
<1> HIDE DEF h, t
<1>7. <<h>> \o t = s
  BY <1>4, <1>5, <1>6, SeqEqual
<1> QED
  BY <1>1, <1>7 DEF h, t

\* Induction on a text from its end, for a set of texts.
LEMMA SeqInduction ==
  ASSUME NEW S, NEW T \in SUBSET Seq(S), <<>> \in T,
         \A c \in S, t \in T : <<c>> \o t \in T
  PROVE  T = Seq(S)
<1> DEFINE N == {n \in Nat : \A t \in Seq(S) : Len(t) = n => t \in T}
<1>1. 0 \in N
  <2>1. \A t \in Seq(S) : Len(t) = 0 => t = <<>>
    OBVIOUS
  <2> QED
    BY <2>1
<1>2. ASSUME NEW n \in N PROVE n + 1 \in N
  <2> SUFFICES ASSUME NEW t \in Seq(S), Len(t) = n + 1 PROVE t \in T
    OBVIOUS
  <2>1. n \in Nat /\ t # <<>>
    OBVIOUS
  <2>2. Head(t) \in S /\ Tail(t) \in Seq(S) /\ t = <<Head(t)>> \o Tail(t)
    BY <2>1, Decomposed
  <2>3. Len(Tail(t)) = n
    BY <2>1, <2>2, HeadTailProperties
  <2> QED
    BY <2>2, <2>3
<1>3. N = Nat
  BY <1>1, <1>2, Induction
<1>4. \A t \in Seq(S) : Len(t) \in Nat
  OBVIOUS
<1> QED
  BY <1>3, <1>4

\* A text that goes on after its first character, or its first two.
LEMMA Onwards ==
  ASSUME NEW S, NEW c \in S, NEW t \in Seq(S), NEW r \in Seq(S)
  PROVE  (<<c>> \o t) \o r = <<c>> \o (t \o r) /\ t \o r \in Seq(S)
<1>1. <<c>> \in Seq(S)
  OBVIOUS
<1> QED
  BY <1>1, ConcatAssociative, ConcatProperties

LEMMA DropOne ==
  ASSUME NEW S, NEW c \in S, NEW t \in Seq(S)
  PROVE  Drop(<<c>> \o t, 1) = t
<1> DEFINE s == <<c>> \o t
<1>1. s \in Seq(S) /\ s # <<>> /\ Tail(s) = t
  BY HeadOf
<1> HIDE DEF s
<1>2. Tail(s) = SubSeq(s, 2, Len(s))
  BY <1>1, TailIsSubSeq
<1> QED
  BY <1>1, <1>2 DEF Drop, s

LEMMA DropTwo ==
  ASSUME NEW S, NEW c \in S, NEW d \in S, NEW t \in Seq(S)
  PROVE  Drop(<<c>> \o (<<d>> \o t), 2) = t
<1> DEFINE u == <<d>> \o t
           s == <<c>> \o u
           q == SubSeq(s, 3, Len(s))
<1>1. u \in Seq(S) /\ u # <<>> /\ Tail(u) = t /\ Len(u) = Len(t) + 1 /\ Len(t) \in Nat
  BY HeadOf
<1> HIDE DEF u
<1>2. s \in Seq(S) /\ s # <<>> /\ Tail(s) = u /\ Len(s) = Len(u) + 1
  BY <1>1, HeadOf
<1> HIDE DEF s
<1>3. \A i \in 1 .. Len(u) : u[i] = s[i + 1]
  BY <1>2, HeadTailProperties
<1>4. \A i \in 1 .. Len(t) : t[i] = u[i + 1]
  BY <1>1, HeadTailProperties
<1>5. Len(s) = Len(t) + 2
  BY <1>1, <1>2
<1>6. /\ q \in Seq(S) /\ Len(q) = Len(t)
      /\ \A i \in 1 .. Len(t) : q[i] = s[3 + i - 1]
  <2>1. 3 \in Int /\ Len(s) \in Int /\ \A i \in 3 .. Len(s) : s[i] \in S
    BY <1>1, <1>2, <1>5
  <2>2. /\ q \in Seq(S) /\ Len(q) = IF 3 <= Len(s) THEN Len(s) - 3 + 1 ELSE 0
        /\ \A i \in 1 .. Len(s) - 3 + 1 : q[i] = s[3 + i - 1]
    BY <2>1, SubSeqProperties
  <2> QED
    BY <1>1, <1>5, <2>2
<1> HIDE DEF q
<1>7. \A i \in 1 .. Len(t) : q[i] = t[i]
  <2> TAKE i \in 1 .. Len(t)
  <2>1. i + 1 \in 1 .. Len(u) /\ 3 + i - 1 = (i + 1) + 1
    BY <1>1
  <2> QED
    BY <1>3, <1>4, <1>6, <2>1
<1>8. q = t
  BY <1>1, <1>6, <1>7, SeqEqual
<1> QED
  BY <1>8 DEF q, s, u, Drop

-----------------------------------------------------------------------------
(* Texts put together.                                                     *)

\* What is flattened of the first n sequences.
Flat(s, n, f) == f = [i \in 1 .. n |-> IF i = 1 THEN s[i] ELSE f[i - 1] \o s[i]]

LEMMA FlatExists ==
  ASSUME NEW s, NEW n \in Nat
  PROVE  \E f : Flat(s, n, f)
<1> DEFINE N == {m \in Nat : \E f : Flat(s, m, f)}
<1>1. 0 \in N
  <2> DEFINE f == [i \in 1 .. 0 |-> s]
             h == [i \in 1 .. 0 |-> IF i = 1 THEN s[i] ELSE f[i - 1] \o s[i]]
  <2>1. 1 .. 0 = {}
    OBVIOUS
  <2>2. f = h
    BY <2>1
  <2> HIDE DEF f
  <2>3. Flat(s, 0, f)
    BY <2>2 DEF Flat
  <2> QED
    BY <2>3
<1>2. ASSUME NEW m \in N PROVE m + 1 \in N
  <2>1. m \in Nat /\ m + 1 \in Nat
    OBVIOUS
  <2>2. PICK f : Flat(s, m, f)
    OBVIOUS
  <2> DEFINE At(h, i) == IF i = 1 THEN s[i] ELSE h[i - 1] \o s[i]
             g == [i \in 1 .. m + 1 |-> IF i <= m THEN f[i] ELSE At(f, i)]
             h == [i \in 1 .. m + 1 |-> At(g, i)]
  <2>3. \A i \in 1 .. m : f[i] = At(f, i)
    BY <2>2 DEF Flat
  <2>4. ASSUME NEW i \in 1 .. m + 1 PROVE g[i] = h[i]
    <3>1. i = 1 \/ (i - 1 \in 1 .. m + 1 /\ i - 1 <= m)
      BY <2>1
    <3>2. At(g, i) = At(f, i)
      BY <3>1
    <3>3. g[i] = At(f, i)
      <4>1. CASE i <= m
        <5>1. i \in 1 .. m
          BY <2>1, <4>1
        <5> QED
          BY <2>3, <4>1, <5>1
      <4>2. CASE ~(i <= m)
        BY <4>2
      <4> QED
        BY <4>1, <4>2
    <3> QED
      BY <3>2, <3>3
  <2>5. g = [i \in 1 .. m + 1 |-> g[i]] /\ h = [i \in 1 .. m + 1 |-> h[i]]
    OBVIOUS
  <2> HIDE DEF g, h
  <2>6. g = h
    BY <2>4, <2>5
  <2>7. Flat(s, m + 1, g)
    BY <2>6 DEF Flat, h
  <2> QED
    BY <2>1, <2>7
<1>3. N = Nat
  BY <1>1, <1>2, Induction
<1> QED
  BY <1>3

LEMMA FlatSteps ==
  ASSUME NEW s, NEW n \in Nat, NEW f, Flat(s, n, f)
  PROVE  \A i \in 1 .. n : f[i] = IF i = 1 THEN s[i] ELSE f[i - 1] \o s[i]
BY DEF Flat

LEMMA FlatTexts ==
  ASSUME NEW C, NEW s \in Seq(Seq(C)), NEW f, Flat(s, Len(s), f)
  PROVE  \A i \in 1 .. Len(s) : f[i] \in Seq(C)
<1> DEFINE n == Len(s)
           N == {k \in Nat : k + 1 \in 1 .. n => f[k + 1] \in Seq(C)}
<1>1. n \in Nat /\ \A i \in 1 .. n : s[i] \in Seq(C)
  OBVIOUS
<1>2. \A i \in 1 .. n : f[i] = IF i = 1 THEN s[i] ELSE f[i - 1] \o s[i]
  BY <1>1, FlatSteps
<1> HIDE DEF n
<1>3. 0 \in N
  BY <1>1, <1>2
<1>4. ASSUME NEW k \in N PROVE k + 1 \in N
  <2> SUFFICES ASSUME (k + 1) + 1 \in 1 .. n PROVE f[(k + 1) + 1] \in Seq(C)
    OBVIOUS
  <2>1. k \in Nat /\ k + 1 \in 1 .. n /\ (k + 1) + 1 # 1 /\ ((k + 1) + 1) - 1 = k + 1
    BY <1>1
  <2>2. f[(k + 1) + 1] = f[k + 1] \o s[(k + 1) + 1]
    BY <1>2, <2>1
  <2>3. f[k + 1] \in Seq(C) /\ s[(k + 1) + 1] \in Seq(C)
    BY <1>1, <2>1
  <2> QED
    BY <2>2, <2>3, ConcatProperties
<1>5. N = Nat
  BY <1>3, <1>4, Induction
<1>6. ASSUME NEW i \in 1 .. n PROVE f[i] \in Seq(C)
  <2>1. i - 1 \in Nat /\ (i - 1) + 1 = i
    BY <1>1
  <2>2. i - 1 \in N
    BY <1>5, <2>1
  <2> QED
    BY <2>1, <2>2
<1> QED
  BY <1>6 DEF n

LEMMA FlatOf ==
  ASSUME NEW C, NEW s \in Seq(Seq(C)), s # <<>>
  PROVE  \E f : Flat(s, Len(s), f) /\ FlattenSeq(s) = f[Len(s)]
<1> DEFINE f == CHOOSE f : Flat(s, Len(s), f)
<1>1. Len(s) \in Nat /\ Len(s) # 0
  OBVIOUS
<1>2. Flat(s, Len(s), f)
  BY <1>1, FlatExists
<1>3. FlattenSeq(s) = f[Len(s)]
  BY <1>1 DEF FlattenSeq, Flat
<1> QED
  BY <1>2, <1>3

LEMMA FlattenNothing == FlattenSeq(<<>>) = <<>>
BY DEF FlattenSeq

LEMMA FlattenIsText ==
  ASSUME NEW C, NEW s \in Seq(Seq(C))
  PROVE  FlattenSeq(s) \in Seq(C)
<1>1. CASE s = <<>>
  <2>1. <<>> \in Seq(C)
    OBVIOUS
  <2> QED
    BY <1>1, <2>1, FlattenNothing
<1>2. CASE s # <<>>
  <2>1. PICK f : Flat(s, Len(s), f) /\ FlattenSeq(s) = f[Len(s)]
    BY <1>2, FlatOf
  <2>2. Len(s) \in 1 .. Len(s)
    BY <1>2
  <2> QED
    BY <2>1, <2>2, FlatTexts
<1> QED
  BY <1>1, <1>2

\* The first text of several comes first of all.
LEMMA FlattenFirst ==
  ASSUME NEW C, NEW a \in Seq(C), NEW s \in Seq(Seq(C))
  PROVE  FlattenSeq(<<a>> \o s) = a \o FlattenSeq(s)
<1> DEFINE u == <<a>> \o s
           n == Len(s)
<1>1. /\ u \in Seq(Seq(C)) /\ u # <<>> /\ Len(u) = n + 1 /\ n \in Nat
      /\ Tail(u) = s /\ Head(u) = a
  BY HeadOf
<1>2. u[1] = a /\ \A i \in 1 .. n : u[i + 1] = s[i]
  <2> HIDE DEF u
  <2>1. \A i \in 1 .. Len(Tail(u)) : Tail(u)[i] = u[i + 1]
    BY <1>1, HeadTailProperties
  <2>2. Head(u) = u[1]
    BY <1>1
  <2> QED
    BY <1>1, <2>1, <2>2
<1>3. \A i \in 1 .. n : s[i] \in Seq(C)
  OBVIOUS
<1> HIDE DEF u
<1>4. PICK h : Flat(u, n + 1, h) /\ FlattenSeq(u) = h[n + 1]
  BY <1>1, FlatOf
<1>5. \A i \in 1 .. n + 1 : h[i] = IF i = 1 THEN u[i] ELSE h[i - 1] \o u[i]
  <2>1. n + 1 \in Nat
    BY <1>1
  <2> QED
    BY <1>4, <2>1, FlatSteps
<1>6. CASE s = <<>>
  <2>1. n = 0 /\ 1 \in 1 .. 0 + 1
    BY <1>6
  <2>2. FlattenSeq(u) = a
    BY <1>2, <1>4, <1>5, <2>1
  <2>3. FlattenSeq(s) = <<>> /\ a \o <<>> = a
    BY <1>6, FlattenNothing, ConcatEmptySeq
  <2> QED
    BY <2>2, <2>3 DEF u
<1>7. CASE s # <<>>
  <2>1. PICK g : Flat(s, n, g) /\ FlattenSeq(s) = g[n]
    BY <1>7, FlatOf
  <2>2. \A i \in 1 .. n : g[i] = IF i = 1 THEN s[i] ELSE g[i - 1] \o s[i]
    <3>1. n \in Nat /\ Flat(s, n, g)
      BY <1>1, <2>1
    <3> HIDE DEF n
    <3> QED
      BY <3>1, FlatSteps
  <2>3. \A i \in 1 .. n : g[i] \in Seq(C)
    BY <2>1, FlatTexts
  <2>4. n # 0
    BY <1>7
  <2> HIDE DEF n
  <2> DEFINE N == {k \in Nat : k \in 1 .. n => h[k + 1] = a \o g[k]}
  <2>5. 0 \in N
    OBVIOUS
  <2>6. ASSUME NEW k \in N PROVE k + 1 \in N
    <3> SUFFICES ASSUME k + 1 \in 1 .. n PROVE h[(k + 1) + 1] = a \o g[k + 1]
      OBVIOUS
    <3>1. k \in Nat /\ (k + 1) + 1 \in 1 .. n + 1 /\ (k + 1) + 1 # 1 /\ ((k + 1) + 1) - 1 = k + 1
      BY <1>1
    <3>2. h[(k + 1) + 1] = h[k + 1] \o u[(k + 1) + 1]
      BY <1>5, <3>1
    <3>3. u[(k + 1) + 1] = s[k + 1]
      BY <1>2
    <3>4. CASE k = 0
      <4>1. h[k + 1] = a
        <5>1. k + 1 = 1 /\ 1 \in 1 .. n + 1
          BY <1>1, <3>4
        <5> QED
          BY <1>2, <1>5, <5>1
      <4>2. g[k + 1] = s[k + 1]
        BY <2>2, <3>4
      <4> QED
        BY <3>2, <3>3, <4>1, <4>2
    <3>5. CASE k # 0
      <4>1. k \in 1 .. n /\ k + 1 # 1 /\ (k + 1) - 1 = k
        BY <1>1, <3>1, <3>5
      <4>2. h[k + 1] = a \o g[k]
        BY <4>1
      <4>3. g[k + 1] = g[k] \o s[k + 1]
        BY <2>2, <4>1
      <4>4. (a \o g[k]) \o s[k + 1] = a \o (g[k] \o s[k + 1])
        <5>1. a \in Seq(C) /\ g[k] \in Seq(C) /\ s[k + 1] \in Seq(C)
          BY <1>3, <2>3, <4>1
        <5> QED
          <6> DEFINE x == g[k]
                     y == s[k + 1]
          <6>1. x \in Seq(C) /\ y \in Seq(C)
            BY <5>1
          <6> HIDE DEF x, y
          <6>2. (a \o x) \o y = a \o (x \o y)
            BY <6>1, ConcatAssociative
          <6> QED
            BY <6>2 DEF x, y
      <4> QED
        BY <3>2, <3>3, <4>2, <4>3, <4>4
    <3> QED
      BY <3>4, <3>5
  <2>7. N = Nat
    BY <2>5, <2>6, Induction
  <2>8. n \in Nat /\ n \in 1 .. n
    BY <1>1, <2>4
  <2>9. n \in N
    BY <2>7, <2>8
  <2>10. h[n + 1] = a \o g[n]
    BY <2>8, <2>9
  <2> QED
    BY <1>4, <2>1, <2>10 DEF u
<1> QED
  BY <1>6, <1>7

LEMMA MapText ==
  ASSUME NEW A, NEW B, NEW e \in [A -> B], NEW t \in Seq(A)
  PROVE  [i \in DOMAIN t |-> e[t[i]]] \in Seq(B) /\ Len([i \in DOMAIN t |-> e[t[i]]]) = Len(t)
<1>1. DOMAIN t = 1 .. Len(t) /\ Len(t) \in Nat /\ \A i \in 1 .. Len(t) : t[i] \in A
  OBVIOUS
<1> DEFINE n == Len(t)
<1>2. \A i \in 1 .. n : e[t[i]] \in B
  BY <1>1
<1>3. n \in Nat
  BY <1>1
<1> DEFINE s == [i \in 1 .. n |-> e[t[i]]]
<1>4. s \in [1 .. n -> B]
  BY <1>2
<1>5. s \in Seq(B) /\ Len(s) = n
  <2> HIDE DEF n, s
  <2>1. DOMAIN s = 1 .. n /\ \A i \in 1 .. n : s[i] \in B
    BY <1>4
  <2> QED
    BY <1>3, <1>4, <2>1
<1> QED
  BY <1>1, <1>5

LEMMA MapFirst ==
  ASSUME NEW A, NEW B, NEW e \in [A -> B], NEW c \in A, NEW t \in Seq(A)
  PROVE  [i \in DOMAIN (<<c>> \o t) |-> e[(<<c>> \o t)[i]]]
           = <<e[c]>> \o [i \in DOMAIN t |-> e[t[i]]]
<1> DEFINE u == <<c>> \o t
           m == [i \in DOMAIN t |-> e[t[i]]]
           w == [i \in DOMAIN u |-> e[u[i]]]
           z == <<e[c]>> \o m
           n == Len(t)
<1>1. u \in Seq(A) /\ u # <<>> /\ Len(u) = n + 1 /\ Head(u) = c /\ Tail(u) = t /\ n \in Nat
  BY HeadOf
<1>2. u[1] = c /\ \A i \in 1 .. n : u[i + 1] = t[i]
  <2> HIDE DEF u
  <2>1. \A i \in 1 .. Len(Tail(u)) : Tail(u)[i] = u[i + 1]
    BY <1>1, HeadTailProperties
  <2>2. Head(u) = u[1]
    BY <1>1
  <2> QED
    BY <1>1, <2>1, <2>2
<1>3. m \in Seq(B) /\ Len(m) = n
  BY MapText
<1>4. \A i \in 1 .. n : m[i] = e[t[i]]
  OBVIOUS
<1>5. e[c] \in B
  OBVIOUS
<1> HIDE DEF u
<1>6. w \in Seq(B) /\ Len(w) = n + 1
  BY <1>1, MapText
<1>7. \A i \in 1 .. n + 1 : w[i] = e[u[i]]
  <2>1. DOMAIN u = 1 .. n + 1
    BY <1>1
  <2> QED
    BY <2>1
<1> HIDE DEF w, m, n
<1>8. z \in Seq(B) /\ z # <<>> /\ Len(z) = n + 1 /\ Head(z) = e[c] /\ Tail(z) = m
  BY <1>3, <1>5, HeadOf
<1> HIDE DEF z
<1>9. z[1] = e[c] /\ \A i \in 1 .. n : z[i + 1] = m[i]
  <2>1. \A i \in 1 .. Len(Tail(z)) : Tail(z)[i] = z[i + 1]
    BY <1>8, HeadTailProperties
  <2>2. Head(z) = z[1]
    BY <1>8
  <2> QED
    BY <1>3, <1>8, <2>1, <2>2
<1>10. ASSUME NEW i \in 1 .. n + 1 PROVE w[i] = z[i]
  <2>1. CASE i = 1
    BY <1>1, <1>2, <1>7, <1>9, <2>1
  <2>2. CASE i # 1
    <3>1. i - 1 \in 1 .. n /\ (i - 1) + 1 = i
      BY <1>1, <2>2
    <3>2. u[i] = t[i - 1] /\ z[i] = m[i - 1]
      BY <1>2, <1>9, <3>1
    <3> QED
      BY <1>4, <1>7, <3>1, <3>2
  <2> QED
    BY <2>1, <2>2
<1>11. w = z
  BY <1>6, <1>8, <1>10, SeqEqual
<1> QED
  BY <1>11 DEF w, z, u, m

LEMMA MapNothing ==
  ASSUME NEW e
  PROVE  [i \in DOMAIN <<>> |-> e[<<>>[i]]] = <<>>
OBVIOUS

\* Doubling, from its first character on.
Piece(c, q) == IF c = q THEN <<c, c>> ELSE <<c>>

\* Doubling goes character by character.
LEMMA DoubledText ==
  ASSUME NEW q, NEW C
  PROVE  /\ Doubled(<<>>, q) = <<>>
         /\ \A t \in Seq(C) : Doubled(t, q) \in Seq(C)
         /\ \A c \in C, t \in Seq(C) : Doubled(<<c>> \o t, q) = Piece(c, q) \o Doubled(t, q)
<1> DEFINE e == [c \in C |-> Piece(c, q)]
<1>1. e \in [C -> Seq(C)]
  BY DEF Piece
<1>2. ASSUME NEW t \in Seq(C)
      PROVE  Doubled(t, q) = FlattenSeq([i \in DOMAIN t |-> e[t[i]]])
  <2>1. \A i \in DOMAIN t : t[i] \in C
    OBVIOUS
  <2>2. \A i \in DOMAIN t : e[t[i]] = IF t[i] = q THEN <<q, q>> ELSE <<t[i]>>
    BY <2>1 DEF Piece
  <2>3. [i \in DOMAIN t |-> e[t[i]]] = [i \in DOMAIN t |-> IF t[i] = q THEN <<q, q>> ELSE <<t[i]>>]
    BY <2>2
  <2> QED
    BY <2>3 DEF Doubled
<1>3. Doubled(<<>>, q) = <<>>
  <2>1. <<>> \in Seq(C)
    OBVIOUS
  <2> HIDE DEF e
  <2>2. Doubled(<<>>, q) = FlattenSeq([i \in DOMAIN <<>> |-> e[<<>>[i]]])
    BY <1>2, <2>1
  <2> QED
    BY <2>2, MapNothing, FlattenNothing
<1>4. ASSUME NEW t \in Seq(C)
      PROVE  Doubled(t, q) \in Seq(C)
  <2> HIDE DEF e
  <2> DEFINE s == [i \in DOMAIN t |-> e[t[i]]]
  <2>1. s \in Seq(Seq(C))
    BY <1>1, MapText
  <2> HIDE DEF s
  <2>2. FlattenSeq(s) \in Seq(C)
    BY <2>1, FlattenIsText
  <2> QED
    BY <1>2, <2>2 DEF s
<1>5. ASSUME NEW c \in C, NEW t \in Seq(C)
      PROVE  Doubled(<<c>> \o t, q) = Piece(c, q) \o Doubled(t, q)
  <2> DEFINE u == <<c>> \o t
             s == [i \in DOMAIN t |-> e[t[i]]]
             w == [i \in DOMAIN u |-> e[u[i]]]
  <2>1. e[c] = Piece(c, q)
    OBVIOUS
  <2> HIDE DEF e
  <2>2. w = <<e[c]>> \o s
    BY <1>1, MapFirst
  <2>3. s \in Seq(Seq(C)) /\ e[c] \in Seq(C)
    BY <1>1, MapText
  <2>4. u \in Seq(C)
    BY HeadOf
  <2> HIDE DEF s, u
  <2>5. FlattenSeq(<<e[c]>> \o s) = e[c] \o FlattenSeq(s)
    <3> DEFINE a == e[c]
    <3>1. a \in Seq(C)
      BY <2>3
    <3> HIDE DEF a
    <3>2. FlattenSeq(<<a>> \o s) = a \o FlattenSeq(s)
      BY <2>3, <3>1, FlattenFirst
    <3> QED
      BY <3>2 DEF a
  <2>6. Doubled(u, q) = FlattenSeq(w) /\ Doubled(t, q) = FlattenSeq(s)
    BY <1>2, <2>4 DEF s
  <2> QED
    BY <2>1, <2>2, <2>5, <2>6 DEF u
<1> QED
  BY <1>3, <1>4, <1>5

-----------------------------------------------------------------------------
(* The readers of a name and of a disambiguator.                           *)

LEMMA Characters ==
  /\ Simple \subseteq Char /\ Delimiters \subseteq Char
  /\ \A c \in Delimiters : c \notin Simple
  /\ "bt" \in Char /\ "sp" \in Char /\ "(" \in Char /\ ")" \in Char /\ "[" \in Char
  /\ "]" \in Char /\ "~" \in Char /\ "." \in Char /\ "#" \in Char /\ ":" \in Char
  /\ \A x \in DOMAIN Signs : Signs[x] \in Delimiters
<1>1. /\ "bt" \in Delimiters /\ "sp" \in Delimiters /\ "(" \in Delimiters /\ ")" \in Delimiters
      /\ "[" \in Delimiters /\ "]" \in Delimiters /\ "~" \in Delimiters
      /\ \A x \in DOMAIN Signs : Signs[x] \in Delimiters
  BY DEF Delimiters
<1>2. "." = Signs["term"] /\ "#" = Signs["type"] /\ ":" = Signs["meta"]
      /\ {"term", "type", "meta"} \subseteq DOMAIN Signs
  BY DEF Signs
<1> QED
  BY <1>1, <1>2, CharAssumption

LEMMA Readers ==
  ASSUME NEW text \in Seq(Char), NEW rest \in Seq(Char)
  PROVE  /\ Reader(text, rest) \in Reading /\ Ended(text, rest) \in Reading
         /\ Reader(text, rest).text = text /\ Reader(text, rest).rest = rest
         /\ ~Reader(text, rest).closed
         /\ Ended(text, rest).rest = rest /\ Ended(text, rest).closed
         /\ Opened(rest) = Reader(<<>>, rest)
BY DEF Reader, Ended, Reading, Opened

LEMMA TookOne ==
  ASSUME NEW text \in Seq(Char), NEW c \in Char, NEW r \in Seq(Char)
  PROVE  /\ Took(Reader(text, <<c>> \o r), c, 1) = Reader(text \o <<c>>, r)
         /\ text \o <<c>> \in Seq(Char)
<1>1. Append(text, c) = text \o <<c>> /\ Append(text, c) \in Seq(Char)
  BY AppendIsConcat, AppendProperties
<1> DEFINE s == <<c>> \o r
<1>2. Drop(s, 1) = r
  BY DropOne
<1> HIDE DEF s
<1>3. Took(Reader(text, s), c, 1) = Reader(Append(text, c), Drop(s, 1))
  BY DEF Took, Reader
<1> QED
  BY <1>1, <1>2, <1>3 DEF s

\* A character more, at the end of what is read or in front of what is left.
LEMMA Regrouped ==
  ASSUME NEW C, NEW text \in Seq(C), NEW c \in C, NEW t \in Seq(C)
  PROVE  (text \o <<c>>) \o t = text \o (<<c>> \o t) /\ text \o (<<c>> \o t) \in Seq(C)
<1>1. <<c>> \in Seq(C)
  OBVIOUS
<1>2. <<c>> \o t \in Seq(C)
  BY <1>1, ConcatProperties
<1> QED
  BY <1>1, <1>2, ConcatAssociative, ConcatProperties

\* A turn that takes a character of C, wherever it meets one, takes a text of them.
LEMMA TakesText ==
  ASSUME NEW turn, NEW C \in SUBSET Char,
         \A text \in Seq(Char), c \in C, r \in Seq(Char) :
            turn[Reader(text, <<c>> \o r)] = Reader(text \o <<c>>, r)
  PROVE  \A t \in Seq(C), text \in Seq(Char), r \in Seq(Char) :
            Runs(turn, Reader(text, t \o r), Reader(text \o t, r))
<1> DEFINE T == {t \in Seq(C) : \A text \in Seq(Char), r \in Seq(Char) :
                    Runs(turn, Reader(text, t \o r), Reader(text \o t, r))}
<1>1. Seq(C) \subseteq Seq(Char)
  BY SeqMonotonic
<1>2. <<>> \in T
  <2> SUFFICES ASSUME NEW text \in Seq(Char), NEW r \in Seq(Char)
               PROVE  Runs(turn, Reader(text, <<>> \o r), Reader(text \o <<>>, r))
    <3> <<>> \in Seq(C)
      OBVIOUS
    <3> QED
      BY Zenon
  <2>1. <<>> \o r = r /\ text \o <<>> = text
    BY ConcatEmptySeq
  <2>2. Len(Reader(text, r).rest) \in Nat
    BY DEF Reader
  <2> QED
    BY <2>1, <2>2, RunsNowhere
<1>3. ASSUME NEW c \in C, NEW t \in T PROVE <<c>> \o t \in T
  <2>1. <<c>> \o t \in Seq(C) /\ c \in Char /\ t \in Seq(Char)
    BY <1>1, HeadOf
  <2> SUFFICES ASSUME NEW text \in Seq(Char), NEW r \in Seq(Char)
               PROVE  Runs(turn, Reader(text, (<<c>> \o t) \o r),
                           Reader(text \o (<<c>> \o t), r))
    BY <2>1
  <2>2. (<<c>> \o t) \o r = <<c>> \o (t \o r) /\ t \o r \in Seq(Char)
    BY <2>1, Onwards
  <2>3. text \o <<c>> \in Seq(Char) /\ (text \o <<c>>) \o t = text \o (<<c>> \o t)
    BY <2>1, TookOne, Regrouped
  <2> DEFINE tr == t \o r
             a == Reader(text, <<c>> \o tr)
             b == Reader(text \o <<c>>, tr)
  <2>4. turn[a] = b
    BY <2>2
  <2>5. Runs(turn, a, b)
    <3>1. tr \in Seq(Char)
      BY <2>2
    <3> HIDE DEF tr
    <3>2. Len(tr) \in Nat /\ Len(<<c>> \o tr) = Len(tr) + 1
      BY <2>1, <3>1, HeadOf
    <3>3. a.rest = <<c>> \o tr /\ b.rest = tr
      BY DEF Reader
    <3> DEFINE s == <<c>> \o tr
    <3> HIDE DEF s
    <3>4. Len(a.rest) \in Nat /\ Len(b.rest) \in Nat /\ Len(b.rest) < Len(a.rest)
      <4>1. Len(tr) \in Nat /\ Len(s) = Len(tr) + 1 /\ a.rest = s /\ b.rest = tr
        BY <3>2, <3>3 DEF s
      <4> HIDE DEF a, b
      <4> QED
        BY <4>1
    <3> HIDE DEF a, b
    <3> QED
      BY <2>4, <3>4, RunsOnce
  <2>6. Runs(turn, b, Reader((text \o <<c>>) \o t, r))
    BY <2>3
  <2> HIDE DEF a, b
  <2>7. Runs(turn, a, Reader((text \o <<c>>) \o t, r))
    BY <2>5, <2>6, RunsOn
  <2> QED
    BY <2>2, <2>3, <2>7 DEF a
<1> HIDE DEF T
<1>4. T = Seq(C)
  <2>1. T \in SUBSET Seq(C)
    BY DEF T
  <2> QED
    BY <1>2, <1>3, <2>1, SeqInduction
<1> QED
  BY <1>4 DEF T

\* What needs no quotes is read up to the first character that would (readName).
LEMMA PlainReads ==
  ASSUME NEW name \in Seq(Simple), NEW rest \in Seq(Char), rest = <<>> \/ Head(rest) \notin Simple
  PROVE  Plain(name \o rest) = Read(name, rest)
<1>1. \A text \in Seq(Char), c \in Simple, r \in Seq(Char) :
         PlainTurn[Reader(text, <<c>> \o r)] = Reader(text \o <<c>>, r)
  <2> TAKE text \in Seq(Char), c \in Simple, r \in Seq(Char)
  <2>1. c \in Char
    BY Characters
  <2>2. <<c>> \o r \in Seq(Char) /\ <<c>> \o r # <<>> /\ Head(<<c>> \o r) = c
    BY <2>1, HeadOf
  <2> DEFINE s == <<c>> \o r
             a == Reader(text, s)
  <2>3. Took(a, c, 1) = Reader(text \o <<c>>, r)
    BY <2>1, TookOne
  <2>4. s \in Seq(Char) /\ s # <<>> /\ Head(s) = c
    BY <2>2
  <2> HIDE DEF s
  <2>5. a \in Reading /\ a.rest = s
    BY <2>4, Readers
  <2> HIDE DEF a
  <2>6. PlainTurn[a] = Took(a, c, 1)
    BY <2>4, <2>5 DEF PlainTurn
  <2> QED
    BY <2>3, <2>6 DEF a, s
<1>2. Simple \in SUBSET Char /\ Seq(Simple) \subseteq Seq(Char)
  BY Characters, SeqMonotonic
<1>3. <<>> \in Seq(Char) /\ <<>> \o name = name
  BY <1>2, ConcatEmptySeq
<1>4. Runs(PlainTurn, Reader(<<>>, name \o rest), Reader(<<>> \o name, rest))
  BY <1>1, <1>2, <1>3, TakesText
<1> DEFINE s == name \o rest
           a == Reader(<<>>, s)
           b == Reader(name, rest)
<1>5. s \in Seq(Char)
  BY <1>2, ConcatProperties
<1>6. Runs(PlainTurn, a, b)
  BY <1>3, <1>4
<1> HIDE DEF s
<1>7. a = Opened(s) /\ a.rest = s
  BY <1>3, <1>5, Readers
<1>8. b \in Reading /\ b.rest = rest /\ b.text = name
  BY <1>2, Readers
<1> HIDE DEF a, b
<1>9. PlainTurn[b] = b
  BY <1>8 DEF PlainTurn
<1>10. Loop(PlainTurn, a, Len(a.rest)) = b
  BY <1>6, <1>9, LoopEnds
<1>11. Plain(s) = Read(name, rest)
  BY <1>7, <1>8, <1>10 DEF Plain
<1> QED
  BY <1>11 DEF s

LEMMA Associated ==
  \A u, v, w \in Seq(Char) : (u \o v) \o w = u \o (v \o w)
BY ConcatAssociative

\* A text is read when its pieces are, one after the other.
Takes(turn, A, B, reader, piece, flat) ==
  /\ piece \in [A -> Seq(Char)] /\ flat \in [Seq(A) -> Seq(Char)] /\ flat[<<>>] = <<>>
  /\ \A c \in A, t \in Seq(A) : flat[<<c>> \o t] = piece[c] \o flat[t]
  /\ \A x \in Seq(B), r \in Seq(Char) : reader[x][r].rest = r
  /\ \A x \in Seq(B), c \in A, r \in Seq(Char) :
        Runs(turn, reader[x][piece[c] \o r], reader[x \o <<c>>][r])

\* Turns that take piece after piece take all the pieces (induction on the text).
LEMMA TakesAll ==
  ASSUME NEW turn, NEW B, NEW A \in SUBSET B, NEW reader, NEW piece, NEW flat,
         Takes(turn, A, B, reader, piece, flat)
  PROVE  \A t \in Seq(A), x \in Seq(B), r \in Seq(Char) :
            Runs(turn, reader[x][flat[t] \o r], reader[x \o t][r])
<1>0. /\ piece \in [A -> Seq(Char)] /\ flat \in [Seq(A) -> Seq(Char)] /\ flat[<<>>] = <<>>
      /\ \A c \in A, t \in Seq(A) : flat[<<c>> \o t] = piece[c] \o flat[t]
  BY DEF Takes
<1>rest. \A x \in Seq(B), r \in Seq(Char) : reader[x][r].rest = r
  BY DEF Takes
<1>runs. \A x \in Seq(B), c \in A, r \in Seq(Char) :
            Runs(turn, reader[x][piece[c] \o r], reader[x \o <<c>>][r])
  BY DEF Takes
<1> DEFINE T == {t \in Seq(A) : \A x \in Seq(B), r \in Seq(Char) :
                    Runs(turn, reader[x][flat[t] \o r], reader[x \o t][r])}
<1>1. Seq(A) \subseteq Seq(B)
  BY SeqMonotonic
<1>2. <<>> \in T
  <2>1. <<>> \in Seq(A)
    OBVIOUS
  <2>2. ASSUME NEW x \in Seq(B), NEW r \in Seq(Char)
        PROVE  Runs(turn, reader[x][flat[<<>>] \o r], reader[x \o <<>>][r])
    <3>1. <<>> \o r = r /\ x \o <<>> = x
      BY ConcatEmptySeq
    <3> DEFINE a == reader[x][r]
    <3>2. Len(a.rest) \in Nat
      BY <1>rest, LenProperties
    <3> HIDE DEF a
    <3>3. Runs(turn, a, a)
      BY <3>2, RunsNowhere
    <3> QED
      BY <1>0, <3>1, <3>3, Zenon DEF a
  <2> QED
    BY <2>1, <2>2
<1>3. ASSUME NEW c \in A, NEW t \in T PROVE <<c>> \o t \in T
  <2>1. <<c>> \o t \in Seq(A) /\ t \in Seq(A)
    BY HeadOf
  <2>2. flat[<<c>> \o t] = piece[c] \o flat[t]
    BY <1>0, <2>1
  <2>3. ASSUME NEW x \in Seq(B), NEW r \in Seq(Char)
        PROVE  Runs(turn, reader[x][flat[<<c>> \o t] \o r], reader[x \o (<<c>> \o t)][r])
    <3> DEFINE p == piece[c]
               f == flat[t]
               y == x \o <<c>>
    <3>1. p \in Seq(Char) /\ f \in Seq(Char)
      BY <1>0, <2>1
    <3>2. y \in Seq(B) /\ y \o t = x \o (<<c>> \o t)
      <4>1. <<c>> \in Seq(B) /\ t \in Seq(B)
        BY <1>1, <2>1
      <4> QED
        BY <4>1, ConcatProperties, ConcatAssociative
    <3> DEFINE fr == f \o r
    <3>3. fr \in Seq(Char)
      BY <3>1, ConcatProperties
    <3>4. Runs(turn, reader[x][p \o fr], reader[y][fr])
      BY <1>runs, <3>3
    <3>5. Runs(turn, reader[y][fr], reader[y \o t][r])
      BY <3>2
    <3> HIDE DEF p, f, y
    <3>6. (p \o f) \o r = p \o fr
      BY <3>1, Associated
    <3> HIDE DEF fr
    <3> DEFINE a == reader[x][p \o fr]
               b == reader[y][fr]
               z == reader[y \o t][r]
    <3>7. Runs(turn, a, b) /\ Runs(turn, b, z)
      BY <3>4, <3>5
    <3> HIDE DEF a, b, z
    <3>8. Runs(turn, a, z)
      BY <3>7, RunsOn
    <3>9. flat[<<c>> \o t] \o r = p \o fr
      BY <2>2, <3>6, Zenon DEF p, f
    <3> QED
      BY <3>2, <3>8, <3>9, Zenon DEF a, z
  <2> QED
    BY <2>1, <2>3
<1> HIDE DEF T
<1>4. T = Seq(A)
  <2>1. T \in SUBSET Seq(A)
    BY DEF T
  <2> QED
    BY <1>2, <1>3, <2>1, SeqInduction
<1> QED
  BY <1>4 DEF T

\* A reader that is closed has read what was before the character.
Closing(turn, s, a, b) ==
  /\ Runs(turn, Opened(s), a) /\ turn[a] = b /\ turn[b] = b
  /\ Len(a.rest) \in Nat /\ Len(b.rest) \in Nat /\ Len(b.rest) < Len(a.rest)

LEMMA Closes ==
  ASSUME NEW turn, NEW s, NEW a, NEW b, NEW t, NEW rest, b = Ended(t, rest),
         Closing(turn, s, a, b)
  PROVE  IfClosed(Loop(turn, Opened(s), Len(s))) = Read(t, rest)
<1>0. /\ Runs(turn, Opened(s), a) /\ turn[a] = b /\ turn[b] = b
      /\ Len(a.rest) \in Nat /\ Len(b.rest) \in Nat /\ Len(b.rest) < Len(a.rest)
  BY DEF Closing
<1> DEFINE o == Opened(s)
<1>1. o.rest = s
  BY DEF Opened, Reader
<1> HIDE DEF o
<1>2. Runs(turn, a, b)
  BY <1>0, RunsOnce
<1>3. Runs(turn, o, b)
  BY <1>0, <1>2, RunsOn DEF o
<1>4. Loop(turn, o, Len(o.rest)) = b
  BY <1>0, <1>3, LoopEnds
<1>5. IfClosed(b) = Read(t, rest)
  BY DEF IfClosed, Ended
<1> QED
  BY <1>1, <1>4, <1>5 DEF o

\* What holds no c is read up to the c that follows it.
LEMMA UpToReads ==
  ASSUME NEW c \in Char, NEW t \in Seq(Char \ {c}), NEW rest \in Seq(Char)
  PROVE  UpTo(t \o (<<c>> \o rest), c) = Read(t, rest)
<1> DEFINE C == Char \ {c}
           turn == UpToTurn(c)
           cr == <<c>> \o rest
           s == t \o cr
<1>1. \A text \in Seq(Char), d \in C, r \in Seq(Char) :
         turn[Reader(text, <<d>> \o r)] = Reader(text \o <<d>>, r)
  <2> TAKE text \in Seq(Char), d \in C, r \in Seq(Char)
  <2>1. d \in Char /\ d # c
    OBVIOUS
  <2> DEFINE u == <<d>> \o r
             a == Reader(text, u)
  <2>2. u \in Seq(Char) /\ u # <<>> /\ Head(u) = d
    BY <2>1, HeadOf
  <2>3. Took(a, d, 1) = Reader(text \o <<d>>, r)
    BY <2>1, TookOne
  <2> HIDE DEF u
  <2>4. a \in Reading /\ a.rest = u /\ ~a.closed
    BY <2>2, Readers
  <2> HIDE DEF a
  <2>5. turn[a] = Took(a, d, 1)
    BY <2>1, <2>2, <2>4 DEF UpToTurn, StartsWith
  <2> QED
    BY <2>3, <2>5 DEF a, u
<1>2. C \in SUBSET Char /\ t \in Seq(C) /\ t \in Seq(Char) /\ <<>> \in Seq(Char)
  BY SeqMonotonic
<1>3. /\ cr \in Seq(Char) /\ cr # <<>> /\ Head(cr) = c /\ Tail(cr) = rest
      /\ Len(cr) = Len(rest) + 1 /\ Len(rest) \in Nat
  BY HeadOf
<1> HIDE DEF cr
<1>4. Runs(turn, Reader(<<>>, s), Reader(<<>> \o t, cr))
  <2> HIDE DEF turn, C
  <2> QED
    BY <1>1, <1>2, <1>3, TakesText
<1>5. <<>> \o t = t /\ s \in Seq(Char)
  BY <1>2, <1>3, ConcatEmptySeq, ConcatProperties
<1> HIDE DEF s
<1> DEFINE a == Reader(t, cr)
           b == Ended(t, rest)
<1>6. a \in Reading /\ a.rest = cr /\ a.text = t /\ ~a.closed
  BY <1>2, <1>3, Readers
<1>7. b \in Reading /\ b.closed /\ b = Ended(t, rest) /\ b.rest = rest
  BY <1>2, Readers
<1>8. Closed(a) = b
  BY <1>3, <1>6 DEF Closed
<1>9. Runs(turn, Opened(s), a)
  BY <1>4, <1>5 DEF Opened
<1> HIDE DEF a, b
<1>10. turn[a] = b
  BY <1>3, <1>6, <1>8 DEF UpToTurn, StartsWith
<1>11. turn[b] = b
  BY <1>7 DEF UpToTurn
<1> HIDE DEF turn
<1>12. Len(a.rest) \in Nat /\ Len(b.rest) \in Nat /\ Len(b.rest) < Len(a.rest)
  BY <1>3, <1>6, <1>7
<1>13. IfClosed(Loop(turn, Opened(s), Len(s))) = Read(t, rest)
  <2>1. Closing(turn, s, a, b)
    BY <1>7, <1>9, <1>10, <1>11, <1>12 DEF Closing
  <2> QED
    BY <1>7, <2>1, Closes
<1> QED
  BY <1>13 DEF UpTo, turn, s, cr

\* Between quotes, everything is read back: quotes doubled within, one at the end (readName).
LEMMA QuotedReads ==
  ASSUME NEW t \in Seq(Char), NEW rest \in Seq(Char), ~StartsWith(rest, "bt")
  PROVE  Quoted(Doubled(t, "bt") \o (<<"bt">> \o rest)) = Read(t, rest)
<1> DEFINE cr == <<"bt">> \o rest
           s == Doubled(t, "bt") \o cr
           piece == [c \in Char |-> Piece(c, "bt")]
           flat == [u \in Seq(Char) |-> Doubled(u, "bt")]
           reader == [x \in Seq(Char) |-> [r \in Seq(Char) |-> Reader(x, r)]]
<1>1. "bt" \in Char /\ <<>> \in Seq(Char)
  <2>1. <<>> \in Seq(Char)
    OBVIOUS
  <2> QED
    BY <2>1, Characters
<1>2. /\ Len(cr) = Len(rest) + 1 /\ Len(rest) \in Nat
      /\ cr \in Seq(Char) /\ cr # <<>> /\ Head(cr) = "bt" /\ Tail(cr) = rest
  BY <1>1, HeadOf
<1>3. \A u \in Seq(Char) : Doubled(u, "bt") \in Seq(Char)
  BY DoubledText
<1>4. ASSUME NEW text \in Seq(Char), NEW c \in Char, NEW r \in Seq(Char)
      PROVE  Runs(QuotedTurn, Reader(text, Piece(c, "bt") \o r),
                  Reader(text \o <<c>>, r))
  <2> DEFINE p == Piece(c, "bt") \o r
             a == Reader(text, p)
             b == Reader(text \o <<c>>, r)
  <2> HIDE DEF s, cr, piece, flat, reader
  <2>1. text \o <<c>> \in Seq(Char) /\ b.rest = r
    BY TookOne DEF Reader
  <2>2. CASE c # "bt"
    <3>1. p = <<c>> \o r
      BY <2>2 DEF Piece
    <3>2. p \in Seq(Char) /\ p # <<>> /\ Head(p) = c /\ Len(p) = Len(r) + 1 /\ Len(r) \in Nat
      <4> DEFINE w == <<c>> \o r
      <4>1. w \in Seq(Char) /\ w # <<>> /\ Head(w) = c /\ Len(w) = Len(r) + 1 /\ Len(r) \in Nat
        BY HeadOf
      <4>2. p = w
        BY <3>1
      <4> HIDE DEF p, w
      <4> QED
        BY <4>1, <4>2
    <3> HIDE DEF p
    <3>3. Took(a, c, 1) = b
      <4>1. Took(Reader(text, <<c>> \o r), c, 1) = b
        BY TookOne
      <4> QED
        BY <3>1, <4>1, Zenon
    <3>4. a \in Reading /\ a.rest = p /\ ~a.closed /\ b.rest = r
      BY <2>1, <3>2, Readers
    <3> HIDE DEF a, b
    <3>5. QuotedTurn[a] = b
      BY <2>2, <3>2, <3>3, <3>4 DEF QuotedTurn, StartsWith
    <3>6. Len(a.rest) \in Nat /\ Len(b.rest) \in Nat /\ Len(b.rest) < Len(a.rest)
      BY <2>1, <3>2, <3>4
    <3>7. Runs(QuotedTurn, a, b)
      BY <3>5, <3>6, RunsOnce
    <3> QED
      BY <3>7 DEF a, b, p
  <2>3. CASE c = "bt"
    <3> DEFINE q == <<c>> \o r
    <3>1. p = <<c>> \o q
      <4>1. <<c, c>> \o r = <<c>> \o (<<c>> \o r)
        <5>1. <<c>> \in Seq(Char) /\ <<c, c>> = <<c>> \o <<c>>
          OBVIOUS
        <5> QED
          BY <5>1, Associated
      <4> QED
        BY <2>3, <4>1 DEF Piece
    <3>2. q \in Seq(Char) /\ q # <<>> /\ Head(q) = c /\ Len(q) = Len(r) + 1 /\ Len(r) \in Nat
      BY HeadOf
    <3>3. Drop(p, 2) = r
      BY <3>1, DropTwo
    <3> HIDE DEF q
    <3> HIDE DEF p
    <3>4. p \in Seq(Char) /\ p # <<>> /\ Head(p) = c /\ Tail(p) = q /\ Len(p) = Len(q) + 1
      BY <3>1, <3>2, HeadOf
    <3>5. a \in Reading /\ a.rest = p /\ ~a.closed /\ a.text = text
      BY <3>4, Readers
    <3>6. Append(text, c) = text \o <<c>>
      BY AppendIsConcat
    <3>7. Took(a, c, 2) = b
      <4> HIDE DEF a
      <4> QED
        BY <3>3, <3>5, <3>6 DEF Took
    <3> HIDE DEF a, b
    <3>8. QuotedTurn[a] = b
      BY <2>3, <3>2, <3>4, <3>5, <3>7 DEF QuotedTurn, StartsWith
    <3>9. Len(a.rest) \in Nat /\ Len(b.rest) \in Nat /\ Len(b.rest) < Len(a.rest)
      BY <2>1, <3>2, <3>4, <3>5
    <3>10. Runs(QuotedTurn, a, b)
      BY <3>8, <3>9, RunsOnce
    <3> QED
      BY <3>10 DEF a, b, p
  <2> QED
    BY <2>2, <2>3
<1>5. Runs(QuotedTurn, Reader(<<>>, s), Reader(<<>> \o t, cr))
  <2>1. piece \in [Char -> Seq(Char)]
    BY DEF Piece
  <2>2. flat \in [Seq(Char) -> Seq(Char)] /\ flat[<<>>] = <<>>
    BY <1>1, <1>3, DoubledText
  <2>3. \A c \in Char, u \in Seq(Char) : flat[<<c>> \o u] = piece[c] \o flat[u]
    <3> TAKE c \in Char, u \in Seq(Char)
    <3>1. <<c>> \o u \in Seq(Char)
      BY HeadOf
    <3>2. Doubled(<<c>> \o u, "bt") = Piece(c, "bt") \o Doubled(u, "bt")
      BY DoubledText
    <3> QED
      BY <3>1, <3>2
  <2>4. \A x \in Seq(Char), r \in Seq(Char) : reader[x][r] = Reader(x, r)
    OBVIOUS
  <2>5. \A x \in Seq(Char), r \in Seq(Char) : reader[x][r].rest = r
    BY <2>4, Readers
  <2>6. ASSUME NEW x \in Seq(Char), NEW c \in Char, NEW r \in Seq(Char)
        PROVE  Runs(QuotedTurn, reader[x][piece[c] \o r], reader[x \o <<c>>][r])
    <3> DEFINE y == x \o <<c>>
               z == Piece(c, "bt") \o r
    <3>1. y \in Seq(Char)
      BY TookOne
    <3>2. piece[c] = Piece(c, "bt") /\ Piece(c, "bt") \in Seq(Char)
      BY DEF Piece
    <3>3. z \in Seq(Char)
      BY <3>2, ConcatProperties
    <3>4. Runs(QuotedTurn, Reader(x, z), Reader(y, r))
      BY <1>4
    <3> HIDE DEF y, z, reader, piece
    <3>5. reader[x][z] = Reader(x, z) /\ reader[y][r] = Reader(y, r)
      BY <2>4, <3>1, <3>3
    <3> QED
      BY <3>2, <3>4, <3>5, Zenon DEF y, z
  <2> HIDE DEF reader, piece
  <2>7. \A u \in Seq(Char), x \in Seq(Char), r \in Seq(Char) :
            Runs(QuotedTurn, reader[x][flat[u] \o r], reader[x \o u][r])
    <3> HIDE DEF flat
    <3>1. Takes(QuotedTurn, Char, Char, reader, piece, flat)
      BY <2>1, <2>2, <2>3, <2>5, <2>6 DEF Takes
    <3>2. Char \in SUBSET Char
      OBVIOUS
    <3> QED
      BY <3>1, <3>2, TakesAll
  <2>8. Runs(QuotedTurn, reader[<<>>][flat[t] \o cr], reader[<<>> \o t][cr])
    BY <1>1, <1>2, <2>7
  <2>9. flat[t] = Doubled(t, "bt")
    OBVIOUS
  <2>10. s \in Seq(Char) /\ <<>> \o t \in Seq(Char)
    BY <1>1, <1>2, <1>3, ConcatProperties
  <2> HIDE DEF flat, cr
  <2>11. flat[t] \o cr = s
    BY <2>9
  <2> HIDE DEF s
  <2>12. reader[<<>>][s] = Reader(<<>>, s) /\ reader[<<>> \o t][cr] = Reader(<<>> \o t, cr)
    BY <1>1, <1>2, <2>4, <2>10
  <2> QED
    BY <2>8, <2>11, <2>12, Zenon
<1>6. <<>> \o t = t /\ s \in Seq(Char)
  BY <1>2, <1>3, ConcatEmptySeq, ConcatProperties
<1> HIDE DEF s, cr
<1> DEFINE a == Reader(t, cr)
           b == Ended(t, rest)
<1>7. a \in Reading /\ a.rest = cr /\ a.text = t /\ ~a.closed
  BY <1>2, Readers
<1>8. b \in Reading /\ b.closed /\ b = Ended(t, rest) /\ b.rest = rest
  BY Readers
<1>9. Closed(a) = b
  BY <1>2, <1>7 DEF Closed
<1>10. Runs(QuotedTurn, Opened(s), a)
  BY <1>5, <1>6 DEF Opened
<1> HIDE DEF a, b
<1>11. QuotedTurn[a] = b
  BY <1>2, <1>7, <1>9 DEF QuotedTurn, StartsWith
<1>12. QuotedTurn[b] = b
  BY <1>8 DEF QuotedTurn
<1>13. Len(a.rest) \in Nat /\ Len(b.rest) \in Nat /\ Len(b.rest) < Len(a.rest)
  BY <1>2, <1>7, <1>8
<1>14. IfClosed(Loop(QuotedTurn, Opened(s), Len(s))) = Read(t, rest)
  <2>1. Closing(QuotedTurn, s, a, b)
    BY <1>8, <1>10, <1>11, <1>12, <1>13 DEF Closing
  <2> QED
    BY <1>8, <2>1, Closes
<1> QED
  BY <1>14 DEF Quoted, s, cr

LEMMA HeadOfBoth ==
  ASSUME NEW S, NEW s \in Seq(S), NEW t \in Seq(S), s # <<>>
  PROVE  s \o t \in Seq(S) /\ s \o t # <<>> /\ Head(s \o t) = Head(s) /\ Len(t) < Len(s \o t)
<1> DEFINE h == Head(s)
           u == Tail(s)
<1>1. h \in S /\ u \in Seq(S) /\ s = <<h>> \o u
  BY Decomposed
<1> HIDE DEF h, u
<1>2. (<<h>> \o u) \o t = <<h>> \o (u \o t) /\ u \o t \in Seq(S)
  BY <1>1, Onwards
<1> DEFINE w == u \o t
<1>3. Len(w) = Len(u) + Len(t) /\ Len(u) \in Nat /\ Len(t) \in Nat
  BY <1>1, ConcatProperties
<1>4. w \in Seq(S)
  BY <1>2
<1>5. s \o t = <<h>> \o w
  BY <1>1, <1>2
<1> HIDE DEF w
<1>6. <<h>> \o w \in Seq(S) /\ <<h>> \o w # <<>> /\ Head(<<h>> \o w) = h /\ Len(<<h>> \o w) = Len(w) + 1
  BY <1>1, <1>4, HeadOf
<1> QED
  BY <1>3, <1>5, <1>6 DEF h

LEMMA Doubles ==
  ASSUME NEW q, NEW C, NEW t \in Seq(C), t # <<>>
  PROVE  Doubled(t, q) \in Seq(C) /\ Doubled(t, q) # <<>> /\ Head(Doubled(t, q)) = Head(t)
<1> DEFINE h == Head(t)
           u == Tail(t)
           d == Doubled(u, q)
<1>1. h \in C /\ u \in Seq(C) /\ t = <<h>> \o u
  BY Decomposed
<1> HIDE DEF h, u
<1>2. Doubled(<<h>> \o u, q) = Piece(h, q) \o d /\ d \in Seq(C) /\ Doubled(t, q) \in Seq(C)
  BY <1>1, DoubledText
<1> HIDE DEF d
<1> DEFINE p == Piece(h, q)
<1>3. p \in Seq(C) /\ p # <<>> /\ Head(p) = h
  BY <1>1 DEF Piece
<1> HIDE DEF p
<1>4. p \o d # <<>> /\ Head(p \o d) = h
  BY <1>2, <1>3, HeadOfBoth
<1>5. Doubled(t, q) = p \o d
  BY <1>1, <1>2 DEF p
<1> QED
  BY <1>2, <1>4, <1>5 DEF h

\* The first character of a written name tells how it is read.
LEMMA NameHead ==
  ASSUME NEW n \in Names
  PROVE  /\ EncodeName(n) \in Seq(Char) /\ EncodeName(n) # <<>>
         /\ Head(EncodeName(n)) \in Simple \cup {"bt"}
<1>1. n \in Seq(Char) /\ n # <<>>
  BY DEF Names
<1>2. CASE ToSet(n) \subseteq Simple
  <2>1. Head(n) \in Simple
    BY <1>1, <1>2 DEF ToSet
  <2> QED
    BY <1>1, <1>2, <2>1 DEF EncodeName
<1>3. CASE ~(ToSet(n) \subseteq Simple)
  <2> DEFINE d == Doubled(n, "bt")
             x == d \o <<"bt">>
  <2>1. "bt" \in Char
    BY Characters
  <2>2. d \in Seq(Char) /\ <<"bt">> \in Seq(Char)
    BY <1>1, <2>1, Doubles
  <2> HIDE DEF d
  <2>3. x \in Seq(Char)
    BY <2>2, ConcatProperties
  <2>4. (<<"bt">> \o d) \o <<"bt">> = <<"bt">> \o x
    BY <2>2, Associated
  <2> HIDE DEF x
  <2>5. <<"bt">> \o x \in Seq(Char) /\ <<"bt">> \o x # <<>> /\ Head(<<"bt">> \o x) = "bt"
    BY <2>1, <2>3, HeadOf
  <2>6. EncodeName(n) = <<"bt">> \o x
    BY <1>3, <2>4 DEF EncodeName, d
  <2> QED
    BY <2>5, <2>6
<1> QED
  BY <1>2, <1>3

\* A name is read back, plain or quoted.
LEMMA NameReads ==
  ASSUME NEW n \in Names, NEW c \in Delimiters \ {"bt"}, NEW r \in Seq(Char)
  PROVE  ReadName(EncodeName(n) \o (<<c>> \o r)) = Read(n, <<c>> \o r)
<1> DEFINE rest == <<c>> \o r
<1>1. n \in Seq(Char) /\ n # <<>>
  BY DEF Names
<1>2. c \in Char /\ c \notin Simple /\ c # "bt" /\ "bt" \in Char /\ "bt" \notin Simple
  <2>1. "bt" \in Delimiters
    BY DEF Delimiters
  <2> QED
    BY <2>1, Characters
<1>3. rest \in Seq(Char) /\ rest # <<>> /\ Head(rest) = c
  BY <1>2, HeadOf
<1> HIDE DEF rest
<1>4. NotEmpty(Read(n, rest)) = Read(n, rest)
  BY <1>1 DEF NotEmpty, Read
<1>5. CASE ToSet(n) \subseteq Simple
  <2> DEFINE s == n \o rest
  <2>1. n \in Seq(Simple)
    BY <1>1, <1>5 DEF ToSet
  <2>2. Plain(s) = Read(n, rest)
    BY <1>2, <1>3, <2>1, PlainReads
  <2>3. s # <<>> /\ Head(s) = Head(n)
    BY <1>1, <1>3, HeadOfBoth
  <2>4. Head(n) \in Simple
    BY <1>1, <2>1
  <2>5. EncodeName(n) \o rest = s
    BY <1>5 DEF EncodeName
  <2> HIDE DEF s
  <2>6. ~StartsWith(s, "bt")
    BY <1>2, <2>3, <2>4 DEF StartsWith
  <2> QED
    BY <1>4, <2>2, <2>5, <2>6 DEF ReadName, rest
<1>6. CASE ~(ToSet(n) \subseteq Simple)
  <2> DEFINE d == Doubled(n, "bt")
             b == <<"bt">>
             x == d \o (b \o rest)
  <2>1. d \in Seq(Char) /\ b \in Seq(Char)
    BY <1>1, <1>2, Doubles
  <2>2. ~StartsWith(rest, "bt")
    BY <1>2, <1>3 DEF StartsWith
  <2>3. Quoted(x) = Read(n, rest)
    BY <1>1, <1>3, <2>2, QuotedReads
  <2> HIDE DEF d
  <2>4. b \o rest \in Seq(Char) /\ x \in Seq(Char)
    <3> HIDE DEF b, x
    <3>1. b \o rest \in Seq(Char)
      BY <1>3, <2>1, ConcatProperties
    <3> QED
      BY <2>1, <3>1, ConcatProperties DEF x
  <2>5. <<"bt">> \o x # <<>> /\ Head(<<"bt">> \o x) = "bt" /\ Tail(<<"bt">> \o x) = x
    <3> HIDE DEF b, x
    <3> QED
      BY <1>2, <2>4, HeadOf
  <2>6. ((b \o d) \o b) \o rest = b \o x
    <3> HIDE DEF b
    <3>1. ((b \o d) \o b) \o rest = (b \o d) \o (b \o rest)
      <4>1. b \o d \in Seq(Char)
        BY <2>1, ConcatProperties
      <4> QED
        BY <1>3, <2>1, <4>1, Associated
    <3>2. (b \o d) \o (b \o rest) = b \o x
      BY <2>1, <2>4, Associated
    <3> QED
      BY <3>1, <3>2
  <2>7. EncodeName(n) = (b \o d) \o b
    BY <1>6 DEF EncodeName, d
  <2> DEFINE s == <<"bt">> \o x
  <2>8. EncodeName(n) \o rest = s
    <3> HIDE DEF x, d
    <3> QED
      BY <2>6, <2>7
  <2>9. s # <<>> /\ Head(s) = "bt" /\ Tail(s) = x
    BY <2>5
  <2> HIDE DEF s, x
  <2>10. ReadName(s) = Read(n, rest)
    BY <1>4, <2>3, <2>9 DEF ReadName, StartsWith
  <2> QED
    BY <2>8, <2>10 DEF rest
<1> QED
  BY <1>5, <1>6

-----------------------------------------------------------------------------
(* A descriptor is read back, whatever follows it.                         *)

\* No two kinds of descriptor have one sign.
LEMMA SignsDiffer ==
  /\ \A x \in DOMAIN Signs : Signs[x] \in Delimiters \ {"bt", "(", "~", "sp"}
  /\ \A x, y \in DOMAIN Signs : Signs[x] = Signs[y] => x = y
<1>1. /\ DOMAIN Signs = {"namespace", "type", "term", "meta", "macro"}
      /\ Signs["namespace"] = "/" /\ Signs["type"] = "#" /\ Signs["term"] = "."
      /\ Signs["meta"] = ":" /\ Signs["macro"] = "!"
  BY DEF Signs
<1>2. \A x \in DOMAIN Signs : Signs[x] \in Delimiters
  BY Characters
<1> QED
  BY <1>1, <1>2

LEMMA Joined ==
  \A u, v \in Seq(Char) : u \o v \in Seq(Char)
BY ConcatProperties

Regroups(a, b, c, e, r) ==
  (((a \o b) \o c) \o e) \o r = a \o (b \o (c \o (e \o r)))

Groups(u, v, w) == (u \o v) \o w = u \o (v \o w)

LEMMA Grouped ==
  \A u, v, w \in Seq(Char) : Groups(u, v, w) /\ u \o v \in Seq(Char)
BY Associated, Joined DEF Groups

LEMMA FourParts ==
  \A a, b, c, e, r \in Seq(Char) : Regroups(a, b, c, e, r)
<1> TAKE a, b, c, e, r \in Seq(Char)
<1> DEFINE ab == a \o b
           er == e \o r
           abc == ab \o c
           cer == c \o er
<1>1. ab \in Seq(Char) /\ er \in Seq(Char)
  BY Joined
<1> HIDE DEF ab, er
<1>2. abc \in Seq(Char) /\ cer \in Seq(Char)
  BY <1>1, Joined
<1> HIDE DEF abc, cer
<1>3. Groups(a, b, cer) /\ Groups(ab, c, er) /\ Groups(abc, e, r)
  BY <1>1, <1>2, Grouped
<1>4. ab \o cer = a \o (b \o cer)
  BY <1>3 DEF Groups, ab
<1>5. abc \o er = ab \o cer
  BY <1>3 DEF Groups, abc, cer
<1>6. (abc \o e) \o r = abc \o er
  BY <1>3 DEF Groups, er
<1>7. (abc \o e) \o r = a \o (b \o cer)
  BY <1>4, <1>5, <1>6
<1> QED
  BY <1>7 DEF Regroups, abc, ab, cer, er

LEMMA FourJoined ==
  \A a, b, c, e \in Seq(Char) : ((a \o b) \o c) \o e \in Seq(Char)
<1> TAKE a, b, c, e \in Seq(Char)
<1> DEFINE ab == a \o b
<1>1. ab \in Seq(Char)
  BY Joined
<1> HIDE DEF ab
<1> DEFINE abc == ab \o c
<1>2. abc \in Seq(Char)
  BY <1>1, Joined
<1> HIDE DEF abc
<1>3. abc \o e \in Seq(Char)
  BY <1>2, Joined
<1> QED
  BY <1>3 DEF abc, ab

LEMMA Disambiguators ==
  ASSUME NEW d \in Descriptors
  PROVE  /\ d.dis \in Seq(Char) /\ d.dis \in Seq(Char \ {")"}) /\ d.dis \in Seq(Char \ {"~"})
         /\ d.dis \in Seq(Char \ {"bt", "sp"})
<1> DEFINE D == Char \ {"bt", "sp", ")", "~"}
           x == d.dis
<1>1. x \in Seq(D)
  BY DEF Descriptors
<1>2. /\ D \subseteq Char /\ D \subseteq Char \ {")"} /\ D \subseteq Char \ {"~"}
      /\ D \subseteq Char \ {"bt", "sp"}
  OBVIOUS
<1> HIDE DEF D, x
<1>3. /\ Seq(D) \subseteq Seq(Char) /\ Seq(D) \subseteq Seq(Char \ {")"})
      /\ Seq(D) \subseteq Seq(Char \ {"~"}) /\ Seq(D) \subseteq Seq(Char \ {"bt", "sp"})
  BY <1>2, SeqMonotonic
<1> QED
  BY <1>1, <1>3 DEF x

\* A descriptor that begins with its name is told by what follows the name.
LEMMA SuffixComes ==
  ASSUME NEW n \in Names, NEW c \in Delimiters \ {"bt"}, NEW r \in Seq(Char)
  PROVE  ParseDescriptor(EncodeName(n) \o (<<c>> \o r)) = Suffixed(Read(n, <<c>> \o r))
<1> DEFINE rest == <<c>> \o r
           s == EncodeName(n) \o rest
<1>1. ReadName(s) = Read(n, rest)
  BY NameReads
<1>2. rest \in Seq(Char)
  <2>1. c \in Char
    BY Characters
  <2> QED
    BY <2>1, HeadOf
<1> HIDE DEF rest
<1>3. Head(s) \in Simple \cup {"bt"}
  BY <1>2, NameHead, HeadOfBoth
<1>4. "(" \notin Simple /\ "[" \notin Simple
  <2>1. "(" \in Delimiters /\ "[" \in Delimiters
    BY DEF Delimiters
  <2> QED
    BY <2>1, Characters
<1> HIDE DEF s
<1>5. Head(s) \notin DOMAIN Bracketed
  BY <1>3, <1>4 DEF Bracketed
<1> QED
  BY <1>1, <1>5 DEF ParseDescriptor, s, rest

ReadsBack(p, d, rest) == p.ok /\ p.of = d /\ p.rest = rest

\* Each kind of descriptor is read back: methods,
LEMMA MethodReads ==
  ASSUME NEW d \in Descriptors, d.suffix = "method", NEW rest \in Seq(Char)
  PROVE  /\ EncodeDescriptor(d) \in Seq(Char)
         /\ ReadsBack(ParseDescriptor(EncodeDescriptor(d) \o rest), d, rest)
<1> DEFINE name == EncodeName(d.name)
           dis == d.dis
           x4 == <<".">> \o rest
           x3 == <<")">> \o x4
           x2 == dis \o x3
           x1 == <<"(">> \o x2
           e == EncodeDescriptor(d)
<1>1. /\ d.name \in Names /\ dis \in Seq(Char \ {"bt", "sp", ")", "~"})
      /\ d = [name |-> d.name, suffix |-> "method", dis |-> dis]
  BY DEF Descriptors
<1>2. dis \in Seq(Char \ {")"}) /\ dis \in Seq(Char)
  BY Disambiguators
<1>3. name \in Seq(Char)
  BY <1>1, NameHead
<1>4. "(" \in Char /\ ")" \in Char /\ "." \in Char /\ "(" \in Delimiters
  BY Characters DEF Delimiters
<1>5. e = ((name \o <<"(">>) \o dis) \o <<")", ".">>
  BY DEF EncodeDescriptor
<1> HIDE DEF name, dis, e
<1>6. /\ x4 \in Seq(Char) /\ x4 # <<>> /\ Head(x4) = "."
      /\ Drop(x4, 1) = rest
  BY <1>4, HeadOf, DropOne
<1>7. <<")", ".">> \o rest = x3 /\ <<")", ".">> \in Seq(Char)
  <2>1. <<")", ".">> = <<")">> \o <<".">> /\ <<")">> \in Seq(Char) /\ <<".">> \in Seq(Char)
    BY <1>4
  <2>2. (<<")">> \o <<".">>) \o rest = <<")">> \o (<<".">> \o rest)
    BY <2>1, Associated
  <2> QED
    BY <1>4, <2>1, <2>2
<1> HIDE DEF x4
<1>8. x3 \in Seq(Char)
  BY <1>4, <1>6, HeadOf
<1>9. UpTo(x2, ")") = Read(dis, x4)
  BY <1>2, <1>4, <1>6, UpToReads
<1> HIDE DEF x3
<1>10. x2 \in Seq(Char)
  BY <1>2, <1>8, ConcatProperties
<1>11. e \o rest = name \o x1 /\ e \in Seq(Char)
  <2> DEFINE t == <<")", ".">>
             p == <<"(">>
  <2>1. p \in Seq(Char) /\ t \in Seq(Char)
    BY <1>4, <1>7
  <2>2. t \o rest = x3 /\ e = ((name \o p) \o dis) \o t
    BY <1>5, <1>7
  <2> HIDE DEF t, p
  <2>3. /\ (((name \o p) \o dis) \o t) \o rest = name \o (p \o (dis \o (t \o rest)))
        /\ ((name \o p) \o dis) \o t \in Seq(Char)
    <3>1. name \in Seq(Char) /\ p \in Seq(Char) /\ dis \in Seq(Char) /\ t \in Seq(Char)
      BY <1>2, <1>3, <2>1
    <3>2. Regroups(name, p, dis, t, rest)
      BY <3>1, FourParts
    <3>3. ((name \o p) \o dis) \o t \in Seq(Char)
      BY <3>1, FourJoined, Zenon
    <3> QED
      BY <3>2, <3>3 DEF Regroups
  <2> QED
    BY <2>2, <2>3 DEF p
<1> HIDE DEF x2
<1>12. ParseDescriptor(name \o x1) = Suffixed(Read(d.name, x1))
  BY <1>1, <1>4, <1>10, SuffixComes DEF name
<1>13. x1 # <<>> /\ Head(x1) = "(" /\ Tail(x1) = x2
  BY <1>4, <1>10, HeadOf
<1> HIDE DEF x1
<1>14. Suffixed(Read(d.name, x1)) = Method(Read(d.name, x1), Read(dis, x4))
  BY <1>9, <1>13 DEF Suffixed, Read, StartsWith
<1>15. ReadsBack(Method(Read(d.name, x1), Read(dis, x4)), d, rest)
  BY <1>1, <1>6 DEF ReadsBack, Method, Read, StartsWith, Descriptor
<1> QED
  BY <1>11, <1>12, <1>14, <1>15 DEF e

\* locals,
LEMMA LocalReads ==
  ASSUME NEW d \in Descriptors, d.suffix = "local", NEW rest \in Seq(Char)
  PROVE  /\ EncodeDescriptor(d) \in Seq(Char)
         /\ ReadsBack(ParseDescriptor(EncodeDescriptor(d) \o rest), d, rest)
<1> DEFINE name == EncodeName(d.name)
           dis == d.dis
           x3 == <<"~">> \o rest
           x2 == dis \o x3
           x1 == <<"~">> \o x2
           e == EncodeDescriptor(d)
<1>1. /\ d.name \in Names /\ dis \in Seq(Char \ {"bt", "sp", ")", "~"})
      /\ d = [name |-> d.name, suffix |-> "local", dis |-> dis]
  BY DEF Descriptors
<1>2. dis \in Seq(Char \ {"~"}) /\ dis \in Seq(Char)
  BY Disambiguators
<1>3. name \in Seq(Char)
  BY <1>1, NameHead
<1>4. "~" \in Char /\ "~" \in Delimiters
  BY Characters DEF Delimiters
<1>5. e = ((name \o <<"~">>) \o dis) \o <<"~">>
  BY DEF EncodeDescriptor
<1> HIDE DEF name, dis, e
<1>6. UpTo(x2, "~") = Read(dis, rest)
  BY <1>2, <1>4, UpToReads
<1>7. x3 \in Seq(Char)
  BY <1>4, HeadOf
<1> HIDE DEF x3
<1>8. x2 \in Seq(Char)
  BY <1>2, <1>7, ConcatProperties
<1>9. e \o rest = name \o x1 /\ e \in Seq(Char)
  <2> DEFINE p == <<"~">>
  <2>1. p \in Seq(Char)
    BY <1>4
  <2>2. p \o rest = x3 /\ e = ((name \o p) \o dis) \o p
    BY <1>5 DEF x3
  <2> HIDE DEF p
  <2>3. /\ (((name \o p) \o dis) \o p) \o rest = name \o (p \o (dis \o (p \o rest)))
        /\ ((name \o p) \o dis) \o p \in Seq(Char)
    <3>1. name \in Seq(Char) /\ p \in Seq(Char) /\ dis \in Seq(Char) /\ p \in Seq(Char)
      BY <1>2, <1>3, <2>1
    <3>2. Regroups(name, p, dis, p, rest)
      BY <3>1, FourParts
    <3>3. ((name \o p) \o dis) \o p \in Seq(Char)
      BY <3>1, FourJoined, Zenon
    <3> QED
      BY <3>2, <3>3 DEF Regroups
  <2> QED
    BY <2>2, <2>3 DEF p
<1> HIDE DEF x2
<1>10. ParseDescriptor(name \o x1) = Suffixed(Read(d.name, x1))
  BY <1>1, <1>4, <1>8, SuffixComes DEF name
<1>11. x1 # <<>> /\ Head(x1) = "~" /\ Tail(x1) = x2
  BY <1>4, <1>8, HeadOf
<1> HIDE DEF x1
<1>12. Suffixed(Read(d.name, x1)) = Local(Read(d.name, x1), Read(dis, rest))
  BY <1>6, <1>11 DEF Suffixed, Read, StartsWith
<1>13. ReadsBack(Local(Read(d.name, x1), Read(dis, rest)), d, rest)
  BY <1>1 DEF ReadsBack, Local, Read, StartsWith, Descriptor
<1> QED
  BY <1>9, <1>10, <1>12, <1>13 DEF e

\* those with a sign,
LEMMA SignedReads ==
  ASSUME NEW d \in Descriptors, d.suffix \in DOMAIN Signs, NEW rest \in Seq(Char)
  PROVE  /\ EncodeDescriptor(d) \in Seq(Char)
         /\ ReadsBack(ParseDescriptor(EncodeDescriptor(d) \o rest), d, rest)
<1> DEFINE name == EncodeName(d.name)
           c == Signs[d.suffix]
           x1 == <<c>> \o rest
           e == EncodeDescriptor(d)
<1>1. d.name \in Names /\ d = [name |-> d.name, suffix |-> d.suffix, dis |-> <<>>]
  <2>1. d.suffix \notin {"method", "local", "parameter", "type-parameter"}
    BY DEF Signs
  <2>2. d.dis = <<>>
    BY <2>1 DEF Descriptors
  <2> QED
    BY <2>2 DEF Descriptors
<1>2. name \in Seq(Char)
  BY <1>1, NameHead
<1>3. c \in Char /\ c \in Delimiters \ {"bt", "(", "~", "sp"}
  BY SignsDiffer, Characters
<1>4. e = name \o <<c>> /\ <<c>> \in Seq(Char) /\ e \in Seq(Char)
  <2>1. e = Append(name, c)
    BY DEF EncodeDescriptor, Signs
  <2>2. Append(name, c) = name \o <<c>> /\ Append(name, c) \in Seq(Char)
    BY <1>2, <1>3, AppendIsConcat, AppendProperties
  <2>3. <<c>> \in Seq(Char)
    <3>1. c \in Char
      BY <1>3
    <3> HIDE DEF c
    <3> QED
      BY <3>1
  <2> HIDE DEF name, c, e
  <2> QED
    BY <2>1, <2>2, <2>3, Zenon
<1>5. \A x \in DOMAIN Signs : Signs[x] = c => x = d.suffix
  BY SignsDiffer
<1> HIDE DEF name, c, e
<1>6. e \o rest = name \o x1
  BY <1>2, <1>4, Associated
<1>7. ParseDescriptor(name \o x1) = Suffixed(Read(d.name, x1))
  BY <1>1, <1>3, SuffixComes DEF name
<1>8. x1 # <<>> /\ Head(x1) = c /\ Tail(x1) = rest
  BY <1>3, HeadOf
<1> HIDE DEF x1
<1> DEFINE r == Read(d.name, x1)
<1>9. r.rest = x1 /\ r.text = d.name /\ r.ok
  BY DEF Read
<1> HIDE DEF r
<1>10. Suffixed(r) = Signed(r)
  BY <1>3, <1>8, <1>9 DEF Suffixed, StartsWith
<1>11. {x \in DOMAIN Signs : StartsWith(r.rest, Signs[x])} = {d.suffix}
  BY <1>5, <1>8, <1>9 DEF StartsWith, c
<1>12. (CHOOSE x \in {d.suffix} : TRUE) = d.suffix
  OBVIOUS
<1>13. ReadsBack(Signed(r), d, rest)
  <2>1. Signed(r) = Descriptor(r.ok, r.text, d.suffix, <<>>, Tail(r.rest))
    BY <1>11, <1>12 DEF Signed
  <2> QED
    BY <1>1, <1>8, <1>9, <2>1 DEF ReadsBack, Descriptor
<1> QED
  BY <1>4, <1>6, <1>7, <1>10, <1>13 DEF e, r

LEMMA BracketReads ==
  ASSUME NEW d \in Descriptors, d.suffix \in {"parameter", "type-parameter"}, NEW rest \in Seq(Char)
  PROVE  /\ EncodeDescriptor(d) \in Seq(Char) /\ EncodeDescriptor(d) # <<>>
         /\ Head(EncodeDescriptor(d)) \in {"(", "["}
         /\ ReadsBack(ParseDescriptor(EncodeDescriptor(d) \o rest), d, rest)
<1> DEFINE name == EncodeName(d.name)
           opening == IF d.suffix = "parameter" THEN "(" ELSE "["
           close == IF d.suffix = "parameter" THEN ")" ELSE "]"
           x1 == <<close>> \o rest
           x == name \o x1
           e == EncodeDescriptor(d)
<1>1. d.name \in Names /\ d = [name |-> d.name, suffix |-> d.suffix, dis |-> <<>>]
  BY DEF Descriptors
<1>2. name \in Seq(Char)
  BY <1>1, NameHead
<1>3. /\ opening \in Char /\ opening \in {"(", "["} /\ opening \in DOMAIN Bracketed
      /\ close \in Char /\ close \in Delimiters /\ close # "bt"
      /\ Bracketed[opening].suffix = d.suffix /\ Bracketed[opening].close = close
  <2>1. opening \in Char /\ close \in Char
    BY Characters
  <2>2. close \in Delimiters /\ close # "bt" /\ opening \in {"(", "["}
    BY DEF Delimiters
  <2>3. opening \in DOMAIN Bracketed
    BY DEF Bracketed
  <2>4. Bracketed[opening].suffix = d.suffix /\ Bracketed[opening].close = close
    BY DEF Bracketed
  <2> QED
    BY <2>1, <2>2, <2>3, <2>4
<1>4. e = (<<opening>> \o name) \o <<close>>
  BY DEF EncodeDescriptor
<1> HIDE DEF name, opening, close, e
<1>5. <<opening>> \in Seq(Char) /\ <<close>> \in Seq(Char)
  BY <1>3
<1>6. ReadName(x) = Read(d.name, x1)
  BY <1>1, <1>3, NameReads DEF name
<1>7. x1 \in Seq(Char) /\ x1 # <<>> /\ Head(x1) = close /\ Drop(x1, 1) = rest
  BY <1>3, HeadOf, DropOne
<1>8. e \o rest = <<opening>> \o x
  <2> DEFINE p == <<opening>> \o name
             t == <<close>>
  <2>1. p \in Seq(Char) /\ t \in Seq(Char)
    BY <1>2, <1>5, Joined
  <2>2. p \o x1 = <<opening>> \o x
    <3> HIDE DEF x1
    <3> QED
      BY <1>2, <1>5, <1>7, Associated
  <2>3. e = p \o t /\ x1 = t \o rest
    BY <1>4
  <2> HIDE DEF p, t, x1, x
  <2>4. (p \o t) \o rest = p \o (t \o rest)
    BY <2>1, Associated
  <2> QED
    BY <2>2, <2>3, <2>4
<1>9. e \in Seq(Char) /\ e # <<>> /\ Head(e) = opening
  <2>1. name \o <<close>> \in Seq(Char)
    BY <1>2, <1>5, Joined
  <2>2. e = <<opening>> \o (name \o <<close>>)
    BY <1>2, <1>4, <1>5, Associated
  <2> DEFINE y == name \o <<close>>
  <2> HIDE DEF y
  <2>3. <<opening>> \o y \in Seq(Char) /\ <<opening>> \o y # <<>> /\ Head(<<opening>> \o y) = opening
    BY <1>3, <2>1, HeadOf DEF y
  <2> QED
    BY <2>2, <2>3 DEF y
<1> HIDE DEF x1
<1>10. x \in Seq(Char)
  BY <1>2, <1>7, Joined
<1> HIDE DEF x
<1> DEFINE s == <<opening>> \o x
<1>11. Head(s) = opening /\ Tail(s) = x
  BY <1>3, <1>10, HeadOf
<1> HIDE DEF s
<1>12. ParseDescriptor(s) = Bracket(Bracketed[opening], Read(d.name, x1))
  BY <1>3, <1>6, <1>11 DEF ParseDescriptor
<1>13. ReadsBack(Bracket(Bracketed[opening], Read(d.name, x1)), d, rest)
  <2> DEFINE form == Bracketed[opening]
             r == Read(d.name, x1)
  <2>1. form.suffix = d.suffix /\ form.close = close
    BY <1>3
  <2>2. r.ok /\ r.text = d.name /\ r.rest = x1
    BY DEF Read
  <2> HIDE DEF form, r
  <2>3. StartsWith(r.rest, form.close)
    BY <1>7, <2>1, <2>2 DEF StartsWith
  <2>4. Drop(r.rest, 1) = rest
    BY <1>7, <2>2
  <2>5. ReadsBack(Bracket(form, r), d, rest)
    BY <1>1, <2>1, <2>2, <2>3, <2>4 DEF ReadsBack, Bracket, Descriptor
  <2> QED
    BY <2>5 DEF form, r
<1> QED
  BY <1>3, <1>8, <1>9, <1>12, <1>13 DEF e, s

LEMMA ShortTexts ==
  \A c, d \in Char : <<c>> \in Seq(Char) /\ <<c, d>> \in Seq(Char)
OBVIOUS

LEMMA Marks ==
  /\ <<"(">> \in Seq(Char) /\ <<")", ".">> \in Seq(Char) /\ <<"~">> \in Seq(Char)
  /\ <<"bt">> \in Seq(Char) /\ <<"sp">> \in Seq(Char)
<1>1. /\ "(" \in Char /\ ")" \in Char /\ "." \in Char /\ "~" \in Char /\ "bt" \in Char
      /\ "sp" \in Char
  BY Characters
<1> QED
  BY <1>1, ShortTexts, Zenon

LEMMA SuffixKinds ==
  DescriptorSuffixes = DOMAIN Signs \cup {"method", "type-parameter", "parameter", "local"}
BY DEF DescriptorSuffixes

\* A descriptor is read back, and its first character is no space.
LEMMA DescriptorReads ==
  ASSUME NEW d \in Descriptors
  PROVE  /\ EncodeDescriptor(d) \in Seq(Char) /\ EncodeDescriptor(d) # <<>>
         /\ Head(EncodeDescriptor(d)) # "sp"
         /\ \A rest \in Seq(Char) :
              ReadsBack(ParseDescriptor(EncodeDescriptor(d) \o rest), d, rest)
<1> DEFINE e == EncodeDescriptor(d)
           name == EncodeName(d.name)
<1>1. /\ d.suffix \in DOMAIN Signs
         \/ d.suffix = "method" \/ d.suffix = "local" \/ d.suffix \in {"parameter", "type-parameter"}
      /\ d.name \in Names
  BY SuffixKinds DEF Descriptors
<1>2. \A rest \in Seq(Char) : ReadsBack(ParseDescriptor(e \o rest), d, rest)
  BY <1>1, MethodReads, LocalReads, SignedReads, BracketReads
<1>3. e \in Seq(Char)
  <2>1. <<>> \in Seq(Char)
    OBVIOUS
  <2> QED
    BY <1>1, <2>1, MethodReads, LocalReads, SignedReads, BracketReads
<1>4. e # <<>> /\ Head(e) # "sp"
  <2>1. CASE d.suffix \in {"parameter", "type-parameter"}
    <3>1. <<>> \in Seq(Char)
      OBVIOUS
    <3>2. e # <<>> /\ Head(e) \in {"(", "["}
      BY <2>1, <3>1, BracketReads
    <3> QED
      BY <3>2
  <2>2. CASE d.suffix \notin {"parameter", "type-parameter"}
    <3>1. name \in Seq(Char) /\ name # <<>> /\ Head(name) \in Simple \cup {"bt"}
      BY <1>1, NameHead
    <3>2. "sp" \notin Simple
      <4>1. "sp" \in Delimiters
        BY DEF Delimiters
      <4> QED
        BY <4>1, Characters
    <3>3. \E y \in Seq(Char) : e = name \o y
      <4>1. CASE d.suffix \in DOMAIN Signs
        <5> DEFINE c == Signs[d.suffix]
        <5>1. c \in Char
          BY <4>1, Characters
        <5>2. e = Append(name, c)
          BY <4>1 DEF EncodeDescriptor, Signs
        <5> HIDE DEF c, e, name
        <5>3. e = name \o <<c>> /\ <<c>> \in Seq(Char)
          BY <3>1, <5>1, <5>2, AppendIsConcat
        <5> QED
          BY <5>3
      <4>2. ASSUME NEW p \in Seq(Char), NEW t \in Seq(Char), e = ((name \o p) \o d.dis) \o t
            PROVE  \E y \in Seq(Char) : e = name \o y
        <5> DEFINE dis == d.dis
        <5>1. dis \in Seq(Char) /\ e = ((name \o p) \o dis) \o t
          BY <4>2, Disambiguators
        <5> HIDE DEF dis, name, e
        <5> DEFINE y == p \o (dis \o t)
                   z == dis \o t
        <5>2. z \in Seq(Char) /\ y \in Seq(Char)
          BY <5>1, Joined
        <5>3. Regroups(name, p, dis, t, <<>>)
          <6>1. <<>> \in Seq(Char)
            OBVIOUS
          <6> HIDE DEF y, z
          <6> QED
            BY <3>1, <5>1, <6>1, FourParts
        <5>4. t \o <<>> = t
          BY ConcatEmptySeq
        <5>5. e \o <<>> = e
          BY <1>3, ConcatEmptySeq
        <5>6. e = name \o y
          BY <5>1, <5>3, <5>4, <5>5 DEF Regroups
        <5> QED
          BY <5>2, <5>6
      <4>3. CASE d.suffix = "method"
        <5>1. e = ((name \o <<"(">>) \o d.dis) \o <<")", ".">>
          BY <4>3 DEF EncodeDescriptor
        <5>2. <<"(">> \in Seq(Char) /\ <<")", ".">> \in Seq(Char)
          BY Marks
        <5> HIDE DEF e, name
        <5> QED
          BY <4>2, <5>1, <5>2
      <4>4. CASE d.suffix = "local"
        <5>1. e = ((name \o <<"~">>) \o d.dis) \o <<"~">>
          BY <4>4 DEF EncodeDescriptor
        <5>2. <<"~">> \in Seq(Char)
          BY Marks
        <5> HIDE DEF e, name
        <5> QED
          BY <4>2, <5>1, <5>2
      <4> QED
        BY <1>1, <2>2, <4>1, <4>3, <4>4
    <3> HIDE DEF e, name
    <3>4. PICK y \in Seq(Char) : e = name \o y
      BY <3>3
    <3>5. name \o y # <<>> /\ Head(name \o y) = Head(name)
      BY <3>1, HeadOfBoth
    <3> QED
      BY <3>1, <3>2, <3>4, <3>5
  <2> QED
    BY <2>1, <2>2
<1> QED
  BY <1>2, <1>3, <1>4

-----------------------------------------------------------------------------
(* A path of descriptors.                                                  *)

Encoded(path) == FlattenSeq([i \in DOMAIN path |-> EncodeDescriptor(path[i])])

\* A path is written descriptor by descriptor.
LEMMA EncodedPath ==
  /\ Encoded(<<>>) = <<>>
  /\ \A p \in Seq(Descriptors) : Encoded(p) \in Seq(Char)
  /\ \A d \in Descriptors, p \in Seq(Descriptors) :
        Encoded(<<d>> \o p) = EncodeDescriptor(d) \o Encoded(p)
<1> DEFINE e == [d \in Descriptors |-> EncodeDescriptor(d)]
<1>1. e \in [Descriptors -> Seq(Char)]
  BY DescriptorReads
<1>2. ASSUME NEW p \in Seq(Descriptors)
      PROVE  Encoded(p) = FlattenSeq([i \in DOMAIN p |-> e[p[i]]])
  <2>1. \A i \in DOMAIN p : p[i] \in Descriptors
    OBVIOUS
  <2>2. \A i \in DOMAIN p : e[p[i]] = EncodeDescriptor(p[i])
    BY <2>1
  <2>3. [i \in DOMAIN p |-> e[p[i]]] = [i \in DOMAIN p |-> EncodeDescriptor(p[i])]
    BY <2>2
  <2> QED
    BY <2>3 DEF Encoded
<1>3. Encoded(<<>>) = <<>>
  <2>1. <<>> \in Seq(Descriptors)
    OBVIOUS
  <2> HIDE DEF e
  <2>2. Encoded(<<>>) = FlattenSeq([i \in DOMAIN <<>> |-> e[<<>>[i]]])
    BY <1>2, <2>1
  <2> QED
    BY <2>2, MapNothing, FlattenNothing
<1>4. ASSUME NEW p \in Seq(Descriptors)
      PROVE  Encoded(p) \in Seq(Char)
  <2> HIDE DEF e
  <2> DEFINE s == [i \in DOMAIN p |-> e[p[i]]]
  <2>1. s \in Seq(Seq(Char))
    BY <1>1, MapText
  <2> HIDE DEF s
  <2>2. FlattenSeq(s) \in Seq(Char)
    BY <2>1, FlattenIsText
  <2> QED
    BY <1>2, <2>2 DEF s
<1>5. ASSUME NEW d \in Descriptors, NEW p \in Seq(Descriptors)
      PROVE  Encoded(<<d>> \o p) = EncodeDescriptor(d) \o Encoded(p)
  <2> DEFINE u == <<d>> \o p
             s == [i \in DOMAIN p |-> e[p[i]]]
             w == [i \in DOMAIN u |-> e[u[i]]]
  <2>1. e[d] = EncodeDescriptor(d)
    OBVIOUS
  <2> HIDE DEF e
  <2>2. w = <<e[d]>> \o s
    BY <1>1, MapFirst
  <2>3. s \in Seq(Seq(Char)) /\ e[d] \in Seq(Char)
    BY <1>1, MapText
  <2>4. u \in Seq(Descriptors)
    BY HeadOf
  <2> HIDE DEF s, u
  <2>5. FlattenSeq(<<e[d]>> \o s) = e[d] \o FlattenSeq(s)
    <3> DEFINE a == e[d]
    <3>1. a \in Seq(Char)
      BY <2>3
    <3> HIDE DEF a
    <3>2. FlattenSeq(<<a>> \o s) = a \o FlattenSeq(s)
      BY <2>3, <3>1, FlattenFirst
    <3> QED
      BY <3>2 DEF a
  <2>6. Encoded(u) = FlattenSeq(w) /\ Encoded(p) = FlattenSeq(s)
    BY <1>2, <2>4 DEF s
  <2> QED
    BY <2>1, <2>2, <2>5, <2>6 DEF u
<1> QED
  BY <1>3, <1>4, <1>5

\* A path that is there is written with a character at least, never a space first.
LEMMA PathHead ==
  ASSUME NEW p \in Seq(Descriptors), p # <<>>
  PROVE  Encoded(p) # <<>> /\ Head(Encoded(p)) # "sp"
<1> DEFINE d == Head(p)
           q == Tail(p)
<1>1. d \in Descriptors /\ q \in Seq(Descriptors) /\ p = <<d>> \o q
  BY Decomposed
<1> HIDE DEF d, q
<1> DEFINE e == EncodeDescriptor(d)
           r == Encoded(q)
<1>2. e \in Seq(Char) /\ e # <<>> /\ Head(e) # "sp" /\ r \in Seq(Char)
  BY <1>1, DescriptorReads, EncodedPath
<1>3. Encoded(<<d>> \o q) = e \o r
  BY <1>1, EncodedPath
<1> HIDE DEF e, r
<1>4. e \o r # <<>> /\ Head(e \o r) = Head(e)
  BY <1>2, HeadOfBoth
<1> QED
  BY <1>1, <1>2, <1>3, <1>4

LEMMA DescriptorsParse == Descriptors \subseteq Parsed
<1> SUFFICES ASSUME NEW d \in Descriptors PROVE d \in Parsed
  OBVIOUS
<1>1. d.dis \in Seq(Char)
  BY Disambiguators
<1>2. d.name \in Seq(Char) /\ d.suffix \in DescriptorSuffixes
  BY DEF Descriptors, Names
<1>3. d = [name |-> d.name, suffix |-> d.suffix, dis |-> d.dis]
  BY DEF Descriptors
<1> QED
  BY <1>1, <1>2, <1>3 DEF Parsed

LEMMA PathTurn ==
  ASSUME NEW x \in Seq(Descriptors), NEW d \in Descriptors, NEW r \in Seq(Char)
  PROVE  Runs(DescriptorTurn, PathReader(x, EncodeDescriptor(d) \o r), PathReader(x \o <<d>>, r))
<1> DEFINE e == EncodeDescriptor(d)
           s == e \o r
           a == PathReader(x, s)
           b == PathReader(x \o <<d>>, r)
           p == ParseDescriptor(s)
<1>1. e \in Seq(Char) /\ e # <<>> /\ ReadsBack(p, d, r)
  BY DescriptorReads
<1> HIDE DEF e
<1>2. s \in Seq(Char) /\ s # <<>> /\ Len(r) < Len(s)
  BY <1>1, HeadOfBoth
<1>3. x \in Seq(Parsed)
  <2>1. Seq(Descriptors) \subseteq Seq(Parsed)
    BY DescriptorsParse, SeqMonotonic
  <2> QED
    BY <2>1
<1>4. Append(x, d) = x \o <<d>>
  BY AppendIsConcat
<1> HIDE DEF s
<1>5. a \in Parsing /\ a.rest = s /\ a.path = x /\ a.ok
  BY <1>2, <1>3 DEF PathReader, Parsing
<1>6. b.rest = r
  BY DEF PathReader
<1>7. p.ok /\ p.of = d /\ p.rest = r
  BY <1>1 DEF ReadsBack
<1> HIDE DEF p
<1>8. b = PathReader(Append(x, p.of), p.rest)
  BY <1>4, <1>7
<1> HIDE DEF a, b
<1>9. DescriptorTurn[a] = b
  BY <1>2, <1>5, <1>7, <1>8 DEF DescriptorTurn, p
<1>10. Len(a.rest) \in Nat /\ Len(b.rest) \in Nat /\ Len(b.rest) < Len(a.rest)
  BY <1>2, <1>5, <1>6
<1> QED
  BY <1>9, <1>10, RunsOnce DEF a, b, s, e

\* A path is read back (parseDescriptorPath).
LEMMA PathReads ==
  ASSUME NEW p \in Seq(Descriptors)
  PROVE  ParseDescriptorPath(Encoded(p)) = PathReader(p, <<>>)
<1> DEFINE piece == [d \in Descriptors |-> EncodeDescriptor(d)]
           flat == [x \in Seq(Descriptors) |-> Encoded(x)]
           reader == [x \in Seq(Descriptors) |-> [r \in Seq(Char) |-> PathReader(x, r)]]
           s == Encoded(p)
           a == PathReader(<<>>, s)
           b == PathReader(p, <<>>)
<1>1. <<>> \in Seq(Descriptors) /\ <<>> \in Seq(Char)
  OBVIOUS
<1>2. s \in Seq(Char)
  BY EncodedPath
<1>3. Takes(DescriptorTurn, Descriptors, Descriptors, reader, piece, flat)
  <2>1. piece \in [Descriptors -> Seq(Char)]
    BY DescriptorReads
  <2>2. flat \in [Seq(Descriptors) -> Seq(Char)] /\ flat[<<>>] = <<>>
    BY <1>1, EncodedPath
  <2>3. \A d \in Descriptors, u \in Seq(Descriptors) : flat[<<d>> \o u] = piece[d] \o flat[u]
    <3> TAKE d \in Descriptors, u \in Seq(Descriptors)
    <3>1. <<d>> \o u \in Seq(Descriptors)
      BY HeadOf
    <3>2. Encoded(<<d>> \o u) = EncodeDescriptor(d) \o Encoded(u)
      BY EncodedPath
    <3> QED
      BY <3>1, <3>2
  <2>4. \A x \in Seq(Descriptors), r \in Seq(Char) : reader[x][r] = PathReader(x, r)
    OBVIOUS
  <2>5. \A x \in Seq(Descriptors), r \in Seq(Char) : reader[x][r].rest = r
    BY <2>4 DEF PathReader
  <2>6. ASSUME NEW x \in Seq(Descriptors), NEW d \in Descriptors, NEW r \in Seq(Char)
        PROVE  Runs(DescriptorTurn, reader[x][piece[d] \o r], reader[x \o <<d>>][r])
    <3> DEFINE y == x \o <<d>>
               e == EncodeDescriptor(d)
               z == e \o r
    <3>1. y \in Seq(Descriptors)
      BY ConcatProperties
    <3>2. piece[d] = e /\ e \in Seq(Char)
      BY DescriptorReads
    <3>3. Runs(DescriptorTurn, PathReader(x, z), PathReader(y, r))
      BY PathTurn
    <3> HIDE DEF e
    <3>4. z \in Seq(Char)
      BY <3>2, ConcatProperties
    <3> HIDE DEF y, z, reader, piece
    <3>5. reader[x][z] = PathReader(x, z) /\ reader[y][r] = PathReader(y, r)
      BY <2>4, <3>1, <3>4
    <3> QED
      BY <3>2, <3>3, <3>5, Zenon DEF y, z
  <2> HIDE DEF reader, piece, flat
  <2> QED
    BY <2>1, <2>2, <2>3, <2>5, <2>6 DEF Takes
<1>4. \A t \in Seq(Descriptors), x \in Seq(Descriptors), r \in Seq(Char) :
         Runs(DescriptorTurn, reader[x][flat[t] \o r], reader[x \o t][r])
  <2>1. Descriptors \in SUBSET Descriptors
    OBVIOUS
  <2> HIDE DEF reader, piece, flat
  <2> QED
    BY <1>3, <2>1, TakesAll
<1>5. Runs(DescriptorTurn, reader[<<>>][flat[p] \o <<>>], reader[<<>> \o p][<<>>])
  BY <1>1, <1>4
<1>6. flat[p] = s /\ s \o <<>> = s /\ <<>> \o p = p
  BY <1>2, ConcatEmptySeq
<1> HIDE DEF s
<1>7. reader[<<>>][s] = a /\ reader[p][<<>>] = b
  BY <1>1, <1>2
<1> HIDE DEF flat, reader
<1>8. Runs(DescriptorTurn, a, b)
  BY <1>5, <1>6, <1>7, Zenon
<1>9. p \in Seq(Parsed)
  <2>1. Seq(Descriptors) \subseteq Seq(Parsed)
    BY DescriptorsParse, SeqMonotonic
  <2> QED
    BY <2>1
<1>10. b \in Parsing /\ b.rest = <<>>
  BY <1>1, <1>9 DEF PathReader, Parsing
<1>11. a.rest = s
  BY DEF PathReader
<1> HIDE DEF a, b
<1>12. DescriptorTurn[b] = b
  BY <1>10 DEF DescriptorTurn
<1>13. Loop(DescriptorTurn, a, Len(a.rest)) = b
  BY <1>8, <1>12, LoopEnds
<1> QED
  BY <1>11, <1>13 DEF ParseDescriptorPath, a, b, s

-----------------------------------------------------------------------------
(* Splitting at spaces: what is written of a descriptor passes unchanged.  *)

At(quoted, segments, current, rest) ==
  IF quoted = 1 THEN Quoting(segments, current, rest) ELSE Splitter(segments, current, rest)

LEMMA Ats ==
  ASSUME NEW q \in {0, 1}, NEW segs \in Seq(Seq(Char)), NEW cur \in Seq(Char), NEW r \in Seq(Char)
  PROVE  /\ At(q, segs, cur, r) \in Splitting /\ At(q, segs, cur, r).rest = r
         /\ At(q, segs, cur, r).segments = segs /\ At(q, segs, cur, r).current = cur
         /\ At(q, segs, cur, r).quoted <=> q = 1
BY DEF At, Quoting, Splitter, Splitting

\* From between backticks or not, on a text, to between backticks or not.
Passes(p, x, q) ==
  \A segs \in Seq(Seq(Char)), cur \in Seq(Char), r \in Seq(Char) :
    Runs(SplitTurn, At(p, segs, cur, x \o r), At(q, segs, cur \o x, r))

LEMMA PassesNothing ==
  ASSUME NEW p \in {0, 1}
  PROVE  Passes(p, <<>>, p)
<1> SUFFICES ASSUME NEW segs \in Seq(Seq(Char)), NEW cur \in Seq(Char), NEW r \in Seq(Char)
             PROVE  Runs(SplitTurn, At(p, segs, cur, <<>> \o r), At(p, segs, cur \o <<>>, r))
  BY DEF Passes
<1>1. <<>> \o r = r /\ cur \o <<>> = cur
  BY ConcatEmptySeq
<1> DEFINE a == At(p, segs, cur, r)
<1>2. Len(a.rest) \in Nat
  BY Ats
<1> HIDE DEF a
<1>3. Runs(SplitTurn, a, a)
  BY <1>2, RunsNowhere
<1> QED
  BY <1>1, <1>3 DEF a

\* What passes in turn passes together.
LEMMA PassesBoth ==
  ASSUME NEW p, NEW q, NEW s, NEW x \in Seq(Char), NEW y \in Seq(Char),
         Passes(p, x, q), Passes(q, y, s)
  PROVE  Passes(p, x \o y, s)
<1> SUFFICES ASSUME NEW segs \in Seq(Seq(Char)), NEW cur \in Seq(Char), NEW r \in Seq(Char)
             PROVE  Runs(SplitTurn, At(p, segs, cur, (x \o y) \o r),
                         At(s, segs, cur \o (x \o y), r))
  BY DEF Passes
<1> DEFINE yr == y \o r
           cx == cur \o x
           a == At(p, segs, cur, x \o yr)
           b == At(q, segs, cx, yr)
           z == At(s, segs, cx \o y, r)
<1>1. yr \in Seq(Char) /\ cx \in Seq(Char)
  BY Joined
<1>2. (x \o y) \o r = x \o yr /\ cx \o y = cur \o (x \o y)
  BY Associated
<1> HIDE DEF yr
<1>3. Runs(SplitTurn, a, b)
  BY <1>1 DEF Passes
<1> HIDE DEF cx
<1>4. Runs(SplitTurn, b, z)
  BY <1>1 DEF Passes, yr
<1> HIDE DEF a, b, z
<1>5. Runs(SplitTurn, a, z)
  BY <1>3, <1>4, RunsOn
<1> QED
  BY <1>2, <1>5, Zenon DEF a, z

LEMMA PassesOne ==
  /\ \A c \in Char \ {"bt", "sp"} : Passes(0, <<c>>, 0)
  /\ \A c \in Char \ {"bt"} : Passes(1, <<c>>, 1)
  /\ Passes(0, <<"bt">>, 1) /\ Passes(1, <<"bt">>, 0)
<1>1. ASSUME NEW c \in Char, NEW p \in {0, 1}, NEW q \in {0, 1},
             \/ c = "bt" /\ p = 0 /\ q = 1
             \/ c = "bt" /\ p = 1 /\ q = 0
             \/ c # "bt" /\ p = 1 /\ q = 1
             \/ c # "bt" /\ c # "sp" /\ p = 0 /\ q = 0
      PROVE  Passes(p, <<c>>, q)
  <2> SUFFICES ASSUME NEW segs \in Seq(Seq(Char)), NEW cur \in Seq(Char), NEW r \in Seq(Char)
               PROVE  Runs(SplitTurn, At(p, segs, cur, <<c>> \o r), At(q, segs, cur \o <<c>>, r))
    BY DEF Passes
  <2> DEFINE s == <<c>> \o r
             cc == cur \o <<c>>
             a == At(p, segs, cur, s)
             b == At(q, segs, cc, r)
  <2>1. s \in Seq(Char) /\ s # <<>> /\ Head(s) = c /\ Tail(s) = r /\ Len(s) = Len(r) + 1
        /\ Len(r) \in Nat
    BY HeadOf
  <2>2. Append(cur, c) = cc /\ cc \in Seq(Char)
    BY AppendIsConcat, AppendProperties
  <2> HIDE DEF s, cc
  <2>3. a \in Splitting /\ a.rest = s /\ a.segments = segs /\ a.current = cur /\ (a.quoted <=> p = 1)
    BY <2>1, Ats
  <2>4. b.rest = r
    BY <2>2, Ats
  <2> HIDE DEF a
  <2>5. SplitTurn[a] = IF a.quoted THEN TurnQuoting(a, cc) ELSE TurnSplitting(a, cc)
    BY <2>1, <2>2, <2>3 DEF SplitTurn
  <2>8. Len(a.rest) \in Nat /\ Len(b.rest) \in Nat /\ Len(b.rest) < Len(a.rest)
    <3> HIDE DEF b
    <3> QED
      BY <2>1, <2>3, <2>4
  <2>6. CASE p = 1
    <3>1. SplitTurn[a] = TurnQuoting(a, cc)
      BY <2>3, <2>5, <2>6
    <3>2. TurnQuoting(a, cc) = IF c = "bt" THEN Splitter(segs, cc, r) ELSE Quoting(segs, cc, r)
      BY <2>1, <2>3 DEF TurnQuoting, StartsWith
    <3>3. c = "bt" <=> q # 1
      BY <1>1, <2>6
    <3>4. SplitTurn[a] = b
      BY <3>1, <3>2, <3>3 DEF At
    <3> HIDE DEF b
    <3>5. Runs(SplitTurn, a, b)
      BY <2>8, <3>4, RunsOnce
    <3> QED
      BY <3>5 DEF a, b, s, cc
  <2>7. CASE p = 0
    <3>1. SplitTurn[a] = TurnSplitting(a, cc)
      BY <2>3, <2>5, <2>7
    <3>2. c # "sp" /\ (c = "bt" <=> q = 1)
      <4>1. \/ c = "bt" /\ q = 1
            \/ c # "bt" /\ c # "sp" /\ q = 0
        BY <1>1, <2>7
      <4>2. "bt" # "sp"
        OBVIOUS
      <4> QED
        BY <4>1, <4>2
    <3>3. TurnSplitting(a, cc) = IF c = "bt" THEN Quoting(segs, cc, r) ELSE Splitter(segs, cc, r)
      BY <2>1, <2>3, <3>2 DEF TurnSplitting, StartsWith
    <3>4. SplitTurn[a] = b
      BY <3>1, <3>2, <3>3 DEF At
    <3> HIDE DEF b
    <3>5. Runs(SplitTurn, a, b)
      BY <2>8, <3>4, RunsOnce
    <3> QED
      BY <3>5 DEF a, b, s, cc
  <2> QED
    BY <2>6, <2>7
<1>2. "bt" \in Char
  BY Characters
<1>3. \A c \in Char \ {"bt", "sp"} : Passes(0, <<c>>, 0)
  BY <1>1
<1>4. \A c \in Char \ {"bt"} : Passes(1, <<c>>, 1)
  BY <1>1
<1>5. Passes(0, <<"bt">>, 1) /\ Passes(1, <<"bt">>, 0)
  BY <1>1, <1>2
<1> QED
  BY <1>3, <1>4, <1>5

LEMMA PlainPasses ==
  ASSUME NEW t \in Seq(Char \ {"bt", "sp"})
  PROVE  Passes(0, t, 0)
<1> DEFINE C == Char \ {"bt", "sp"}
           T == {u \in Seq(C) : Passes(0, u, 0)}
<1>1. Seq(C) \subseteq Seq(Char)
  BY SeqMonotonic
<1>2. <<>> \in T
  <2>1. <<>> \in Seq(C)
    <3> HIDE DEF C
    <3> QED
      OBVIOUS
  <2>2. Passes(0, <<>>, 0)
    BY PassesNothing
  <2> QED
    BY <2>1, <2>2
<1>3. ASSUME NEW c \in C, NEW u \in T PROVE <<c>> \o u \in T
  <2>1. <<c>> \o u \in Seq(C) /\ Passes(0, u, 0)
    BY HeadOf
  <2>2. <<c>> \in Seq(Char) /\ u \in Seq(Char) /\ Passes(0, <<c>>, 0)
    <3>1. c \in Char /\ Passes(0, <<c>>, 0)
      BY PassesOne
    <3>2. u \in Seq(Char)
      BY <1>1
    <3> QED
      BY <3>1, <3>2, ShortTexts
  <2> HIDE DEF C
  <2>3. Passes(0, <<c>> \o u, 0)
    BY <2>1, <2>2, PassesBoth
  <2> QED
    BY <2>1, <2>3
<1> HIDE DEF T
<1>4. T \in SUBSET Seq(C)
  BY DEF T
<1>5. T = Seq(C)
  BY <1>2, <1>3, <1>4, SeqInduction
<1> QED
  BY <1>5 DEF T

LEMMA DoubledPasses ==
  ASSUME NEW t \in Seq(Char)
  PROVE  Passes(1, Doubled(t, "bt"), 1)
<1> DEFINE T == {u \in Seq(Char) : Passes(1, Doubled(u, "bt"), 1)}
<1>1. <<>> \in T
  <2>1. Passes(1, <<>>, 1)
    BY PassesNothing
  <2>2. Doubled(<<>>, "bt") = <<>>
    BY DoubledText
  <2>3. <<>> \in Seq(Char)
    OBVIOUS
  <2> QED
    BY <2>1, <2>2, <2>3
<1>2. ASSUME NEW c \in Char, NEW u \in T PROVE <<c>> \o u \in T
  <2> DEFINE d == Doubled(u, "bt")
             e == Piece(c, "bt")
  <2>1. u \in Seq(Char) /\ <<c>> \o u \in Seq(Char) /\ Passes(1, d, 1)
    BY HeadOf
  <2>2. Doubled(<<c>> \o u, "bt") = e \o d /\ d \in Seq(Char)
    BY <2>1, DoubledText
  <2>3. e \in Seq(Char) /\ Passes(1, e, 1)
    <3>1. CASE c = "bt"
      <4>1. <<"bt">> \in Seq(Char)
        BY Marks
      <4>2. Passes(1, <<"bt">>, 0) /\ Passes(0, <<"bt">>, 1)
        BY PassesOne
      <4>3. e = <<"bt">> \o <<"bt">>
        BY <3>1 DEF Piece
      <4> HIDE DEF e
      <4>4. Passes(1, e, 1)
        BY <4>1, <4>2, <4>3, PassesBoth
      <4> QED
        BY <4>1, <4>3, <4>4, Joined
    <3>2. CASE c # "bt"
      <4>1. e = <<c>> /\ <<c>> \in Seq(Char)
        BY <3>2 DEF Piece
      <4>2. Passes(1, <<c>>, 1)
        BY <3>2, PassesOne
      <4> QED
        BY <4>1, <4>2
    <3> QED
      BY <3>1, <3>2
  <2> HIDE DEF d, e
  <2>4. Passes(1, e \o d, 1)
    BY <2>1, <2>2, <2>3, PassesBoth
  <2> QED
    BY <2>1, <2>2, <2>4
<1> HIDE DEF T
<1>3. T \in SUBSET Seq(Char)
  BY DEF T
<1>4. T = Seq(Char)
  BY <1>1, <1>2, <1>3, SeqInduction
<1> QED
  BY <1>4 DEF T

LEMMA NamePasses ==
  ASSUME NEW n \in Names
  PROVE  Passes(0, EncodeName(n), 0)
<1>1. n \in Seq(Char)
  BY DEF Names
<1>2. CASE ToSet(n) \subseteq Simple
  <2>1. \A c \in Simple : c \in Char \ {"bt", "sp"}
    <3>1. "bt" \in Delimiters /\ "sp" \in Delimiters
      BY DEF Delimiters
    <3> QED
      BY <3>1, Characters
  <2>2. n \in Seq(Char \ {"bt", "sp"})
    <3>1. n \in Seq(Simple)
      BY <1>1, <1>2 DEF ToSet
    <3>2. Seq(Simple) \subseteq Seq(Char \ {"bt", "sp"})
      BY <2>1, SeqMonotonic
    <3> QED
      BY <3>1, <3>2
  <2> QED
    BY <1>2, <2>2, PlainPasses DEF EncodeName
<1>3. CASE ~(ToSet(n) \subseteq Simple)
  <2> DEFINE d == Doubled(n, "bt")
             b == <<"bt">>
             x == b \o d
  <2>1. d \in Seq(Char) /\ b \in Seq(Char)
    BY <1>1, DoubledText, Marks
  <2>2. Passes(0, b, 1) /\ Passes(1, d, 1) /\ Passes(1, b, 0)
    BY <1>1, PassesOne, DoubledPasses
  <2>3. EncodeName(n) = x \o b
    BY <1>3 DEF EncodeName
  <2> HIDE DEF b, d
  <2>4. Passes(0, x, 1) /\ x \in Seq(Char)
    BY <2>1, <2>2, PassesBoth, Joined
  <2> HIDE DEF x
  <2>5. Passes(0, x \o b, 0)
    BY <2>1, <2>2, <2>4, PassesBoth
  <2> QED
    BY <2>3, <2>5
<1> QED
  BY <1>2, <1>3

LEMMA DescriptorPasses ==
  ASSUME NEW d \in Descriptors
  PROVE  Passes(0, EncodeDescriptor(d), 0)
<1> DEFINE e == EncodeDescriptor(d)
           name == EncodeName(d.name)
           dis == d.dis
<1>1. /\ d.suffix \in DOMAIN Signs
         \/ d.suffix = "method" \/ d.suffix = "local" \/ d.suffix \in {"parameter", "type-parameter"}
      /\ d.name \in Names
  BY SuffixKinds DEF Descriptors
<1>2. name \in Seq(Char) /\ Passes(0, name, 0)
  BY <1>1, NameHead, NamePasses
<1>3. dis \in Seq(Char) /\ Passes(0, dis, 0)
  BY Disambiguators, PlainPasses
<1>4. \A c \in Char \ {"bt", "sp"} : <<c>> \in Seq(Char) /\ Passes(0, <<c>>, 0)
  <2>1. \A c \in Char : <<c>> \in Seq(Char)
    BY ShortTexts
  <2> QED
    BY <2>1, PassesOne
<1>5. /\ "(" \in Char \ {"bt", "sp"} /\ ")" \in Char \ {"bt", "sp"} /\ "." \in Char \ {"bt", "sp"}
      /\ "~" \in Char \ {"bt", "sp"} /\ "[" \in Char \ {"bt", "sp"} /\ "]" \in Char \ {"bt", "sp"}
      /\ \A x \in DOMAIN Signs : Signs[x] \in Char \ {"bt", "sp"}
  <2>1. /\ "(" \in Char /\ ")" \in Char /\ "." \in Char /\ "~" \in Char /\ "[" \in Char /\ "]" \in Char
    BY Characters
  <2>2. \A x \in DOMAIN Signs : Signs[x] \in Char \ {"bt", "sp"}
    BY SignsDiffer, Characters
  <2> QED
    BY <2>1, <2>2
<1>6. ASSUME NEW x \in Seq(Char), NEW y \in Seq(Char), Passes(0, x, 0), Passes(0, y, 0)
      PROVE  x \o y \in Seq(Char) /\ Passes(0, x \o y, 0)
  BY <1>6, PassesBoth, Joined
<1>7. CASE d.suffix \in DOMAIN Signs
  <2> DEFINE c == Signs[d.suffix]
  <2>1. c \in Char \ {"bt", "sp"}
    BY <1>5, <1>7
  <2>2. e = Append(name, c)
    BY <1>7 DEF EncodeDescriptor, Signs
  <2> HIDE DEF c, e, name
  <2>3. e = name \o <<c>>
    BY <1>2, <2>1, <2>2, AppendIsConcat
  <2>4. <<c>> \in Seq(Char) /\ Passes(0, <<c>>, 0)
    BY <1>4, <2>1
  <2>5. Passes(0, name \o <<c>>, 0)
    BY <1>2, <1>6, <2>4
  <2> QED
    BY <2>3, <2>5 DEF e
<1>8. ASSUME NEW p \in Seq(Char), NEW t \in Seq(Char), Passes(0, p, 0), Passes(0, t, 0),
             e = ((name \o p) \o dis) \o t
      PROVE  Passes(0, e, 0)
  <2> HIDE DEF name, dis, e
  <2> DEFINE x == name \o p
             y == x \o dis
  <2>1. x \in Seq(Char) /\ Passes(0, x, 0)
    BY <1>2, <1>6, <1>8
  <2> HIDE DEF x
  <2>2. y \in Seq(Char) /\ Passes(0, y, 0)
    BY <1>3, <1>6, <2>1
  <2> HIDE DEF y
  <2>3. Passes(0, y \o t, 0)
    BY <1>6, <1>8, <2>2
  <2> QED
    BY <1>8, <2>3 DEF x, y
<1>9. CASE d.suffix = "method"
  <2> DEFINE t == <<")", ".">>
  <2>1. e = ((name \o <<"(">>) \o dis) \o t
    BY <1>9 DEF EncodeDescriptor
  <2>2. <<"(">> \in Seq(Char) /\ Passes(0, <<"(">>, 0)
    BY <1>4, <1>5
  <2>3. t \in Seq(Char) /\ Passes(0, t, 0)
    <3>1. t = <<")">> \o <<".">>
      OBVIOUS
    <3>2. /\ <<")">> \in Seq(Char) /\ Passes(0, <<")">>, 0)
          /\ <<".">> \in Seq(Char) /\ Passes(0, <<".">>, 0)
      BY <1>4, <1>5
    <3> QED
      BY <1>6, <3>1, <3>2
  <2> HIDE DEF e, name, dis, t
  <2> QED
    BY <1>8, <2>1, <2>2, <2>3 DEF e
<1>10. CASE d.suffix = "local"
  <2>1. e = ((name \o <<"~">>) \o dis) \o <<"~">>
    BY <1>10 DEF EncodeDescriptor
  <2>2. <<"~">> \in Seq(Char) /\ Passes(0, <<"~">>, 0)
    BY <1>4, <1>5
  <2> HIDE DEF e, name, dis
  <2> QED
    BY <1>8, <2>1, <2>2 DEF e
<1>11. ASSUME NEW o \in Char \ {"bt", "sp"}, NEW c \in Char \ {"bt", "sp"},
              e = (<<o>> \o name) \o <<c>>
       PROVE  Passes(0, e, 0)
  <2> HIDE DEF name, e
  <2> DEFINE x == <<o>> \o name
  <2>1. x \in Seq(Char) /\ Passes(0, x, 0)
    BY <1>2, <1>4, <1>6
  <2> HIDE DEF x
  <2>2. Passes(0, x \o <<c>>, 0)
    BY <1>4, <1>6, <2>1
  <2> QED
    BY <1>11, <2>2 DEF x
<1>12. CASE d.suffix = "parameter"
  <2>1. e = (<<"(">> \o name) \o <<")">>
    BY <1>12 DEF EncodeDescriptor
  <2> HIDE DEF e, name
  <2> QED
    BY <1>5, <1>11, <2>1 DEF e
<1>13. CASE d.suffix = "type-parameter"
  <2>1. e = (<<"[">> \o name) \o <<"]">>
    BY <1>13 DEF EncodeDescriptor
  <2> HIDE DEF e, name
  <2> QED
    BY <1>5, <1>11, <2>1 DEF e
<1> QED
  BY <1>1, <1>7, <1>9, <1>10, <1>12, <1>13

\* The spaces of a path are all between quotes: none separates anything.
LEMMA PathPasses ==
  ASSUME NEW p \in Seq(Descriptors)
  PROVE  Passes(0, Encoded(p), 0)
<1> DEFINE T == {q \in Seq(Descriptors) : Passes(0, Encoded(q), 0)}
<1>1. <<>> \in T
  <2>1. <<>> \in Seq(Descriptors)
    OBVIOUS
  <2>2. Passes(0, <<>>, 0) /\ Encoded(<<>>) = <<>>
    BY PassesNothing, EncodedPath
  <2> QED
    BY <2>1, <2>2
<1>2. ASSUME NEW d \in Descriptors, NEW q \in T PROVE <<d>> \o q \in T
  <2> DEFINE e == EncodeDescriptor(d)
             r == Encoded(q)
  <2>1. q \in Seq(Descriptors) /\ <<d>> \o q \in Seq(Descriptors) /\ Passes(0, r, 0)
    BY HeadOf
  <2>2. Encoded(<<d>> \o q) = e \o r /\ r \in Seq(Char)
    BY <2>1, EncodedPath
  <2>3. e \in Seq(Char) /\ Passes(0, e, 0)
    BY DescriptorReads, DescriptorPasses
  <2> HIDE DEF e, r
  <2>4. Passes(0, e \o r, 0)
    BY <2>1, <2>2, <2>3, PassesBoth
  <2> QED
    BY <2>1, <2>2, <2>4
<1> HIDE DEF T
<1>3. T \in SUBSET Seq(Descriptors)
  BY DEF T
<1>4. T = Seq(Descriptors)
  BY <1>1, <1>2, <1>3, SeqInduction
<1> QED
  BY <1>4 DEF T

-----------------------------------------------------------------------------
(* A field of the coordinate is read up to its single space.               *)

LEMMA Splitters ==
  ASSUME NEW segs \in Seq(Seq(Char)), NEW cur \in Seq(Char), NEW r \in Seq(Char)
  PROVE  /\ Splitter(segs, cur, r) \in Splitting /\ Splitter(segs, cur, r).rest = r
         /\ Splitter(segs, cur, r).segments = segs /\ Splitter(segs, cur, r).current = cur
         /\ ~Splitter(segs, cur, r).quoted
BY DEF Splitter, Splitting

\* Two spaces are one of the text.
LEMMA FieldTurn ==
  ASSUME NEW segs \in Seq(Seq(Char)), NEW x \in Seq(Char), NEW c \in Char \ {"bt"},
         NEW r \in Seq(Char)
  PROVE  Runs(SplitTurn, Splitter(segs, x, Piece(c, "sp") \o r), Splitter(segs, x \o <<c>>, r))
<1> DEFINE s == Piece(c, "sp") \o r
           xc == x \o <<c>>
           a == Splitter(segs, x, s)
           b == Splitter(segs, xc, r)
<1>1. Append(x, c) = xc /\ xc \in Seq(Char)
  BY AppendIsConcat, AppendProperties
<1>2. "sp" \in Char /\ "bt" # "sp"
  BY Characters
<1>3. CASE c = "sp"
  <2> DEFINE t == <<"sp">> \o r
  <2>1. t \in Seq(Char) /\ t # <<>> /\ Head(t) = "sp" /\ Len(t) = Len(r) + 1 /\ Len(r) \in Nat
    BY <1>2, HeadOf
  <2>2. s = <<"sp">> \o t
    <3>1. Piece(c, "sp") = <<"sp">> \o <<"sp">>
      BY <1>3 DEF Piece
    <3>2. (<<"sp">> \o <<"sp">>) \o r = <<"sp">> \o (<<"sp">> \o r)
      BY Marks, Associated
    <3> QED
      BY <3>1, <3>2
  <2>3. Drop(<<"sp">> \o t, 2) = r
    BY <1>2, DropTwo
  <2> HIDE DEF t
  <2> DEFINE w == <<"sp">> \o t
  <2>10. w \in Seq(Char) /\ w # <<>> /\ Head(w) = "sp" /\ Tail(w) = t /\ Len(w) = Len(t) + 1
    BY <1>2, <2>1, HeadOf
  <2> HIDE DEF s, xc
  <2>4. s \in Seq(Char) /\ s # <<>> /\ Head(s) = "sp" /\ Tail(s) = t /\ Len(s) = Len(t) + 1
        /\ Drop(s, 2) = r
    <3>1. s = w /\ Drop(w, 2) = r
      BY <2>2, <2>3
    <3> HIDE DEF w
    <3> QED
      BY <2>10, <3>1
  <2>5. /\ a \in Splitting /\ a.rest = s /\ a.segments = segs /\ a.current = x /\ ~a.quoted
        /\ b.rest = r
    BY <1>1, <2>4, Splitters
  <2> HIDE DEF a
  <2>6. SplitTurn[a] = TurnSplitting(a, xc)
    BY <1>1, <1>3, <2>4, <2>5 DEF SplitTurn
  <2>7. TurnSplitting(a, xc) = b
    BY <1>2, <2>1, <2>4, <2>5 DEF TurnSplitting, StartsWith
  <2> HIDE DEF b
  <2>8. Len(a.rest) \in Nat /\ Len(b.rest) \in Nat /\ Len(b.rest) < Len(a.rest)
    BY <2>1, <2>4, <2>5
  <2>9. Runs(SplitTurn, a, b)
    BY <2>6, <2>7, <2>8, RunsOnce
  <2> QED
    BY <2>9 DEF a, b, s, xc
<1>4. CASE c # "sp"
  <2>1. s = <<c>> \o r
    BY <1>4 DEF Piece
  <2> DEFINE w == <<c>> \o r
  <2>3. w \in Seq(Char) /\ w # <<>> /\ Head(w) = c /\ Tail(w) = r /\ Len(w) = Len(r) + 1
        /\ Len(r) \in Nat
    BY HeadOf
  <2> HIDE DEF s, xc
  <2>2. s \in Seq(Char) /\ s # <<>> /\ Head(s) = c /\ Tail(s) = r /\ Len(s) = Len(r) + 1
        /\ Len(r) \in Nat
    <3>1. s = w
      BY <2>1
    <3> HIDE DEF w
    <3> QED
      BY <2>3, <3>1
  <2>5. /\ a \in Splitting /\ a.rest = s /\ a.segments = segs /\ a.current = x /\ ~a.quoted
        /\ b.rest = r
    BY <1>1, <2>2, Splitters
  <2> HIDE DEF a
  <2>6. SplitTurn[a] = TurnSplitting(a, xc)
    BY <1>1, <2>2, <2>5 DEF SplitTurn
  <2>7. TurnSplitting(a, xc) = b
    BY <1>4, <2>2, <2>5 DEF TurnSplitting, StartsWith
  <2> HIDE DEF b
  <2>8. Len(a.rest) \in Nat /\ Len(b.rest) \in Nat /\ Len(b.rest) < Len(a.rest)
    BY <2>2, <2>5
  <2>9. Runs(SplitTurn, a, b)
    BY <2>6, <2>7, <2>8, RunsOnce
  <2> QED
    BY <2>9 DEF a, b, s, xc
<1> QED
  BY <1>3, <1>4

LEMMA FieldText ==
  ASSUME NEW segs \in Seq(Seq(Char))
  PROVE  \A t \in Seq(Char \ {"bt"}), x \in Seq(Char), r \in Seq(Char) :
            Runs(SplitTurn, Splitter(segs, x, Doubled(t, "sp") \o r), Splitter(segs, x \o t, r))
<1> DEFINE A == Char \ {"bt"}
           piece == [c \in A |-> Piece(c, "sp")]
           flat == [x \in Seq(A) |-> Doubled(x, "sp")]
           reader == [x \in Seq(Char) |-> [r \in Seq(Char) |-> Splitter(segs, x, r)]]
<1>1. \A x \in Seq(Char), r \in Seq(Char) : reader[x][r] = Splitter(segs, x, r)
  OBVIOUS
<1>2. Takes(SplitTurn, A, Char, reader, piece, flat)
  <2>1. \A c \in A : Piece(c, "sp") \in Seq(Char)
    BY ShortTexts DEF Piece
  <2>2. piece \in [A -> Seq(Char)]
    BY <2>1
  <2>3. Seq(A) \subseteq Seq(Char)
    BY SeqMonotonic
  <2>4. \A t \in Seq(A) : Doubled(t, "sp") \in Seq(Char)
    <3>1. \A t \in Seq(A) : Doubled(t, "sp") \in Seq(A)
      BY DoubledText
    <3> QED
      BY <2>3, <3>1
  <2>5. <<>> \in Seq(A)
    <3> HIDE DEF A
    <3> QED
      OBVIOUS
  <2>6. flat \in [Seq(A) -> Seq(Char)] /\ flat[<<>>] = <<>>
    BY <2>4, <2>5, DoubledText
  <2>7. ASSUME NEW c \in A, NEW t \in Seq(A)
        PROVE  flat[<<c>> \o t] = piece[c] \o flat[t]
    <3>1. <<c>> \o t \in Seq(A)
      BY HeadOf
    <3>2. Doubled(<<c>> \o t, "sp") = Piece(c, "sp") \o Doubled(t, "sp")
      BY DoubledText
    <3> QED
      BY <3>1, <3>2
  <2>8. \A x \in Seq(Char), r \in Seq(Char) : reader[x][r].rest = r
    BY <1>1 DEF Splitter
  <2>9. ASSUME NEW x \in Seq(Char), NEW c \in A, NEW r \in Seq(Char)
        PROVE  Runs(SplitTurn, reader[x][piece[c] \o r], reader[x \o <<c>>][r])
    <3> DEFINE y == x \o <<c>>
               e == Piece(c, "sp")
               z == e \o r
    <3>1. y \in Seq(Char)
      BY ShortTexts, ConcatProperties
    <3>2. piece[c] = e /\ e \in Seq(Char)
      BY <2>1
    <3>3. Runs(SplitTurn, Splitter(segs, x, z), Splitter(segs, y, r))
      BY FieldTurn
    <3> HIDE DEF e
    <3>4. z \in Seq(Char)
      BY <3>2, ConcatProperties
    <3> HIDE DEF y, z, reader, piece
    <3>5. reader[x][z] = Splitter(segs, x, z) /\ reader[y][r] = Splitter(segs, y, r)
      BY <1>1, <3>1, <3>4
    <3> QED
      BY <3>2, <3>3, <3>5, Zenon DEF y, z
  <2> HIDE DEF reader, piece, flat
  <2> QED
    BY <2>2, <2>6, <2>7, <2>8, <2>9 DEF Takes
<1>3. \A t \in Seq(A), x \in Seq(Char), r \in Seq(Char) :
         Runs(SplitTurn, reader[x][flat[t] \o r], reader[x \o t][r])
  <2>1. A \in SUBSET Char
    OBVIOUS
  <2> HIDE DEF reader, piece, flat, A
  <2> QED
    BY <1>2, <2>1, TakesAll
<1> TAKE t \in Seq(A), x \in Seq(Char), r \in Seq(Char)
<1> DEFINE d == Doubled(t, "sp")
           z == d \o r
           y == x \o t
<1>4. Seq(A) \subseteq Seq(Char)
  BY SeqMonotonic
<1>5. t \in Seq(Char)
  BY <1>4
<1>6. d \in Seq(Char)
  BY <1>5, DoubledText
<1>7. flat[t] = d
  OBVIOUS
<1> HIDE DEF d
<1>8. z \in Seq(Char) /\ y \in Seq(Char)
  BY <1>5, <1>6, Joined
<1>9. Runs(SplitTurn, reader[x][flat[t] \o r], reader[x \o t][r])
  BY <1>3
<1> HIDE DEF z, y, reader, flat
<1>10. reader[x][z] = Splitter(segs, x, z) /\ reader[y][r] = Splitter(segs, y, r)
  BY <1>1, <1>8
<1>11. Runs(SplitTurn, Splitter(segs, x, z), Splitter(segs, y, r))
  BY <1>7, <1>9, <1>10, Zenon DEF z, y
<1> QED
  BY <1>11, Zenon DEF z, y, d

\* A space that none follows separates.
LEMMA FieldEnds ==
  ASSUME NEW segs \in Seq(Seq(Char)), NEW f \in Seq(Char), NEW r \in Seq(Char),
         ~StartsWith(r, "sp")
  PROVE  Runs(SplitTurn, Splitter(segs, f, <<"sp">> \o r), Splitter(Append(segs, f), <<>>, r))
<1> DEFINE s == <<"sp">> \o r
           cur == Append(f, "sp")
           more == Append(segs, f)
           a == Splitter(segs, f, s)
           b == Splitter(more, <<>>, r)
<1>1. "sp" \in Char /\ "bt" # "sp" /\ <<>> \in Seq(Char)
  <2>1. <<>> \in Seq(Char)
    OBVIOUS
  <2> QED
    BY <2>1, Characters
<1>2. s \in Seq(Char) /\ s # <<>> /\ Head(s) = "sp" /\ Tail(s) = r /\ Len(s) = Len(r) + 1
      /\ Len(r) \in Nat
  BY <1>1, HeadOf
<1>3. more \in Seq(Seq(Char))
  BY AppendProperties
<1> HIDE DEF s, more
<1>4. /\ a \in Splitting /\ a.rest = s /\ a.segments = segs /\ a.current = f /\ ~a.quoted
      /\ b.rest = r
  <2>1. /\ a \in Splitting /\ a.rest = s /\ a.segments = segs /\ a.current = f /\ ~a.quoted
    BY <1>2, Splitters
  <2>2. b.rest = r
    BY DEF Splitter
  <2> QED
    BY <2>1, <2>2
<1> HIDE DEF a
<1>5. SplitTurn[a] = TurnSplitting(a, cur)
  BY <1>2, <1>4 DEF SplitTurn
<1>6. TurnSplitting(a, cur) = Splitter(more, <<>>, r)
  BY <1>1, <1>2, <1>4 DEF TurnSplitting, StartsWith, more
<1> HIDE DEF b
<1>7. Len(a.rest) \in Nat /\ Len(b.rest) \in Nat /\ Len(b.rest) < Len(a.rest)
  BY <1>2, <1>4
<1>8. Runs(SplitTurn, a, b)
  BY <1>5, <1>6, <1>7, RunsOnce DEF b
<1> QED
  BY <1>8 DEF a, b, s, more

\* A field as it is written, with the space that ends it.
Written(f) == Append(Doubled(f, "sp"), "sp")

LEMMA WrittenText ==
  ASSUME NEW f \in Fields
  PROVE  /\ Written(f) \in Seq(Char) /\ Written(f) # <<>> /\ f \in Seq(Char)
         /\ Head(Written(f)) = Head(f)
         /\ Written(f) = Doubled(f, "sp") \o <<"sp">> /\ Doubled(f, "sp") \in Seq(Char)
<1>1. f \in Seq(Char) /\ f # <<>>
  <2>1. Seq(Char \ {"bt"}) \subseteq Seq(Char)
    BY SeqMonotonic
  <2> QED
    BY <2>1 DEF Fields
<1> DEFINE d == Doubled(f, "sp")
<1>2. d \in Seq(Char) /\ d # <<>> /\ Head(d) = Head(f)
  BY <1>1, Doubles, DoubledText
<1> HIDE DEF d
<1>3. "sp" \in Char
  BY Characters
<1>4. Append(d, "sp") = d \o <<"sp">> /\ Append(d, "sp") \in Seq(Char)
  BY <1>2, <1>3, AppendIsConcat, AppendProperties
<1>5. d \o <<"sp">> # <<>> /\ Head(d \o <<"sp">>) = Head(d)
  BY <1>2, Marks, HeadOfBoth
<1> QED
  BY <1>1, <1>2, <1>4, <1>5 DEF Written, d

\* A field is read back.
LEMMA FieldReads ==
  ASSUME NEW segs \in Seq(Seq(Char)), NEW f \in Fields, NEW r \in Seq(Char),
         ~StartsWith(r, "sp")
  PROVE  Runs(SplitTurn, Splitter(segs, <<>>, Written(f) \o r), Splitter(Append(segs, f), <<>>, r))
<1> DEFINE d == Doubled(f, "sp")
           s == <<"sp">> \o r
           a == Splitter(segs, <<>>, d \o s)
           b == Splitter(segs, f, s)
           c == Splitter(Append(segs, f), <<>>, r)
<1>1. f \in Seq(Char) /\ Written(f) = d \o <<"sp">> /\ d \in Seq(Char)
  BY WrittenText
<1>2. f \in Seq(Char \ {"bt"}) /\ <<>> \in Seq(Char)
  <2>1. <<>> \in Seq(Char)
    OBVIOUS
  <2> QED
    BY <2>1 DEF Fields
<1>3. s \in Seq(Char)
  BY Marks, Joined
<1>4. Runs(SplitTurn, Splitter(segs, <<>>, d \o s), Splitter(segs, <<>> \o f, s))
  <2> HIDE DEF s
  <2> QED
    BY <1>2, <1>3, FieldText
<1>5. <<>> \o f = f
  BY <1>1, ConcatEmptySeq
<1>6. Runs(SplitTurn, a, b)
  BY <1>4, <1>5
<1>7. Runs(SplitTurn, b, c)
  BY <1>1, FieldEnds
<1> HIDE DEF d
<1>8. Written(f) \o r = d \o s
  <2>1. (d \o <<"sp">>) \o r = d \o (<<"sp">> \o r)
    BY <1>1, Marks, Associated
  <2> QED
    BY <1>1, <2>1
<1> HIDE DEF a, b, c
<1>9. Runs(SplitTurn, a, c)
  BY <1>6, <1>7, RunsOn
<1> QED
  BY <1>8, <1>9 DEF a, c

-----------------------------------------------------------------------------
(* An identity as it is written, and what is read of it.                   *)

LEMMA OneAndTwo ==
  ASSUME NEW S, NEW m \in S, NEW n \in S
  PROVE  /\ Append(<<>>, m) = <<m>> /\ Append(<<m>>, n) = <<m, n>>
         /\ <<m, n>> = <<m>> \o (<<n>> \o <<>>)
<1>1. <<>> \in Seq(S) /\ <<m>> \in Seq(S) /\ <<n>> \in Seq(S) /\ <<m, n>> \in Seq(S)
  OBVIOUS
<1>2. Append(<<>>, m) = <<>> \o <<m>> /\ Append(<<m>>, n) = <<m>> \o <<n>>
  BY <1>1, AppendIsConcat
<1>3. <<>> \o <<m>> = <<m>> /\ <<n>> \o <<>> = <<n>>
  BY <1>1, ConcatEmptySeq
<1>4. <<m>> \o <<n>> = <<m, n>>
  <2> DEFINE u == <<m>> \o <<n>>
  <2>1. u \in Seq(S) /\ Len(u) = 2 /\ u[1] = m /\ u[2] = n
    BY <1>1, ConcatProperties
  <2> HIDE DEF u
  <2>2. Len(<<m, n>>) = 2 /\ \A i \in 1 .. 2 : u[i] = <<m, n>>[i]
    BY <2>1
  <2>3. u = <<m, n>>
    BY <1>1, <2>1, <2>2, SeqEqual
  <2> QED
    BY <2>3 DEF u
<1> QED
  BY <1>2, <1>3, <1>4

\* What is written before the path.
Prefix(pkg) == IF pkg = <<>> THEN <<>> ELSE Written(pkg[1]) \o Written(pkg[2])

LEMMA CoordinateKinds ==
  ASSUME NEW pkg \in Coordinates
  PROVE  \/ pkg = <<>>
         \/ /\ pkg = <<pkg[1], pkg[2]>> /\ pkg # <<>>
            /\ pkg[1] \in Fields /\ pkg[2] \in Fields /\ Head(pkg[2]) # "sp"
BY DEF Coordinates

\* An id is the coordinate, then the path.
LEMMA Formatted ==
  ASSUME NEW symbol \in SymbolIdentities
  PROVE  /\ FormatSymbolId(symbol) = Prefix(symbol.pkg) \o Encoded(symbol.path)
         /\ Prefix(symbol.pkg) \in Seq(Char) /\ Encoded(symbol.path) \in Seq(Char)
         /\ symbol.pkg \in Coordinates /\ symbol.path \in Seq(Descriptors) /\ symbol.path # <<>>
<1> DEFINE pkg == symbol.pkg
           path == symbol.path
           s == [i \in DOMAIN pkg |-> Written(pkg[i])]
<1>1. pkg \in Coordinates /\ path \in Seq(Descriptors) /\ path # <<>>
  BY DEF SymbolIdentities
<1> HIDE DEF pkg
<1>2. FlattenSeq(s) = Prefix(pkg) /\ Prefix(pkg) \in Seq(Char)
  <2>1. CASE pkg = <<>>
    <3>1. s = <<>>
      BY <2>1
    <3>2. <<>> \in Seq(Char)
      OBVIOUS
    <3> QED
      BY <2>1, <3>1, <3>2, FlattenNothing DEF Prefix
  <2>2. CASE pkg # <<>>
    <3> DEFINE m == pkg[1]
               n == pkg[2]
               a == Written(m)
               b == Written(n)
    <3>1. pkg = <<m, n>> /\ m \in Fields /\ n \in Fields
      BY <1>1, <2>2, CoordinateKinds
    <3>2. a \in Seq(Char) /\ b \in Seq(Char)
      BY <3>1, WrittenText
    <3> HIDE DEF m, n
    <3>3. s = <<a, b>>
      BY <3>1
    <3> HIDE DEF a, b, s
    <3>4. <<a, b>> = <<a>> \o (<<b>> \o <<>>)
      BY <3>2, OneAndTwo
    <3>5. <<>> \in Seq(Seq(Char)) /\ <<b>> \o <<>> \in Seq(Seq(Char))
      BY <3>2
    <3>6. FlattenSeq(<<a>> \o (<<b>> \o <<>>)) = a \o FlattenSeq(<<b>> \o <<>>)
      <4> DEFINE u == <<b>> \o <<>>
      <4>1. u \in Seq(Seq(Char))
        BY <3>5
      <4> HIDE DEF u
      <4>2. FlattenSeq(<<a>> \o u) = a \o FlattenSeq(u)
        BY <3>2, <4>1, FlattenFirst
      <4> QED
        BY <4>2 DEF u
    <3>7. FlattenSeq(<<b>> \o <<>>) = b \o FlattenSeq(<<>>)
      BY <3>2, <3>5, FlattenFirst
    <3>8. b \o <<>> = b
      BY <3>2, ConcatEmptySeq
    <3>9. FlattenSeq(s) = a \o b
      BY <3>3, <3>4, <3>6, <3>7, <3>8, FlattenNothing
    <3>10. a \o b \in Seq(Char)
      BY <3>2, Joined
    <3>11. Prefix(pkg) = a \o b
      BY <2>2 DEF Prefix, a, b, m, n
    <3> QED
      BY <3>9, <3>10, <3>11
  <2> QED
    BY <2>1, <2>2
<1>3. Encoded(path) \in Seq(Char)
  BY <1>1, EncodedPath
<1>4. FormatSymbolId(symbol) = FlattenSeq(s) \o Encoded(path)
  BY DEF FormatSymbolId, Encoded, Written, pkg
<1> QED
  BY <1>1, <1>2, <1>3, <1>4 DEF pkg

\* The coordinate is read back, whatever follows but a space.
LEMMA PrefixSplits ==
  ASSUME NEW pkg \in Coordinates, NEW e \in Seq(Char), ~StartsWith(e, "sp")
  PROVE  /\ Runs(SplitTurn, Splitter(<<>>, <<>>, Prefix(pkg) \o e), Splitter(pkg, <<>>, e))
         /\ pkg \in Seq(Seq(Char))
<1>1. CASE pkg = <<>>
  <2> DEFINE a == Splitter(<<>>, <<>>, e)
  <2>1. Prefix(pkg) \o e = e
    BY <1>1, ConcatEmptySeq DEF Prefix
  <2>2. Len(a.rest) \in Nat
    BY DEF Splitter
  <2> HIDE DEF a
  <2>3. Runs(SplitTurn, a, a)
    BY <2>2, RunsNowhere
  <2>4. <<>> \in Seq(Seq(Char))
    OBVIOUS
  <2> QED
    BY <1>1, <2>1, <2>3, <2>4 DEF a
<1>2. CASE pkg # <<>>
  <2> DEFINE m == pkg[1]
             n == pkg[2]
             b == Written(n)
             z == b \o e
  <2>1. pkg = <<m, n>> /\ m \in Fields /\ n \in Fields /\ Head(n) # "sp"
    BY <1>2, CoordinateKinds
  <2>2. m \in Seq(Char) /\ n \in Seq(Char) /\ Written(m) \in Seq(Char)
        /\ b \in Seq(Char) /\ b # <<>> /\ Head(b) # "sp"
    BY <2>1, WrittenText
  <2>3. Prefix(pkg) = Written(m) \o b
    BY <1>2 DEF Prefix
  <2> HIDE DEF m, n, b
  <2>4. z \in Seq(Char) /\ ~StartsWith(z, "sp")
    BY <2>2, HeadOfBoth DEF StartsWith
  <2>5. (Written(m) \o b) \o e = Written(m) \o z
    BY <2>2, Associated
  <2>6. <<>> \in Seq(Seq(Char)) /\ <<m>> \in Seq(Seq(Char))
    BY <2>2
  <2>7. Append(<<>>, m) = <<m>> /\ Append(<<m>>, n) = <<m, n>>
    BY <2>2, OneAndTwo
  <2> HIDE DEF z
  <2> DEFINE s0 == Splitter(<<>>, <<>>, Written(m) \o z)
             s1 == Splitter(<<m>>, <<>>, z)
             s2 == Splitter(<<m, n>>, <<>>, e)
  <2>8. Runs(SplitTurn, s0, s1)
    BY <2>1, <2>4, <2>6, <2>7, FieldReads
  <2>9. Runs(SplitTurn, s1, s2)
    <3>1. Runs(SplitTurn, Splitter(<<m>>, <<>>, Written(n) \o e), Splitter(Append(<<m>>, n), <<>>, e))
      BY <2>1, <2>6, FieldReads
    <3> QED
      BY <2>7, <3>1 DEF z, b
  <2> HIDE DEF s0, s1, s2
  <2>10. Runs(SplitTurn, s0, s2)
    BY <2>8, <2>9, RunsOn
  <2>11. pkg \in Seq(Seq(Char))
    <3>1. <<m, n>> \in Seq(Seq(Char))
      BY <2>2
    <3> QED
      BY <2>1, <3>1
  <2> QED
    BY <2>1, <2>3, <2>5, <2>10, <2>11 DEF s0, s2
<1> QED
  BY <1>1, <1>2

\* Splitting an id gives the coordinate and the written path.
LEMMA Splits ==
  ASSUME NEW symbol \in SymbolIdentities
  PROVE  SplitTopLevelSegments(FormatSymbolId(symbol)) = Append(symbol.pkg, Encoded(symbol.path))
<1> DEFINE pkg == symbol.pkg
           path == symbol.path
           e == Encoded(path)
           s == Prefix(pkg) \o e
           a == Splitter(<<>>, <<>>, s)
           b == Splitter(pkg, <<>>, e)
           c == Splitter(pkg, e, <<>>)
<1>1. FormatSymbolId(symbol) = s /\ Prefix(pkg) \in Seq(Char) /\ e \in Seq(Char)
      /\ pkg \in Coordinates /\ path \in Seq(Descriptors) /\ path # <<>>
  BY Formatted
<1> HIDE DEF pkg, path
<1>2. e # <<>> /\ ~StartsWith(e, "sp")
  BY <1>1, PathHead DEF StartsWith
<1>3. Passes(0, e, 0)
  BY <1>1, PathPasses
<1> HIDE DEF e
<1>4. Runs(SplitTurn, a, b) /\ pkg \in Seq(Seq(Char))
  BY <1>1, <1>2, PrefixSplits
<1>5. <<>> \in Seq(Char)
  OBVIOUS
<1>6. Runs(SplitTurn, b, c)
  <2>1. Runs(SplitTurn, At(0, pkg, <<>>, e \o <<>>), At(0, pkg, <<>> \o e, <<>>))
    BY <1>3, <1>4, <1>5 DEF Passes
  <2>2. e \o <<>> = e /\ <<>> \o e = e
    BY <1>1, ConcatEmptySeq
  <2>3. At(0, pkg, <<>>, e) = b /\ At(0, pkg, e, <<>>) = c
    BY DEF At
  <2> QED
    BY <2>1, <2>2, <2>3
<1>7. s \in Seq(Char)
  BY <1>1, Joined
<1> HIDE DEF s
<1>8. a.rest = s
  BY DEF Splitter
<1>9. c \in Splitting /\ c.rest = <<>> /\ c.segments = pkg /\ c.current = e
  <2>1. c \in Splitting
    BY <1>1, <1>4, <1>5, Splitters
  <2>2. c.rest = <<>> /\ c.segments = pkg /\ c.current = e
    BY DEF Splitter
  <2> QED
    BY <2>1, <2>2
<1> HIDE DEF a, b, c
<1>10. SplitTurn[c] = c
  BY <1>9 DEF SplitTurn
<1>11. Runs(SplitTurn, a, c)
  BY <1>4, <1>6, RunsOn
<1>12. Loop(SplitTurn, a, Len(s)) = c
  BY <1>8, <1>10, <1>11, LoopEnds
<1> QED
  BY <1>1, <1>9, <1>12 DEF SplitTopLevelSegments, a, e, pkg, path

LEMMA LastAndFront ==
  ASSUME NEW S, NEW s \in Seq(S), NEW x \in S
  PROVE  Last(Append(s, x)) = x /\ Front(Append(s, x)) = s /\ Len(Append(s, x)) = Len(s) + 1
<1> DEFINE t == Append(s, x)
<1>1. t \in Seq(S) /\ Len(t) = Len(s) + 1 /\ Len(s) \in Nat /\ t[Len(s) + 1] = x
      /\ \A i \in 1 .. Len(s) : t[i] = s[i]
  BY AppendProperties
<1> HIDE DEF t
<1>2. Last(t) = x
  BY <1>1 DEF Last
<1>3. SubSeq(t, 1, Len(s)) = s
  BY <1>1
<1>4. Front(t) = s
  BY <1>1, <1>3 DEF Front
<1> QED
  BY <1>1, <1>2, <1>4 DEF t

\* Parsing what was written of an identity gives back the identity, whatever
\* characters its names are made of (formatSymbolId and parseSymbolId,
\* symbol-id.ts:5-21).
THEOREM Lossless ==
  \A symbol \in SymbolIdentities : ParseSymbolId(FormatSymbolId(symbol)) = symbol
<1> SUFFICES ASSUME NEW symbol \in SymbolIdentities
             PROVE  ParseSymbolId(FormatSymbolId(symbol)) = symbol
  OBVIOUS
<1> DEFINE pkg == symbol.pkg
           path == symbol.path
           e == Encoded(path)
           s == FormatSymbolId(symbol)
           segments == Append(pkg, e)
<1>1. /\ e \in Seq(Char) /\ pkg \in Coordinates /\ path \in Seq(Descriptors) /\ path # <<>>
  BY Formatted
<1>2. symbol = [pkg |-> pkg, path |-> path]
  BY DEF SymbolIdentities
<1>3. SplitTopLevelSegments(s) = segments
  BY Splits
<1>4. ParseDescriptorPath(e) = PathReader(path, <<>>)
  BY <1>1, PathReads
<1>5. pkg \in Seq(Seq(Char)) /\ Len(pkg) \in {0, 2} /\ ToSet(pkg) \subseteq Fields
  <2>1. CASE pkg = <<>>
    BY <2>1 DEF ToSet
  <2>2. CASE pkg # <<>>
    <3> DEFINE m == pkg[1]
               n == pkg[2]
    <3>1. pkg = <<m, n>> /\ m \in Fields /\ n \in Fields
      BY <1>1, <2>2, CoordinateKinds
    <3>2. m \in Seq(Char) /\ n \in Seq(Char)
      BY <3>1, WrittenText
    <3> HIDE DEF m, n
    <3>3. <<m, n>> \in Seq(Seq(Char)) /\ Len(<<m, n>>) = 2
      BY <3>2
    <3>4. ToSet(<<m, n>>) \subseteq Fields
      BY <3>1 DEF ToSet
    <3> QED
      BY <3>1, <3>3, <3>4
  <2> QED
    BY <2>1, <2>2
<1> HIDE DEF pkg, path, e, s
<1>6. Last(segments) = e /\ Front(segments) = pkg /\ Len(segments) \in {1, 3}
  <2>1. Last(segments) = e /\ Front(segments) = pkg /\ Len(segments) = Len(pkg) + 1
    <3> DEFINE T == Seq(Char)
    <3>1. e \in T /\ pkg \in Seq(T)
      BY <1>1, <1>5
    <3> HIDE DEF T
    <3> QED
      BY <3>1, LastAndFront
  <2> HIDE DEF segments
  <2>2. Len(segments) \in {1, 3}
    <3>1. Len(segments) = Len(pkg) + 1
      BY <2>1, Zenon
    <3>2. CASE Len(pkg) = 0
      BY <3>1, <3>2
    <3>3. CASE Len(pkg) = 2
      BY <3>1, <3>3
    <3> QED
      BY <1>5, <3>2, <3>3
  <2> QED
    BY <2>1, <2>2
<1> HIDE DEF segments
<1> DEFINE parsed == PathReader(path, <<>>)
<1>7. parsed.ok /\ parsed.path = path
  BY DEF PathReader
<1> HIDE DEF parsed
<1>8. ParseDescriptorPath(Last(segments)) = parsed
  BY <1>4, <1>6 DEF parsed
<1> QED
  BY <1>1, <1>2, <1>3, <1>5, <1>6, <1>7, <1>8 DEF ParseSymbolId, s

\* No two identities are written alike: an id, the storage key of a node, is
\* that of one symbol (symbol-id.ts:75-84).
THEOREM IdsAreUnique ==
  \A a, b \in SymbolIdentities : FormatSymbolId(a) = FormatSymbolId(b) => a = b
BY Lossless

-----------------------------------------------------------------------------
(* Minting.                                                                *)

LEMMA CallDescriptors ==
  ASSUME NEW callee \in Names, NEW ordinal \in Names
  PROVE  CallDescriptor(callee, ordinal) \in Descriptors
<1> DEFINE a == callee \o <<"#">>
           n == a \o ordinal
<1>1. callee \in Seq(Char) /\ callee # <<>> /\ ordinal \in Seq(Char) /\ <<"#">> \in Seq(Char)
  <2>1. "#" \in Char
    BY Characters
  <2> QED
    BY <2>1, ShortTexts DEF Names
<1>2. a \in Seq(Char) /\ a # <<>>
  BY <1>1, HeadOfBoth
<1> HIDE DEF a
<1>3. n \in Seq(Char) /\ n # <<>>
  BY <1>1, <1>2, HeadOfBoth
<1>4. CallDescriptor(callee, ordinal) = [name |-> n, suffix |-> "meta", dis |-> <<>>]
  BY DEF CallDescriptor, a
<1> HIDE DEF n
<1>5. n \in Names
  BY <1>3 DEF Names
<1>6. "meta" \in DescriptorSuffixes
  BY DEF DescriptorSuffixes, Signs
<1>7. <<>> \in Seq(Char \ {"bt", "sp", ")", "~"})
  OBVIOUS
<1> HIDE DEF n
<1> QED
  BY <1>4, <1>5, <1>6, <1>7 DEF Descriptors

\* The identity of a call site is one the schemas admit.
LEMMA CallSiteIdentities ==
  ASSUME NEW symbol \in SymbolIdentities, NEW callee \in Names, NEW ordinal \in Names
  PROVE  CallSiteOf(symbol, callee, ordinal) \in SymbolIdentities
<1> DEFINE d == CallDescriptor(callee, ordinal)
           path == Append(symbol.path, d)
<1>1. d \in Descriptors
  BY CallDescriptors
<1>2. CallSiteOf(symbol, callee, ordinal) = [symbol EXCEPT !.path = path]
  BY DEF CallSiteOf
<1> HIDE DEF d
<1>3. path \in Seq(Descriptors) /\ path # <<>>
  BY <1>1, AppendProperties DEF SymbolIdentities
<1> HIDE DEF path
<1> QED
  BY <1>2, <1>3 DEF SymbolIdentities

\* What is minted is the id of an identity the schemas admit.
MintedInv == identity \in SymbolIdentities /\ symbolId = FormatSymbolId(identity)

\* Minting a call site keeps the invariant: parsing the id of its symbol gave the identity.
LEMMA MintingKeeps == ASSUME MintedInv, [MintCallSite]_minting PROVE MintedInv'
<1>1. CASE MintCallSite
  <2>1. PICK callee \in CalleeTexts, ordinal \in Ordinals :
          /\ symbolId' = ComposeCallSiteId(symbolId, callee, ordinal)
          /\ identity' = CallSiteOf(identity, callee, ordinal)
    BY <1>1 DEF MintCallSite
  <2>2. callee \in Names /\ ordinal \in Names
    BY TextsAssumption
  <2>3. identity' \in SymbolIdentities
    BY <2>1, <2>2, CallSiteIdentities DEF MintedInv
  <2>4. ParseSymbolId(symbolId) = identity
    BY Lossless DEF MintedInv
  <2>5. symbolId' = FormatSymbolId(identity')
    BY <2>1, <2>4 DEF ComposeCallSiteId, CallSiteOf
  <2> QED
    BY <2>3, <2>5 DEF MintedInv
<1>2. CASE UNCHANGED minting
  BY <1>2 DEF MintedInv, minting
<1> QED
  BY <1>1, <1>2

\* Whatever is minted can be read back, of symbols and of the call sites whose
\* ids are made by parsing those of their symbols (call-site-id.ts:28-38).
THEOREM IdsReadBack == Minting => []CodecIsLossless
<1>1. MintSymbol => MintedInv
  BY TextsAssumption DEF MintSymbol, MintedInv
<1>2. MintedInv /\ [MintCallSite]_minting => MintedInv'
  BY MintingKeeps
<1>3. MintedInv => CodecIsLossless
  BY Lossless DEF MintedInv, CodecIsLossless
<1> QED
  BY <1>1, <1>2, <1>3, PTL DEF Minting
=============================================================================
