---------------------------- MODULE MCGraphServe ----------------------------
(***************************************************************************)
(* Small graphs and requests for GraphServe.                               *)
(***************************************************************************)
EXTENDS GraphServe

Node(kind, id, name) ==
    [kind |-> kind, id |-> id, name |-> name, payload |-> <<>>, enclosing |-> 0]
Edge(kind, source, target, certainty) ==
    [kind |-> kind, source |-> source, target |-> target, subKind |-> 0, certainty |-> certainty]
In(source, targets) == {Edge("contains", source, t, "deterministic") : t \in targets}

-----------------------------------------------------------------------------
(* Three versions of a project: a package of two files, of which one uses  *)
(* the other; declarations come, go and change their names between them.   *)

Named(name) == [pass |-> "named", name |-> name, ordinal |-> 0]
Site(id, enclosing, payload) ==
    [Node("callSite", id, 0) EXCEPT !.payload = payload, !.enclosing = enclosing]
Render(source, target) == [Edge("calls", source, target, "deterministic") EXCEPT !.subKind = 1]
Gap(code, target, name) == [code |-> code, target |-> target, name |-> name]
Common == {Node("package", 1, 0), Node("file", 2, 0), Node("file", 3, 0), Node("symbol", 4, 21)}

Version1 ==
    [nodes |-> Common \cup {Node("symbol", 5, 22), Node("symbol", 6, 21), Node("symbol", 7, 23),
                            Site(8, 4, <<Named(24), Named(23)>>), Node("symbol", 9, 24)},
     edges |-> In(1, {2, 3}) \cup In(2, {4, 5}) \cup In(3, {6}) \cup In(5, {7, 9}) \cup In(4, {8})
               \cup {Edge("calls", 4, 5, "deterministic"), Edge("calls", 8, 5, "deterministic"),
                     Render(8, 5), Edge("calls", 5, 40, "deterministic"),
                     Edge("references", 8, 7, "inferred"), Edge("references", 8, 9, "deterministic"),
                     Edge("imports", 5, 4, "inferred"), Edge("imports", 5, 6, "inferred"),
                     Edge("imports", 4, 6, "deterministic"), Edge("exports", 2, 4, "deterministic")},
     diagnostics |-> {}]
Version2 ==
    [nodes |-> Common \cup {Node("symbol", 6, 22), Node("symbol", 7, 21), Site(8, 4, <<Named(21)>>)},
     edges |-> In(1, {2, 3}) \cup In(2, {4}) \cup In(3, {6, 7}) \cup In(4, {8})
               \cup {Edge("calls", 4, 6, "deterministic"), Edge("calls", 6, 7, "inferred"),
                     Edge("references", 8, 7, "deterministic"),
                     Edge("imports", 7, 6, "deterministic"), Edge("imports", 6, 4, "inferred")},
     diagnostics |-> {Gap("unbound-callee", 0, 21), Gap("unresolved-member", 3, 22)}]
Version3 ==
    [nodes |-> {Node("package", 1, 0), Node("package", 10, 0), Node("file", 3, 0),
                Node("symbol", 5, 21), Node("symbol", 6, 21), Node("symbol", 7, 21), Site(8, 6, <<>>)},
     edges |-> In(10, {3}) \cup In(3, {5, 6, 7}) \cup In(6, {8})
               \cup {Edge("calls", 5, 5, "inferred"), Edge("calls", 8, 7, "deterministic"),
                     Edge("imports", 6, 5, "deterministic"), Edge("imports", 5, 7, "deterministic")},
     diagnostics |-> {Gap("unresolved-member", 2, 21)}]
MCVersions == {Version1, Version2, Version3}

-----------------------------------------------------------------------------
(* Bare dependency graphs, for cycles and blast radii.                     *)
Trusts == {{}, {"deterministic"}, {"inferred"}, {"deterministic", "inferred"}}
Bare(n, edges) == [nodes |-> {Node("symbol", k, 20 + k) : k \in 1 .. n}, edges |-> edges,
                   diagnostics |-> {}]
Pairs3 == {<<1, 1>>, <<1, 2>>, <<2, 1>>, <<2, 3>>, <<3, 1>>, <<3, 2>>}
Pairs4 == {p \in (1 .. 4) \X (1 .. 4) : p[1] # p[2]}
Of(pair, trust) == Edge("calls", pair[1], pair[2], trust)
Shapes3 == {Bare(3, UNION {{Of(p, t) : t \in trust[p]} : p \in Pairs3}) :
              trust \in [Pairs3 -> Trusts \ {{"deterministic", "inferred"}}]}
Shapes4 == {Bare(4, {Of(p, "deterministic") : p \in pairs}) :
              pairs \in {s \in SUBSET Pairs4 : Cardinality(s) \in 4 .. 6}}
Shapes5 == {Bare(5, {Of(p, IF p[1] < p[2] THEN "deterministic" ELSE "inferred") : p \in pairs}) :
              pairs \in {{<<1, 2>>, <<2, 3>>, <<3, 1>>, <<2, 4>>, <<4, 5>>, <<5, 4>>},
                         {<<1, 2>>, <<2, 3>>, <<3, 4>>, <<4, 5>>, <<5, 1>>},
                         {<<2, 1>>, <<3, 2>>, <<4, 3>>, <<5, 4>>, <<5, 1>>}}}
(* 54 is 4 but for the case of a letter. *)
MCLikeForm(id) == IF id > 50 THEN id - 50 ELSE id
PairsAlike == {p \in {1, 2, 4, 54} \X {1, 2, 4, 54} : p[1] # p[2]}
ShapesAlike == {[nodes |-> {Node("symbol", k, 20 + k) : k \in {1, 2, 4, 54}},
                 edges |-> {Of(p, IF p = <<54, 2>> THEN "inferred" ELSE "deterministic") : p \in pairs},
                 diagnostics |-> {}] :
                  pairs \in {s \in SUBSET PairsAlike : Cardinality(s) \in 3 .. 4}}
MCGraphs == MCVersions \cup Shapes3 \cup Shapes4 \cup Shapes5 \cup ShapesAlike

Query(view, id, limit) ==
    [view |-> view, id |-> id, limit |-> limit, direction |-> "in", kind |-> "", name |-> 0,
     depth |-> 2, level |-> "file", scope |-> {}]
OnShapes == {Query("cycles", 0, 1), Query("blastRadius", 1, 3),
             [Query("blastRadius", 1, 2) EXCEPT !.depth = 3]}
OnVersions ==
    {Query(view, 5, 2) : view \in {"nodeDetail", "declaredInterface", "neighbors"}}
    \cup {[Query("neighbors", 8, 1) EXCEPT !.direction = "out"], Query("callBindings", 8, 1),
          Query("nodeDetail", 8, 1), Query("callBindings", 4, 1), Query("declarations", 3, 2),
          Query("callSites", 4, 1), Query("nameCollisions", 0, 1), Query("unusedSymbols", 0, 1),
          Query("cycles", 0, 1), Query("blastRadius", 6, 1), Query("map", 0, 2),
          [Query("search", 0, 2) EXCEPT !.kind = "symbol"],
          [Query("search", 0, 1) EXCEPT !.name = 21],
          [Query("map", 0, 1) EXCEPT !.level = "package"],
          [Query("map", 0, 2) EXCEPT !.level = "symbol"],
          [Query("map", 0, 2) EXCEPT !.level = "symbol", !.scope = {3}],
          [Query("map", 0, 2) EXCEPT !.scope = {1}]}
MCRequestsOn(g) == IF g \in MCVersions THEN OnVersions ELSE OnShapes

=============================================================================
