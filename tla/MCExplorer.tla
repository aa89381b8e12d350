----------------------------- MODULE MCExplorer -----------------------------
(* Two small projects that share their ids, and the links that open them. *)
EXTENDS Explorer

\* A package over one file, and the same file under no package.
Packaged ==
  [kind |-> [pkg |-> "package", f |-> "file", s |-> "symbol", c |-> "callSite"],
   parent |-> [pkg |-> Nothing, f |-> "pkg", s |-> "f", c |-> "s"],
   edges |-> {[source |-> "f", target |-> "s", kind |-> "calls", trust |-> "inferred"]}]
Flat ==
  [kind |-> [f |-> "file", s |-> "symbol"],
   parent |-> [f |-> Nothing, s |-> "f"],
   edges |-> {[source |-> "f", target |-> "s", kind |-> "imports", trust |-> "deterministic"]}]

Graphs == [a |-> Packaged, b |-> Flat]

Root == [level |-> Nothing, scope |-> Nothing, node |-> Nothing, blast |-> FALSE]
Links == {Root,
          [level |-> "symbol", scope |-> Nothing, node |-> "s", blast |-> TRUE],
          [level |-> "symbol", scope |-> "f", node |-> "s", blast |-> FALSE]}

MapAndNode == {"map", "node"}

OneText == {"text"}
FindsAll == [t \in {"text"} |-> {"pkg", "s"}]
=============================================================================
