---------------------------- MODULE MCIngestJob -----------------------------
(***************************************************************************)
(* Two projects.  Content "y" is at two paths of c2, stays at one of c1,   *)
(* and is at a third in the other project, which also has a path and its   *)
(* content in common with c1; "x2" has a corrupt row in the cache.  c2     *)
(* deletes a file and c3 is past a byte limit.                             *)
(***************************************************************************)
EXTENDS IngestJob, TLC

TwoProjects  == {"P", "Q"}
OneProject   == {"P"}
ThreeCommits == {"c1", "c2", "d1"}
CommitsOfP   == {"c1", "c2", "c3"}

Contents == {"x1", "x2", "y", "z"}
Repos    == "c1" :> "P" @@ "c2" :> "P" @@ "c3" :> "P" @@ "d1" :> "Q"
Trees    == "c1" :> (1 :> "x1" @@ 2 :> "y" @@ 5 :> "z")
         @@ "c2" :> (1 :> "x2" @@ 2 :> "y" @@ 3 :> "y")
         @@ "c3" :> (1 :> "x1")
         @@ "d1" :> (1 :> "x1" @@ 4 :> "y")

ReposOfPQ == [c \in ThreeCommits |-> Repos[c]]
TreesOfPQ == [c \in ThreeCommits |-> Trees[c]]
ReposOfP  == [c \in CommitsOfP |-> Repos[c]]
TreesOfP  == [c \in CommitsOfP |-> Trees[c]]

Symmetry == Permutations(Worker) \cup Permutations(Job) \cup Permutations(Request)

\* The run of the overlaps starts with these commits at the heads.
OverlapInit == Init /\ head = ("P" :> "c1" @@ "Q" :> "d1")
OverlapSpec == OverlapInit /\ [][Next]_vars

\* The run of the liveness starts with an empty repository.
EmptyInit == Init /\ head = [p \in Project |-> NoCommit]
LiveFromEmpty == EmptyInit /\ [][Next]_vars /\ Fairness

Nothing   == {}
CorruptX2 == {"x2"}
OnlyC3    == {"c3"}
=============================================================================
