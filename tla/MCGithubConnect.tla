-------------------------- MODULE MCGithubConnect ---------------------------
(* Two users, a workspace of each and one they share, two repositories. *)
EXTENDS GithubConnect, TLC

CONSTANTS u1, u2, i1, i2, r1, r2, q1, q2

TwoUsers    == {u1, u2}
Workspaces  == {"own1", "own2"}
Members     == u1 :> {"own1"} @@ u2 :> {"own2", "own1"}
Firsts      == u1 :> "own1" @@ u2 :> "own2"
TwoInstallations == {i1, i2}
TwoRepos    == {r1, r2}
TwoRequests == {q1, q2}

AllChanges  == Acts

Symmetry == Permutations(Installation) \cup Permutations(Repo) \cup Permutations(Request)
=============================================================================
