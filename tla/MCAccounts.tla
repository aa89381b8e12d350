----------------------------- MODULE MCAccounts -----------------------------
(* Two users, a team, and the tables the migration may find. *)
EXTENDS Accounts

CONSTANTS ann, bob, gone, team, p1, p2, q1, q2

Users    == {ann, bob}
Teams    == {team}
Projects == {p1, p2}
Requests == {q1, q2}

\* One project of ann, one of a user whose row is gone.
Owners == (p1 :> ann) @@ (p2 :> gone)

Row(u, w, role) == [user |-> u, ws |-> w, role |-> role]

\* ann with no workspace, with half of one, with her own, or with the team's
\* before her own; bob owns the team, or nothing, or half of a workspace;
\* the workspace of the user who is gone is still there, or is not.
Tables ==
  LET bobs == Row(bob, team, "owner")
      Her(r) == Row(ann, <<ann, 1>>, r)
  IN {[organization |-> {team, <<gone, 1>>}, member |-> <<>>],
      [organization |-> {team, <<ann, 1>>, <<bob, 1>>}, member |-> <<Her("owner")>>],
      [organization |-> {team}, member |-> <<bobs>>],
      [organization |-> {team, <<ann, 1>>}, member |-> <<bobs>>],
      [organization |-> {team, <<ann, 1>>}, member |-> <<bobs, Her("owner")>>],
      [organization |-> {team, <<ann, 1>>},
       member |-> <<bobs, Row(ann, team, "member"), Her("owner")>>]}
=============================================================================
