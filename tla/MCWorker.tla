------------------------------ MODULE MCWorker ------------------------------
(* Two jobs, each fresh or delivered before as often as the policy allows. *)
EXTENDS Worker

CONSTANTS j1, j2
Jobs == {j1, j2}
=============================================================================
