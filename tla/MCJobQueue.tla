----------------------------- MODULE MCJobQueue -----------------------------
(* Model values, symmetry and small instances of JobQueue for TLC. *)
EXTENDS JobQueue, TLC

CONSTANTS j1, j2, k1, w1, w2, p1, p2

OneJob     == {j1}
TwoJobs    == {j1, j2}
OneKey     == {k1}
TwoWorkers == {w1, w2}
TwoProducers == {p1, p2}
OneProducer  == {p1}
NoRows     == {}
SecondJob  == {j2}

\* Workers and producers are interchangeable; one row differs from the other.
ActorSymmetry == Permutations(Worker) \cup Permutations(Producer)
=============================================================================
