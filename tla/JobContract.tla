---------------------------- MODULE JobContract ----------------------------
(***************************************************************************)
(* What the queue promises its producers (ADR-0023 section 5), said        *)
(* without rows, leases or workers: an accepted job is worked at least     *)
(* once before it is forgotten, or it is kept as dead for good; at most    *)
(* one live job has a given dedupe key; and no accepted job lingers.       *)
(***************************************************************************)
CONSTANTS Job, Key, NoKey

VARIABLES
    stage,      \* the life of each job
    key,        \* its dedupe key
    worked      \* the jobs a handler has resolved for

vars == <<stage, key, worked>>

Init ==
    /\ stage = [j \in Job |-> "none"]
    /\ key = [j \in Job |-> NoKey]
    /\ worked = {}

Accept(j, k) ==
    /\ stage[j] = "none"
    /\ k # NoKey => ~ \E i \in Job : stage[i] = "queued" /\ key[i] = k
    /\ stage' = [stage EXCEPT ![j] = "queued"]
    /\ key' = [key EXCEPT ![j] = k]
    /\ UNCHANGED worked

Perform(j) ==
    /\ stage[j] = "queued"
    /\ worked' = worked \cup {j}
    /\ UNCHANGED <<stage, key>>

Complete(j) ==
    /\ stage[j] = "queued" /\ j \in worked
    /\ stage' = [stage EXCEPT ![j] = "done"]
    /\ UNCHANGED <<key, worked>>

GiveUp(j) ==
    /\ stage[j] = "queued"
    /\ stage' = [stage EXCEPT ![j] = "dead"]
    /\ UNCHANGED <<key, worked>>

Next ==
    \E j \in Job :
        \/ \E k \in Key \cup {NoKey} : Accept(j, k)
        \/ Perform(j) \/ Complete(j) \/ GiveUp(j)

Spec == Init /\ [][Next]_vars

FairSpec == Spec /\ \A j \in Job : WF_vars(Complete(j) \/ GiveUp(j))
=============================================================================
