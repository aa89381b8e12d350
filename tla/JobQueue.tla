------------------------------ MODULE JobQueue ------------------------------
(***************************************************************************)
(* The job queue of packages/queue over the job table of packages/db: the  *)
(* two-statement idempotent enqueue, and the claim -> process -> ack /     *)
(* retry / dead-letter loop of createConsumer, run by any number of worker *)
(* processes that share one table.                                         *)
(*                                                                         *)
(* A step is one awaited statement (or one awaited callback) together with *)
(* the synchronous code that follows it, so every interleaving the event   *)
(* loops and the database allow is a behaviour.  Time is kept only as far  *)
(* as the code compares it: ripe is the set of rows whose available_at     *)
(* (status ready) or lease_until (status processing) has passed.  Which    *)
(* ripe row a claim takes is left open here; IngestJob keeps the order.   *)
(***************************************************************************)
EXTENDS Integers, FiniteSets

CONSTANTS
    Job,                    \* the row ids randomUUID() may draw
    Key,                    \* the dedupe keys producers use
    NoKey,                  \* the null dedupe_key
    NoJob,                  \* an idle worker's "no job"
    Worker,                 \* worker processes, each one polling loop
    Producer,               \* concurrent enqueue() calls
    MaxAttempts,            \* RetryPolicy.maxAttempts
    Unparsable,             \* rows parseJobReference rejects on the way out
    LeaseOutlivesDelivery,  \* TRUE: no delivery is still running when its lease ends
    MaxDeliveries,          \* bound: claims of one row
    MaxCrashes,             \* bound: worker process crashes
    MaxErrors               \* bound: statements whose promise rejects

ASSUME QueueAssumption ==
    /\ NoKey \notin Key
    /\ NoJob \notin Job
    /\ MaxAttempts \in Nat \ {0}      \* RetryPolicySchema: positive
    /\ Unparsable \subseteq Job
    /\ LeaseOutlivesDelivery \in BOOLEAN
    /\ MaxDeliveries \in Nat
    /\ MaxCrashes \in Nat
    /\ MaxErrors \in Nat

VARIABLES
    \* the job table
    status, key, attempts, ripe,
    \* the workers: program counter, the row each one holds, the attempts it read
    pc, job, delivery,
    \* the enqueue calls: program counter, requested key, answer to the caller
    ppc, want, outcome,
    \* what has happened: how often the handler of a job was started, jobs whose
    \* handler resolved, jobs the onDeadLetter sink was called for
    starts, resolved, announced,
    \* the bounds' counters
    crashes, errors

row      == <<status, key, attempts, ripe>>
loop     == <<pc, job, delivery>>
caller   == <<ppc, want, outcome>>
history  == <<starts, resolved, announced>>
faults   == <<crashes, errors>>
vars     == <<row, loop, caller, history, faults>>

Status   == {"fresh", "ready", "processing", "dead", "gone"}
Phase    == {"idle", "claimed", "handling", "acking", "retrying", "burying",
             "announcing"}
Outcome  == {"none", "accepted", "deduplicated", "failed", "violation"}

TypeOK ==
    /\ status \in [Job -> Status]
    /\ key \in [Job -> Key \cup {NoKey}]
    /\ attempts \in [Job -> Nat]
    /\ ripe \in SUBSET Job
    /\ pc \in [Worker -> Phase]
    /\ job \in [Worker -> Job \cup {NoJob}]
    /\ delivery \in [Worker -> Nat]
    /\ ppc \in [Producer -> {"idle", "inserting", "refinding"}]
    /\ want \in [Producer -> Key \cup {NoKey}]
    /\ outcome \in [Producer -> Outcome]
    /\ starts \in [Job -> Nat]
    /\ resolved \in SUBSET Job
    /\ announced \in SUBSET Job
    /\ crashes \in Nat
    /\ errors \in Nat

Init ==
    /\ status = [j \in Job |-> "fresh"]
    /\ key = [j \in Job |-> NoKey]
    /\ attempts = [j \in Job |-> 0]
    /\ ripe = {}
    /\ pc = [w \in Worker |-> "idle"]
    /\ job = [w \in Worker |-> NoJob]
    /\ delivery = [w \in Worker |-> 0]
    /\ ppc = [p \in Producer |-> "idle"]
    /\ want = [p \in Producer |-> NoKey]
    /\ outcome = [p \in Producer |-> "none"]
    /\ starts = [j \in Job |-> 0]
    /\ resolved = {}
    /\ announced = {}
    /\ crashes = 0
    /\ errors = 0

-----------------------------------------------------------------------------
(* The job table: what its statements do to one row. *)

\* A row the enqueue de-duplicates onto, and the partial unique index covers.
Active(j) == status[j] \in {"ready", "processing"}

\* findActiveByDedupeKey finds a row.
KeyTaken(k) == k # NoKey /\ \E j \in Job : Active(j) /\ key[j] = k

\* Mutant: the claim forgets the lease, or the processing branch.
ClaimableIgnoringLease(j) == Active(j) /\ attempts[j] < MaxDeliveries
ClaimableReadyOnly(j) ==
    status[j] = "ready" /\ j \in ripe /\ attempts[j] < MaxDeliveries

\* The claim's WHERE clause, and the bound on the claims of one row.
Claimable(j) == Active(j) /\ j \in ripe /\ attempts[j] < MaxDeliveries

\* INSERT of a new row; a delayed row is not claimable yet.
InsertRow(j, k) ==
    /\ status' = [status EXCEPT ![j] = "ready"]
    /\ key' = [key EXCEPT ![j] = k]
    /\ ripe' \in {ripe, ripe \cup {j}}
    /\ UNCHANGED attempts

\* Mutant: the claim of a row whose lease ran out does not count.
TakeRowCountedOnce(j) ==
    /\ status' = [status EXCEPT ![j] = "processing"]
    /\ attempts' = [attempts EXCEPT ![j] = IF status[j] = "ready" THEN @ + 1 ELSE @]
    /\ ripe' = ripe \ {j}
    /\ UNCHANGED key

\* The claim's UPDATE: one more attempt and a fresh lease.
TakeRow(j) ==
    /\ status' = [status EXCEPT ![j] = "processing"]
    /\ attempts' = [attempts EXCEPT ![j] = @ + 1]
    /\ ripe' = ripe \ {j}
    /\ UNCHANGED key

\* DELETE ... WHERE id = j, whatever the row's status or attempts are by now.
DeleteRow(j) ==
    /\ status' = [status EXCEPT ![j] = "gone"]
    /\ ripe' = ripe \ {j}
    /\ UNCHANGED <<key, attempts>>

\* UPDATE ... SET status = 'ready' WHERE id = j: no row left, nothing happens.
\* The new available_at may already have passed.
ReadyRow(j) ==
    /\ IF status[j] = "gone"
       THEN UNCHANGED <<status, ripe>>
       ELSE /\ status' = [status EXCEPT ![j] = "ready"]
            /\ ripe' \in {ripe \ {j}, ripe \cup {j}}
    /\ UNCHANGED <<key, attempts>>

\* Mutant: the index does not exist.
ReadyConflictNever(j) == FALSE

\* The partial unique index refuses to make j active again.
ReadyConflict(j) ==
    /\ status[j] # "gone"
    /\ key[j] # NoKey
    /\ \E i \in Job \ {j} : Active(i) /\ key[i] = key[j]

\* UPDATE ... SET status = 'dead' WHERE id = j.
BuryRow(j) ==
    /\ IF status[j] = "gone"
       THEN UNCHANGED status
       ELSE status' = [status EXCEPT ![j] = "dead"]
    /\ ripe' = ripe \ {j}
    /\ UNCHANGED <<key, attempts>>

-----------------------------------------------------------------------------
(* enqueue(): find, insert, and on a unique violation find again. *)

Answer(p, o) ==
    /\ ppc' = [ppc EXCEPT ![p] = "idle"]
    /\ outcome' = [outcome EXCEPT ![p] = o]

\* The dedupe look-up finds an active job.
EnqueueFinds(p, k) ==
    /\ ppc[p] = "idle"
    /\ KeyTaken(k)
    /\ Answer(p, "deduplicated")
    /\ want' = [want EXCEPT ![p] = k]
    /\ UNCHANGED <<row, loop, history, faults>>

\* There is no key, or no active job has it (yet): go on to the INSERT.
EnqueueMisses(p, k) ==
    /\ ppc[p] = "idle"
    /\ ~KeyTaken(k)
    /\ ppc' = [ppc EXCEPT ![p] = "inserting"]
    /\ want' = [want EXCEPT ![p] = k]
    /\ UNCHANGED <<row, outcome, loop, history, faults>>

Insert(p) ==
    /\ ppc[p] = "inserting"
    /\ ~KeyTaken(want[p])
    /\ \E j \in Job : status[j] = "fresh" /\ InsertRow(j, want[p])
    /\ Answer(p, "accepted")
    /\ UNCHANGED <<want, loop, history, faults>>

\* The partial unique index refuses the INSERT.
InsertViolates(p) ==
    /\ ppc[p] = "inserting"
    /\ KeyTaken(want[p])
    /\ ppc' = [ppc EXCEPT ![p] = "refinding"]
    /\ UNCHANGED <<row, want, outcome, loop, history, faults>>

\* The second look-up: the winner, or (it was settled meanwhile) the violation.
Refind(p) ==
    /\ ppc[p] = "refinding"
    /\ Answer(p, IF KeyTaken(want[p]) THEN "deduplicated" ELSE "violation")
    /\ UNCHANGED <<row, want, loop, history, faults>>

\* Any other error is rethrown; the INSERT may have been applied.
InsertFails(p) ==
    /\ ppc[p] = "inserting"
    /\ errors < MaxErrors
    /\ \/ UNCHANGED row
       \/ /\ ~KeyTaken(want[p])
          /\ \E j \in Job : status[j] = "fresh" /\ InsertRow(j, want[p])
    /\ Answer(p, "failed")
    /\ errors' = errors + 1
    /\ UNCHANGED <<want, loop, history, crashes>>

-----------------------------------------------------------------------------
(* runOnce() and its settlement. *)

Goto(w, phase) == pc' = [pc EXCEPT ![w] = phase] /\ UNCHANGED <<job, delivery>>

Release(w) ==
    /\ pc' = [pc EXCEPT ![w] = "idle"]
    /\ job' = [job EXCEPT ![w] = NoJob]
    /\ delivery' = [delivery EXCEPT ![w] = 0]

\* runOnce returns false: nothing to claim, poll again later.
Poll(w) ==
    /\ pc[w] = "idle"
    /\ ~ \E j \in Job : Claimable(j)
    /\ UNCHANGED vars

Claim(w) ==
    /\ pc[w] = "idle"
    /\ \E j \in Job :
          /\ Claimable(j)
          /\ TakeRow(j)
          /\ job' = [job EXCEPT ![w] = j]
          /\ delivery' = [delivery EXCEPT ![w] = attempts[j] + 1]
    /\ pc' = [pc EXCEPT ![w] = "claimed"]
    /\ UNCHANGED <<caller, history, faults>>

\* The claim commits and its answer is lost: the row is leased to nobody.
ClaimFails(w) ==
    /\ pc[w] = "idle"
    /\ errors < MaxErrors
    /\ \E j \in Job : Claimable(j) /\ TakeRow(j)
    /\ errors' = errors + 1
    /\ UNCHANGED <<loop, caller, history, crashes>>

\* toClaimedJob throws before the try block: the row is not settled.
RejectRow(w) ==
    /\ pc[w] = "claimed"
    /\ job[w] \in Unparsable
    /\ Release(w)
    /\ UNCHANGED <<row, caller, history, faults>>

\* A delivery past the cap is dead-lettered without running the handler.
Poison(w) ==
    /\ pc[w] = "claimed"
    /\ job[w] \notin Unparsable
    /\ delivery[w] > MaxAttempts
    /\ Goto(w, "burying")
    /\ UNCHANGED <<row, caller, history, faults>>

StartHandler(w) ==
    /\ pc[w] = "claimed"
    /\ job[w] \notin Unparsable
    /\ delivery[w] <= MaxAttempts
    /\ Goto(w, "handling")
    /\ starts' = [starts EXCEPT ![job[w]] = @ + 1]
    /\ UNCHANGED <<row, caller, resolved, announced, faults>>

HandlerResolves(w) ==
    /\ pc[w] = "handling"
    /\ Goto(w, "acking")
    /\ resolved' = resolved \cup {job[w]}
    /\ UNCHANGED <<row, caller, starts, announced, faults>>

\* settleFailure's decision: this delivery's number against the cap.
AfterFailure(w) == IF delivery[w] < MaxAttempts THEN "retrying" ELSE "burying"

\* Mutant: the ack runs in a finally block.
HandlerThrowsAcked(w) ==
    /\ pc[w] = "handling"
    /\ Goto(w, "acking")
    /\ UNCHANGED <<row, caller, history, faults>>

HandlerThrows(w) ==
    /\ pc[w] = "handling"
    /\ Goto(w, AfterFailure(w))
    /\ UNCHANGED <<row, caller, history, faults>>

Ack(w) ==
    /\ pc[w] = "acking"
    /\ DeleteRow(job[w])
    /\ Release(w)
    /\ UNCHANGED <<caller, history, faults>>

\* The ack is inside the try block: its error is settled as a failed delivery.
AckFails(w) ==
    /\ pc[w] = "acking"
    /\ errors < MaxErrors
    /\ UNCHANGED row \/ DeleteRow(job[w])
    /\ Goto(w, AfterFailure(w))
    /\ errors' = errors + 1
    /\ UNCHANGED <<caller, history, crashes>>

Retry(w) ==
    /\ pc[w] = "retrying"
    /\ ~ReadyConflict(job[w])
    /\ ReadyRow(job[w])
    /\ Release(w)
    /\ UNCHANGED <<caller, history, faults>>

\* store.retry rejects: the error reaches the loop's onError, nothing settles.
RetryFails(w) ==
    /\ pc[w] = "retrying"
    /\ \/ ReadyConflict(job[w]) /\ UNCHANGED <<row, errors>>
       \/ /\ errors < MaxErrors /\ errors' = errors + 1
          /\ \/ UNCHANGED row
             \/ ~ReadyConflict(job[w]) /\ ReadyRow(job[w])
    /\ Release(w)
    /\ UNCHANGED <<caller, history, crashes>>

\* Mutant: the sink is not called.
BurySilently(w) ==
    /\ pc[w] = "burying"
    /\ BuryRow(job[w])
    /\ Release(w)
    /\ UNCHANGED <<caller, history, faults>>

Bury(w) ==
    /\ pc[w] = "burying"
    /\ BuryRow(job[w])
    /\ Goto(w, "announcing")
    /\ UNCHANGED <<caller, history, faults>>

\* store.deadLetter rejects: onDeadLetter is not called.
BuryFails(w) ==
    /\ pc[w] = "burying"
    /\ errors < MaxErrors
    /\ UNCHANGED row \/ BuryRow(job[w])
    /\ Release(w)
    /\ errors' = errors + 1
    /\ UNCHANGED <<caller, history, crashes>>

\* The mandatory sink fires.
Announce(w) ==
    /\ pc[w] = "announcing"
    /\ announced' = announced \cup {job[w]}
    /\ Release(w)
    /\ UNCHANGED <<row, caller, starts, resolved, faults>>

\* The process dies and is restarted; its row keeps the lease it had.
Crash(w) ==
    /\ pc[w] # "idle"
    /\ crashes < MaxCrashes
    /\ crashes' = crashes + 1
    /\ Release(w)
    /\ UNCHANGED <<row, caller, history, errors>>

\* Mutant: leases never run out.
TimePassesForReady(j) ==
    /\ status[j] = "ready" /\ j \notin ripe
    /\ ripe' = ripe \cup {j}
    /\ UNCHANGED <<status, key, attempts, loop, caller, history, faults>>

\* available_at or lease_until passes.
TimePasses(j) ==
    /\ Active(j) /\ j \notin ripe
    /\ LeaseOutlivesDelivery /\ status[j] = "processing"
          => \A w \in Worker : job[w] # j
    /\ ripe' = ripe \cup {j}
    /\ UNCHANGED <<status, key, attempts, loop, caller, history, faults>>

-----------------------------------------------------------------------------
Enqueue(p) ==
    \/ \E k \in Key \cup {NoKey} : EnqueueFinds(p, k) \/ EnqueueMisses(p, k)
    \/ Insert(p) \/ InsertViolates(p) \/ Refind(p) \/ InsertFails(p)

\* What a worker does once it holds a row and nothing goes wrong outside it.
Work(w) ==
    \/ RejectRow(w) \/ Poison(w) \/ StartHandler(w)
    \/ HandlerResolves(w) \/ HandlerThrows(w)
    \/ Ack(w) \/ Retry(w) \/ Bury(w) \/ Announce(w)

Fault(w) ==
    ClaimFails(w) \/ AckFails(w) \/ RetryFails(w) \/ BuryFails(w) \/ Crash(w)

Next ==
    \/ \E p \in Producer : Enqueue(p)
    \/ \E w \in Worker : Poll(w) \/ Claim(w) \/ Work(w) \/ Fault(w)
    \/ \E j \in Job : TimePasses(j)

Spec == Init /\ [][Next]_vars

\* The polling loop never stops, an awaited statement and the handler settle
\* (git runs under a timeout, the ingest is a finite computation), and clocks
\* advance.  A retry refused by the index ends in onError, as any step does.
Fairness ==
    /\ \A w \in Worker : WF_vars(Claim(w)) /\ WF_vars(Work(w) \/ RetryFails(w))
    /\ \A j \in Job : WF_vars(TimePasses(j))

LiveSpec == Spec /\ Fairness

-----------------------------------------------------------------------------
(* Safety. *)

\* At most one active row has a given dedupe key, however many producers race
\* between the look-up and the INSERT and whatever a late retry revives.
ActiveKeysUnique ==
    \A i, j \in Job :
        Active(i) /\ Active(j) /\ key[i] = key[j] /\ key[i] # NoKey => i = j

\* At-least-once: a row leaves the table only if one of its handlers resolved.
DeletedOnlyAfterHandler ==
    \A j \in Job : status[j] = "gone" => j \in resolved

\* Poison-bounded: across crashes, lost answers and overlapping deliveries the
\* handler of one job is started at most MaxAttempts times in all, by whichever
\* workers: every start is paid for by a claim of its own, and every claim of the
\* row counts (consumer.ts:128-137).
HandlerRunsBounded ==
    \A j \in Job : starts[j] <= MaxAttempts

\* No two workers ever run the same delivery of a job, so an attempt number
\* identifies one run of the handler.
DeliveriesDistinct ==
    \A v, w \in Worker :
        v # w /\ job[v] = job[w] /\ job[v] # NoJob => delivery[v] # delivery[w]

\* A job is dead-lettered only after its whole budget of deliveries was claimed.
DeadOnlyWhenExhausted ==
    \A j \in Job : status[j] = "dead" => attempts[j] >= MaxAttempts

\* While leases outlive deliveries, no row is held by two workers.
ExclusiveDelivery ==
    \A v, w \in Worker : job[v] = job[w] /\ job[v] # NoJob => v = w

\* An audit row stays: nothing deletes or revives a dead-lettered job.
DeadIsFinal ==
    [][\A j \in Job : status[j] = "dead" => status'[j] = "dead"]_vars

\* A dead job nobody was told of, and nobody is about to tell anybody of.
Silent == {j \in Job : /\ status[j] = "dead" /\ j \notin announced
                       /\ \A w \in Worker : ~(pc[w] = "announcing" /\ job[w] = j)}

\* Every silent dead letter is the price of a crash or a lost answer of its own:
\* overlapping deliveries and late settlements alone never silence one.
FaultsSilenceOneEach == Cardinality(Silent) <= crashes + errors

(* Liveness. *)

\* Every enqueued job is eventually processed and deleted, or dead-lettered.
EveryJobSettles ==
    \A j \in Job : Active(j) ~> status[j] \in {"gone", "dead"}

-----------------------------------------------------------------------------
(* The promise: a refinement of JobContract. *)

Stage ==
    [j \in Job |->
        CASE status[j] = "fresh" -> "none"
          [] Active(j)           -> "queued"
          [] status[j] = "dead"  -> "dead"
          [] status[j] = "gone"  -> "done"]

Contract == INSTANCE JobContract WITH stage <- Stage, worked <- resolved

\* While leases outlive deliveries the queue keeps the contract: dead and done
\* are final, a job is done only after it was worked, no key has two live jobs.
KeepsContract == Contract!Spec

\* ... and, the faults being finitely many, no accepted job lingers.
KeepsFairContract == Contract!FairSpec
=============================================================================
