--------------------------- MODULE JobQueueProofs ---------------------------
(***************************************************************************)
(* Theorems about JobQueue, for every set of jobs, keys, workers and       *)
(* producers and every value of the policy and of the bounds.              *)
(***************************************************************************)
EXTENDS JobQueue, FiniteSetTheorems, TLAPS

-----------------------------------------------------------------------------
(* Typing. *)

LEMMA TypeInit == Init => TypeOK
  BY DEF Init, TypeOK, Status, Phase, Outcome

\* An enqueue() step keeps the types.
LEMMA TypeEnqueue ==
    ASSUME TypeOK, NEW p \in Producer, Enqueue(p)
    PROVE  TypeOK'
<1> USE QueueAssumption DEF TypeOK, row, loop, caller, history, faults, Answer, Outcome
<1>1. ASSUME NEW k \in Key \cup {NoKey}, EnqueueFinds(p, k) PROVE TypeOK'
  BY <1>1 DEF EnqueueFinds
<1>2. ASSUME NEW k \in Key \cup {NoKey}, EnqueueMisses(p, k) PROVE TypeOK'
  BY <1>2 DEF EnqueueMisses
<1>3. CASE Insert(p)
  BY <1>3 DEF Insert, InsertRow, Status
<1>4. CASE InsertViolates(p)
  BY <1>4 DEF InsertViolates
<1>5. CASE Refind(p)
  BY <1>5 DEF Refind
<1>6. CASE InsertFails(p)
  BY <1>6 DEF InsertFails, InsertRow, Status
<1> QED
  BY <1>1, <1>2, <1>3, <1>4, <1>5, <1>6 DEF Enqueue

\* A worker that is not idle holds a job.
Holding == \A w \in Worker : pc[w] # "idle" => job[w] \in Job

\* A step of a worker's loop, its crash included, keeps the types.
LEMMA TypeWorker ==
    ASSUME TypeOK, Holding, NEW w \in Worker,
           Claim(w) \/ Work(w) \/ Fault(w)
    PROVE  TypeOK' /\ Holding'
<1> USE QueueAssumption
    DEF TypeOK, Holding, row, loop, caller, history, faults, Goto, Release, Phase
<1>1. CASE Claim(w)
  BY <1>1 DEF Claim, TakeRow, Status
<1>2. CASE Work(w)
  <2>1. CASE RejectRow(w) \/ Poison(w) \/ HandlerThrows(w)
    BY <2>1 DEF RejectRow, Poison, HandlerThrows, AfterFailure
  <2>2. CASE StartHandler(w)
    BY <2>2 DEF StartHandler
  <2>3. CASE HandlerResolves(w)
    BY <2>3 DEF HandlerResolves
  <2>4. CASE Ack(w)
    BY <2>4 DEF Ack, DeleteRow, Status
  <2>5. CASE Retry(w)
    BY <2>5 DEF Retry, ReadyRow, Status
  <2>6. CASE Bury(w)
    BY <2>6 DEF Bury, BuryRow, Status
  <2>7. CASE Announce(w)
    BY <2>7 DEF Announce
  <2> QED
    BY <1>2, <2>1, <2>2, <2>3, <2>4, <2>5, <2>6, <2>7 DEF Work
<1>3. CASE Fault(w)
  <2>1. CASE ClaimFails(w)
    BY <2>1 DEF ClaimFails, TakeRow, Status
  <2>2. CASE AckFails(w)
    BY <2>2 DEF AckFails, DeleteRow, Status, AfterFailure
  <2>3. CASE RetryFails(w)
    BY <2>3 DEF RetryFails, ReadyRow, Status
  <2>4. CASE BuryFails(w)
    BY <2>4 DEF BuryFails, BuryRow, Status
  <2>5. CASE Crash(w)
    BY <2>5 DEF Crash
  <2> QED
    BY <1>3, <2>1, <2>2, <2>3, <2>4, <2>5 DEF Fault
<1> QED
  BY <1>1, <1>2, <1>3

LEMMA TypeNext == TypeOK /\ Holding /\ [Next]_vars => TypeOK' /\ Holding'
<1> SUFFICES ASSUME TypeOK, Holding, [Next]_vars
             PROVE  TypeOK' /\ Holding'
  OBVIOUS
<1>1. ASSUME NEW p \in Producer, Enqueue(p) PROVE TypeOK' /\ Holding'
  <2>1. UNCHANGED loop
    BY <1>1 DEF Enqueue, EnqueueFinds, EnqueueMisses, Insert, InsertViolates,
                Refind, InsertFails
  <2> QED
    BY <1>1, <2>1, TypeEnqueue DEF Holding, loop
<1>2. ASSUME NEW w \in Worker, Claim(w) \/ Work(w) \/ Fault(w)
      PROVE  TypeOK' /\ Holding'
  BY <1>2, TypeWorker
<1>3. ASSUME NEW j \in Job, TimePasses(j) PROVE TypeOK' /\ Holding'
  BY <1>3 DEF TimePasses, TypeOK, Holding, loop, caller, history, faults
<1>4. CASE UNCHANGED vars
  BY <1>4 DEF vars, TypeOK, Holding, row, loop, caller, history, faults
<1> QED
  BY <1>1, <1>2, <1>3, <1>4 DEF Next, Poll

LEMMA HoldingInit == Init => Holding
  BY DEF Init, Holding

LEMMA TypeAndHolding == Spec => [](TypeOK /\ Holding)
<1>1. Init => TypeOK /\ Holding
  BY TypeInit, HoldingInit
<1> QED
  BY <1>1, TypeNext, PTL DEF Spec

\* Type correctness of the queue: every variable keeps its type.
THEOREM TypeCorrect == Spec => []TypeOK
  BY TypeAndHolding, PTL

-----------------------------------------------------------------------------
(* The inductive invariant.  A worker's delivery number lies between 1 and *)
(* the row's attempts and no other holder of the row has it; a job's starts *)
(* and the deliveries that may yet start are together no more than its     *)
(* claims, and no more than the cap allows.  A worker reaches              *)
(* the ack only after its handler resolved and the dead-letter path only   *)
(* with an exhausted budget, which is what the rows then inherit.          *)

LoopOK(w) ==
    /\ pc[w] = "idle" => job[w] = NoJob
    /\ pc[w] # "idle" => /\ job[w] \in Job
                         /\ status[job[w]] # "fresh"
                         /\ delivery[w] \in 1 .. attempts[job[w]]
    /\ pc[w] = "acking" => job[w] \in resolved
    /\ pc[w] = "burying" => delivery[w] >= MaxAttempts

\* The claimed deliveries of a job that are within the cap.
Pending(j) == {w \in Worker : /\ pc[w] = "claimed" /\ job[w] = j
                              /\ delivery[w] <= MaxAttempts}

StartsOK ==
    \A j \in Job : /\ IsFiniteSet(Pending(j))
                   /\ starts[j] + Cardinality(Pending(j)) <= attempts[j]
                   /\ starts[j] + Cardinality(Pending(j)) <= MaxAttempts

LoopInv == (\A w \in Worker : LoopOK(w)) /\ DeliveriesDistinct /\ StartsOK

RowInv == ActiveKeysUnique /\ DeletedOnlyAfterHandler /\ DeadOnlyWhenExhausted

IInv == TypeOK /\ LoopInv /\ RowInv

LEMMA LoopHolding == LoopInv => Holding
  BY DEF LoopInv, LoopOK, Holding

\* What any step may do to the table.
RowStep ==
    \/ UNCHANGED <<status, key, attempts>>
    \/ \E j \in Job, k \in Key \cup {NoKey} :
          status[j] = "fresh" /\ ~KeyTaken(k) /\ InsertRow(j, k)
    \/ \E j \in Job : Active(j) /\ TakeRow(j)
    \/ \E j \in Job : j \in resolved /\ DeleteRow(j)
    \/ \E j \in Job : status[j] # "fresh" /\ ~ReadyConflict(j) /\ ReadyRow(j)
    \/ \E j \in Job : attempts[j] >= MaxAttempts /\ BuryRow(j)

LEMMA RowSteps == TypeOK /\ LoopInv /\ [Next]_vars => RowStep
<1> SUFFICES ASSUME TypeOK, LoopInv, [Next]_vars PROVE RowStep
  OBVIOUS
<1> USE DEF row
<1>1. ASSUME NEW p \in Producer, Enqueue(p) PROVE RowStep
  <2>1. want[p] \in Key \cup {NoKey}
    BY DEF TypeOK
  <2> QED
    BY <1>1, <2>1 DEF Enqueue, EnqueueFinds, EnqueueMisses, Insert, InsertViolates,
                      Refind, InsertFails, RowStep
<1>2. ASSUME NEW w \in Worker, Claim(w) \/ ClaimFails(w) PROVE RowStep
  BY <1>2 DEF Claim, ClaimFails, Claimable, RowStep
<1>3. ASSUME NEW w \in Worker, Work(w) \/ AckFails(w) \/ RetryFails(w)
                               \/ BuryFails(w) \/ Crash(w)
      PROVE  RowStep
  <2>1. CASE \/ RejectRow(w) \/ Poison(w) \/ StartHandler(w) \/ HandlerResolves(w)
             \/ HandlerThrows(w) \/ Announce(w) \/ Crash(w)
    BY <2>1 DEF RejectRow, Poison, StartHandler, HandlerResolves, HandlerThrows,
                Announce, Crash, RowStep
  <2>2. CASE Ack(w) \/ AckFails(w)
    BY <2>2 DEF Ack, AckFails, RowStep, LoopInv, LoopOK
  <2>3. CASE Retry(w) \/ RetryFails(w)
    BY <2>3 DEF Retry, RetryFails, RowStep, LoopInv, LoopOK
  <2>4. CASE Bury(w) \/ BuryFails(w)
    <3>1. pc[w] = "burying"
      BY <2>4 DEF Bury, BuryFails
    <3>2. job[w] \in Job /\ attempts[job[w]] >= MaxAttempts
      BY <3>1, QueueAssumption DEF LoopInv, LoopOK, TypeOK
    <3> QED
      BY <2>4, <3>2 DEF Bury, BuryFails, RowStep
  <2> QED
    BY <1>3, <2>1, <2>2, <2>3, <2>4 DEF Work
<1>4. ASSUME NEW j \in Job, TimePasses(j) PROVE RowStep
  BY <1>4 DEF TimePasses, RowStep
<1>5. CASE UNCHANGED vars
  BY <1>5 DEF vars, RowStep
<1> QED
  BY <1>1, <1>2, <1>3, <1>4, <1>5 DEF Next, Fault, Poll

\* No step forgets a resolved handler.
LEMMA ResolvedGrows == [Next]_vars => resolved \subseteq resolved'
  BY DEF Next, vars, history, Enqueue, EnqueueFinds, EnqueueMisses, Insert,
         InsertViolates, Refind, InsertFails, Poll, Claim, Work, Fault, RejectRow,
         Poison, StartHandler, HandlerResolves, HandlerThrows, Ack, Retry, Bury,
         Announce, ClaimFails, AckFails, RetryFails, BuryFails, Crash, TimePasses

LEMMA RowInvNext ==
    TypeOK /\ LoopInv /\ RowInv /\ [Next]_vars => RowInv'
<1> SUFFICES ASSUME TypeOK, LoopInv, RowInv, [Next]_vars PROVE RowInv'
  OBVIOUS
<1>1. RowStep /\ resolved \subseteq resolved'
  BY RowSteps, ResolvedGrows
<1> USE QueueAssumption DEF RowInv, TypeOK
<1>2. ActiveKeysUnique'
  <2>1. CASE UNCHANGED <<status, key, attempts>>
    BY <2>1 DEF ActiveKeysUnique, Active
  <2>2. ASSUME NEW j \in Job, NEW k \in Key \cup {NoKey},
               status[j] = "fresh", ~KeyTaken(k), InsertRow(j, k)
        PROVE  ActiveKeysUnique'
    BY <2>2 DEF ActiveKeysUnique, Active, KeyTaken, InsertRow
  <2>3. ASSUME NEW j \in Job, Active(j), TakeRow(j) PROVE ActiveKeysUnique'
    BY <2>3 DEF ActiveKeysUnique, Active, TakeRow
  <2>4. ASSUME NEW j \in Job, DeleteRow(j) PROVE ActiveKeysUnique'
    BY <2>4 DEF ActiveKeysUnique, Active, DeleteRow
  <2>5. ASSUME NEW j \in Job, ~ReadyConflict(j), ReadyRow(j)
        PROVE  ActiveKeysUnique'
    BY <2>5 DEF ActiveKeysUnique, Active, ReadyConflict, ReadyRow
  <2>6. ASSUME NEW j \in Job, BuryRow(j) PROVE ActiveKeysUnique'
    BY <2>6 DEF ActiveKeysUnique, Active, BuryRow
  <2> QED
    BY <1>1, <2>1, <2>2, <2>3, <2>4, <2>5, <2>6 DEF RowStep
<1>3. DeletedOnlyAfterHandler'
  BY <1>1 DEF RowStep, DeletedOnlyAfterHandler, InsertRow, TakeRow, DeleteRow,
              ReadyRow, BuryRow
<1>4. DeadOnlyWhenExhausted'
  BY <1>1 DEF RowStep, DeadOnlyWhenExhausted, InsertRow, TakeRow, DeleteRow,
              ReadyRow, BuryRow
<1> QED
  BY <1>2, <1>3, <1>4

\* The table only moves forward: attempts never fall, no row becomes fresh.
LEMMA RowsMonotone ==
    ASSUME TypeOK, RowStep
    PROVE  \A j \in Job : /\ attempts[j] <= attempts'[j]
                          /\ status[j] # "fresh" => status'[j] # "fresh"
  BY DEF TypeOK, RowStep, InsertRow, TakeRow, DeleteRow, ReadyRow, BuryRow

\* A worker the step does not move keeps its invariant.
LEMMA LoopFrame ==
    ASSUME TypeOK, TypeOK', RowStep, resolved \subseteq resolved',
           NEW w \in Worker, LoopOK(w),
           UNCHANGED <<pc[w], job[w], delivery[w]>>
    PROVE  LoopOK(w)'
<1>1. \A j \in Job : /\ attempts[j] \in Nat /\ attempts'[j] \in Nat
                     /\ attempts[j] <= attempts'[j]
                     /\ status[j] # "fresh" => status'[j] # "fresh"
  BY RowsMonotone DEF TypeOK
<1>2. delivery[w] \in Nat
  BY DEF TypeOK
<1> QED
  BY <1>1, <1>2 DEF LoopOK

\* A step that starts nothing, and after which no more deliveries are pending.
LEMMA StartsKept ==
    ASSUME TypeOK, TypeOK', StartsOK, RowStep, UNCHANGED starts,
           \A j \in Job : Pending(j)' \subseteq Pending(j)
    PROVE  StartsOK'
<1> SUFFICES ASSUME NEW j \in Job
             PROVE  /\ IsFiniteSet(Pending(j)')
                    /\ starts'[j] + Cardinality(Pending(j)') <= attempts'[j]
                    /\ starts'[j] + Cardinality(Pending(j)') <= MaxAttempts
  BY DEF StartsOK
<1> DEFINE before == Pending(j)  after == Pending(j)'
<1>1. IsFiniteSet(before) /\ after \subseteq before
  BY DEF StartsOK
<1> HIDE DEF before, after
<1>2. /\ IsFiniteSet(after) /\ Cardinality(after) <= Cardinality(before)
      /\ Cardinality(after) \in Nat /\ Cardinality(before) \in Nat
  BY <1>1, FS_Subset, FS_CardinalityType
<1>3. /\ starts[j] + Cardinality(before) <= attempts[j]
      /\ starts[j] + Cardinality(before) <= MaxAttempts
  BY DEF StartsOK, before
<1>4. starts'[j] = starts[j] /\ starts[j] \in Nat
  BY DEF TypeOK
<1>5. attempts[j] <= attempts'[j] /\ attempts[j] \in Nat /\ attempts'[j] \in Nat
  BY RowsMonotone DEF TypeOK
<1>6. starts'[j] + Cardinality(after) <= attempts'[j]
  BY <1>2, <1>3, <1>4, <1>5
<1>7. starts'[j] + Cardinality(after) <= MaxAttempts
  BY <1>2, <1>3, <1>4, QueueAssumption
<1> QED
  BY <1>2, <1>6, <1>7 DEF after

\* A step that moves only worker w, to another phase than "claimed", and starts
\* nothing, keeps LoopInv if it keeps w's part of it.
LEMMA OneWorkerMoves ==
    ASSUME TypeOK, TypeOK', LoopInv, RowStep, resolved \subseteq resolved',
           NEW w \in Worker,
           \A v \in Worker \ {w} : UNCHANGED <<pc[v], job[v], delivery[v]>>,
           UNCHANGED starts, pc'[w] # "claimed",
           \/ UNCHANGED <<job[w], delivery[w]>>
           \/ job'[w] = NoJob,
           LoopOK(w)'
    PROVE  LoopInv'
<1>1. \A v \in Worker : LoopOK(v)'
  <2> SUFFICES ASSUME NEW v \in Worker, v # w PROVE LoopOK(v)'
    OBVIOUS
  <2>1. LoopOK(v)
    BY DEF LoopInv
  <2>2. UNCHANGED <<pc[v], job[v], delivery[v]>>
    OBVIOUS
  <2> QED
    BY <2>1, <2>2, LoopFrame
<1>2. DeliveriesDistinct'
  BY DEF LoopInv, DeliveriesDistinct
<1>3. StartsOK'
  <2>1. \A j \in Job : Pending(j)' \subseteq Pending(j)
    BY DEF Pending
  <2> QED
    BY <2>1, StartsKept DEF LoopInv
<1> QED
  BY <1>1, <1>2, <1>3 DEF LoopInv

\* A step that moves no worker and starts nothing.
LEMMA NoWorkerMoves ==
    ASSUME TypeOK, TypeOK', LoopInv, RowStep,
           UNCHANGED <<pc, job, delivery, starts, resolved>>
    PROVE  LoopInv'
<1>1. \A v \in Worker : LoopOK(v)'
  <2> SUFFICES ASSUME NEW v \in Worker PROVE LoopOK(v)'
    OBVIOUS
  <2> QED
    BY LoopFrame DEF LoopInv, LoopOK
<1>2. DeliveriesDistinct'
  BY DEF LoopInv, DeliveriesDistinct
<1>3. StartsOK'
  <2>1. \A j \in Job : Pending(j)' \subseteq Pending(j)
    BY DEF Pending
  <2> QED
    BY <2>1, StartsKept DEF LoopInv
<1> QED
  BY <1>1, <1>2, <1>3 DEF LoopInv

\* A claim's number is one above every number held before it; the claim is one
\* more, and if its number is within the cap so is one more pending delivery.
LEMMA LoopClaim ==
    ASSUME TypeOK, TypeOK', LoopInv, RowStep, NEW w \in Worker, Claim(w)
    PROVE  LoopInv'
<1> USE DEF TypeOK
<1>1. PICK j \in Job : /\ Claimable(j) /\ TakeRow(j)
                       /\ job' = [job EXCEPT ![w] = j]
                       /\ delivery' = [delivery EXCEPT ![w] = attempts[j] + 1]
  BY DEF Claim
<1>2. /\ pc[w] = "idle" /\ pc' = [pc EXCEPT ![w] = "claimed"]
      /\ UNCHANGED <<starts, resolved>>
  BY DEF Claim, history
<1>3. attempts' = [attempts EXCEPT ![j] = @ + 1] /\ status'[j] = "processing"
  BY <1>1 DEF TakeRow
<1>4. LoopOK(w)'
  BY <1>1, <1>2, <1>3 DEF LoopOK
<1>5. \A v \in Worker \ {w} : LoopOK(v)'
  <2> SUFFICES ASSUME NEW v \in Worker, v # w PROVE LoopOK(v)'
    OBVIOUS
  <2>1. LoopOK(v) /\ UNCHANGED <<pc[v], job[v], delivery[v]>>
    BY <1>1, <1>2 DEF LoopInv
  <2> QED
    BY <1>2, <2>1, LoopFrame
<1>6. DeliveriesDistinct'
  <2>1. \A v \in Worker : job[v] = j => delivery[v] <= attempts[j]
    BY QueueAssumption DEF LoopInv, LoopOK
  <2> QED
    BY <1>1, <2>1 DEF LoopInv, DeliveriesDistinct
<1>7. StartsOK'
  <2>1. CASE attempts[j] + 1 > MaxAttempts
    <3>1. \A i \in Job : Pending(i)' \subseteq Pending(i)
      BY <1>1, <1>2, <2>1, QueueAssumption DEF Pending
    <3> QED
      BY <1>2, <3>1, StartsKept DEF LoopInv
  <2>2. CASE attempts[j] + 1 <= MaxAttempts
    <3> SUFFICES ASSUME NEW i \in Job
                 PROVE  /\ IsFiniteSet(Pending(i)')
                        /\ starts'[i] + Cardinality(Pending(i)') <= attempts'[i]
                        /\ starts'[i] + Cardinality(Pending(i)') <= MaxAttempts
      BY DEF StartsOK
    <3> DEFINE before == Pending(i)  after == Pending(i)'
    <3>1. /\ IsFiniteSet(before)
          /\ starts[i] + Cardinality(before) <= attempts[i]
          /\ starts[i] + Cardinality(before) <= MaxAttempts
      BY DEF LoopInv, StartsOK
    <3>2. i # j => after \subseteq before
      BY <1>1, <1>2 DEF Pending
    <3>3. i = j => after \subseteq before \cup {w}
      BY <1>1, <1>2 DEF Pending
    <3> HIDE DEF before, after
    <3>. DEFINE more == before \cup {w}
    <3>a. IsFiniteSet(before)
      BY <3>1
    <3>b. /\ IsFiniteSet(more)
          /\ Cardinality(more) =
               IF w \in before THEN Cardinality(before) ELSE Cardinality(before) + 1
      BY <3>a, FS_AddElement
    <3>. HIDE DEF more
    <3>c. Cardinality(before) \in Nat /\ Cardinality(more) \in Nat
      BY <3>a, <3>b, FS_CardinalityType
    <3>d. Cardinality(more) <= Cardinality(before) + 1
      BY <3>b, <3>c
    <3>4. /\ IsFiniteSet(before \cup {w}) /\ Cardinality(before) \in Nat
          /\ Cardinality(before \cup {w}) \in Nat
          /\ Cardinality(before \cup {w}) <= Cardinality(before) + 1
      BY <3>b, <3>c, <3>d DEF more
    <3>5. CASE i # j
      <4>1. /\ IsFiniteSet(after) /\ Cardinality(after) <= Cardinality(before)
            /\ Cardinality(after) \in Nat
        BY <3>1, <3>2, <3>5, FS_Subset, FS_CardinalityType
      <4>2. starts'[i] + Cardinality(after) <= attempts'[i]
        BY <1>2, <1>3, <3>1, <3>4, <3>5, <4>1
      <4>3. starts'[i] + Cardinality(after) <= MaxAttempts
        BY <1>2, <3>1, <3>4, <4>1, QueueAssumption
      <4> QED
        BY <4>1, <4>2, <4>3 DEF after
    <3>6. CASE i = j
      <4>1. /\ IsFiniteSet(after) /\ Cardinality(after) <= Cardinality(before) + 1
            /\ Cardinality(after) \in Nat
        BY <3>3, <3>4, <3>6, FS_Subset, FS_CardinalityType
      <4>2. starts'[i] + Cardinality(after) <= attempts'[i]
        BY <1>2, <1>3, <3>1, <3>4, <3>6, <4>1
      <4>3. attempts'[i] <= MaxAttempts
        BY <1>3, <2>2, <3>6
      <4> QED
        BY <1>2, <4>1, <4>2, <4>3, QueueAssumption DEF after
    <3> QED
      BY <3>5, <3>6
  <2> QED
    BY <2>1, <2>2, QueueAssumption
<1> QED
  BY <1>4, <1>5, <1>6, <1>7 DEF LoopInv

\* Starting a delivery turns a pending one into a start.
LEMMA LoopStart ==
    ASSUME TypeOK, TypeOK', LoopInv, RowStep, NEW w \in Worker, StartHandler(w)
    PROVE  LoopInv'
<1> USE DEF TypeOK
<1>1. /\ pc[w] = "claimed" /\ delivery[w] <= MaxAttempts
      /\ pc' = [pc EXCEPT ![w] = "handling"]
      /\ starts' = [starts EXCEPT ![job[w]] = @ + 1]
      /\ UNCHANGED <<status, attempts, job, delivery, resolved>>
  BY DEF StartHandler, Goto, row
<1>2. job[w] \in Job /\ delivery[w] \in 1 .. attempts[job[w]]
  BY <1>1 DEF LoopInv, LoopOK
<1>3. LoopOK(w)'
  BY <1>1, <1>2 DEF LoopInv, LoopOK
<1>4. \A v \in Worker \ {w} : LoopOK(v)'
  <2> SUFFICES ASSUME NEW v \in Worker, v # w PROVE LoopOK(v)'
    OBVIOUS
  <2>1. LoopOK(v) /\ UNCHANGED <<pc[v], job[v], delivery[v]>>
    BY <1>1 DEF LoopInv
  <2> QED
    BY <1>1, <2>1, LoopFrame
<1>5. DeliveriesDistinct'
  BY <1>1 DEF LoopInv, DeliveriesDistinct
<1>6. StartsOK'
  <2> SUFFICES ASSUME NEW i \in Job
               PROVE  /\ IsFiniteSet(Pending(i)')
                      /\ starts'[i] + Cardinality(Pending(i)') <= attempts'[i]
                      /\ starts'[i] + Cardinality(Pending(i)') <= MaxAttempts
    BY DEF StartsOK
  <2> DEFINE before == Pending(i)  after == Pending(i)'
  <2>1. /\ IsFiniteSet(before)
        /\ starts[i] + Cardinality(before) <= attempts[i]
        /\ starts[i] + Cardinality(before) <= MaxAttempts
    BY DEF LoopInv, StartsOK
  <2>2. after = before \ {w}
    BY <1>1 DEF Pending
  <2>3. i = job[w] => w \in before
    BY <1>1 DEF Pending
  <2> HIDE DEF before, after
  <2>4. /\ IsFiniteSet(after) /\ Cardinality(before) \in Nat /\ Cardinality(after) \in Nat
        /\ Cardinality(after) = IF w \in before THEN Cardinality(before) - 1
                                ELSE Cardinality(before)
    BY <2>1, <2>2, FS_RemoveElement, FS_CardinalityType
  <2>5. starts'[i] + Cardinality(after) <= starts[i] + Cardinality(before)
    BY <1>1, <2>3, <2>4
  <2>6. attempts'[i] = attempts[i] /\ starts'[i] \in Nat
    BY <1>1
  <2> QED
    BY <2>1, <2>4, <2>5, <2>6, QueueAssumption DEF after
<1> QED
  BY <1>3, <1>4, <1>5, <1>6 DEF LoopInv

LEMMA LoopNext ==
    ASSUME TypeOK, TypeOK', LoopInv, [Next]_vars
    PROVE  LoopInv'
<1>1. RowStep /\ resolved \subseteq resolved'
  BY RowSteps, ResolvedGrows
<1>2. ASSUME NEW p \in Producer, Enqueue(p) PROVE LoopInv'
  <2>1. UNCHANGED <<pc, job, delivery, starts, resolved>>
    BY <1>2 DEF Enqueue, EnqueueFinds, EnqueueMisses, Insert, InsertViolates,
                Refind, InsertFails, loop, history
  <2> QED
    BY <1>1, <2>1, NoWorkerMoves
<1>3. ASSUME NEW j \in Job, TimePasses(j) PROVE LoopInv'
  <2>1. UNCHANGED <<pc, job, delivery, starts, resolved>>
    BY <1>3 DEF TimePasses, loop, history
  <2> QED
    BY <1>1, <2>1, NoWorkerMoves
<1>4. ASSUME NEW w \in Worker, ClaimFails(w) PROVE LoopInv'
  <2>1. UNCHANGED <<pc, job, delivery, starts, resolved>>
    BY <1>4 DEF ClaimFails, loop, history
  <2> QED
    BY <1>1, <2>1, NoWorkerMoves
<1>5. CASE UNCHANGED vars
  <2>1. UNCHANGED <<pc, job, delivery, starts, resolved>>
    BY <1>5 DEF vars, loop, history
  <2> QED
    BY <1>1, <2>1, NoWorkerMoves
<1>6. ASSUME NEW w \in Worker, Claim(w) PROVE LoopInv'
  BY <1>1, <1>6, LoopClaim
<1>7. ASSUME NEW w \in Worker, StartHandler(w) PROVE LoopInv'
  BY <1>1, <1>7, LoopStart
<1>8. ASSUME NEW w \in Worker,
             \/ Poison(w) \/ HandlerResolves(w) \/ HandlerThrows(w)
             \/ AckFails(w) \/ Bury(w)
      PROVE  LoopInv'
  <2>1. /\ UNCHANGED <<job, delivery, starts>>
        /\ pc[w] \in {"claimed", "handling", "acking", "burying"}
        /\ \E phase \in {"acking", "retrying", "burying", "announcing"} :
              /\ pc' = [pc EXCEPT ![w] = phase]
              /\ phase = "acking" => job[w] \in resolved'
              /\ phase = "burying" => delivery[w] >= MaxAttempts
    BY <1>8, QueueAssumption
       DEF Poison, HandlerResolves, HandlerThrows, AckFails, Bury, Goto,
           AfterFailure, history, TypeOK
  <2>2. /\ job[w] \in Job /\ status[job[w]] # "fresh"
        /\ delivery[w] \in 1 .. attempts[job[w]]
    BY <2>1 DEF LoopInv, LoopOK
  <2>3. LoopOK(w)'
    BY <1>1, <2>1, <2>2, RowsMonotone DEF LoopOK, TypeOK
  <2>4. \A v \in Worker \ {w} : UNCHANGED <<pc[v], job[v], delivery[v]>>
    BY <2>1 DEF TypeOK
  <2>5. pc'[w] # "claimed"
    BY <2>1 DEF TypeOK
  <2> QED
    BY <1>1, <2>1, <2>3, <2>4, <2>5, OneWorkerMoves
<1>9. ASSUME NEW w \in Worker,
             \/ RejectRow(w) \/ Ack(w) \/ Retry(w) \/ Announce(w)
             \/ RetryFails(w) \/ BuryFails(w) \/ Crash(w)
      PROVE  LoopInv'
  <2>1. Release(w) /\ UNCHANGED starts
    BY <1>9 DEF RejectRow, Ack, Retry, Announce, RetryFails, BuryFails, Crash, history
  <2>2. LoopOK(w)'
    BY <2>1 DEF Release, LoopOK, TypeOK
  <2>3. \A v \in Worker \ {w} : UNCHANGED <<pc[v], job[v], delivery[v]>>
    BY <2>1 DEF Release, TypeOK
  <2>4. job'[w] = NoJob /\ pc'[w] # "claimed"
    BY <2>1 DEF Release, TypeOK
  <2> QED
    BY <1>1, <2>1, <2>2, <2>3, <2>4, OneWorkerMoves
<1> QED
  BY <1>2, <1>3, <1>4, <1>5, <1>6, <1>7, <1>8, <1>9 DEF Next, Work, Fault, Poll

LEMMA IInvInit == Init => IInv
<1> SUFFICES ASSUME Init PROVE IInv
  OBVIOUS
<1>1. LoopInv
  <2>1. \A j \in Job : Pending(j) = {}
    BY DEF Init, Pending
  <2>2. StartsOK
    BY <2>1, FS_EmptySet, QueueAssumption DEF Init, StartsOK
  <2> QED
    BY <2>2 DEF Init, LoopInv, LoopOK, DeliveriesDistinct
<1>2. RowInv
  BY DEF Init, RowInv, ActiveKeysUnique, Active, DeletedOnlyAfterHandler,
         DeadOnlyWhenExhausted
<1> QED
  BY <1>1, <1>2, TypeInit DEF IInv

LEMMA IInvNext == IInv /\ [Next]_vars => IInv'
<1> SUFFICES ASSUME IInv, [Next]_vars PROVE IInv'
  OBVIOUS
<1>1. TypeOK'
  BY TypeNext, LoopHolding DEF IInv
<1>2. LoopInv' /\ RowInv'
  BY <1>1, LoopNext, RowInvNext DEF IInv
<1> QED
  BY <1>1, <1>2 DEF IInv

LEMMA IInvAlways == Spec => []IInv
  BY IInvInit, IInvNext, PTL DEF Spec

-----------------------------------------------------------------------------
(* What follows from it, whether or not leases outlive deliveries.         *)

\* However producers race and whatever a late retry tries to revive, two
\* active rows never share a dedupe key.
THEOREM KeysStayUnique == Spec => []ActiveKeysUnique
<1>1. IInv => ActiveKeysUnique
  BY DEF IInv, RowInv
<1> QED
  BY <1>1, IInvAlways, PTL

\* At-least-once delivery: a deleted job had a handler that resolved.
THEOREM AtLeastOnce == Spec => []DeletedOnlyAfterHandler
<1>1. IInv => DeletedOnlyAfterHandler
  BY DEF IInv, RowInv
<1> QED
  BY <1>1, IInvAlways, PTL

\* A dead-lettered job used its whole budget of deliveries.
THEOREM DeadIsExhausted == Spec => []DeadOnlyWhenExhausted
<1>1. IInv => DeadOnlyWhenExhausted
  BY DEF IInv, RowInv
<1> QED
  BY <1>1, IInvAlways, PTL

\* Two workers never hold the same delivery of a job.
THEOREM DeliveriesStayDistinct == Spec => []DeliveriesDistinct
<1>1. IInv => DeliveriesDistinct
  BY DEF IInv, LoopInv
<1> QED
  BY <1>1, IInvAlways, PTL

\* The poison bound: crashes, lost answers and overlapping deliveries included,
\* the handler of a job is started at most MaxAttempts times (consumer.ts:128-137).
THEOREM PoisonBounded == Spec => []HandlerRunsBounded
<1>1. IInv => HandlerRunsBounded
  <2> SUFFICES ASSUME IInv, NEW j \in Job PROVE starts[j] <= MaxAttempts
    BY DEF HandlerRunsBounded
  <2> DEFINE n == Cardinality(Pending(j))
  <2>1. n \in Nat /\ starts[j] + n <= MaxAttempts
    BY FS_CardinalityType DEF IInv, LoopInv, StartsOK
  <2>2. starts[j] \in Nat
    BY DEF IInv, TypeOK
  <2> HIDE DEF n
  <2> QED
    BY <2>1, <2>2, QueueAssumption
<1> QED
  BY <1>1, IInvAlways, PTL

-----------------------------------------------------------------------------
(* Dead letters nobody was told of. *)

\* Nothing becomes silent without a fault, and one fault silences one job.
LEMMA SilentStep ==
    ASSUME TypeOK, Holding, [Next]_vars
    PROVE  \/ Silent' \subseteq Silent /\ crashes + errors <= crashes' + errors'
           \/ /\ \E j \in Job : Silent' \subseteq Silent \cup {j}
              /\ crashes' + errors' = crashes + errors + 1
<1> DEFINE Calm == Silent' \subseteq Silent /\ crashes + errors <= crashes' + errors'
           Told == \E j \in Job : Silent' \subseteq Silent \cup {j}
           Counted == crashes' + errors' = crashes + errors + 1
<1> SUFFICES Calm \/ (Told /\ Counted)
  OBVIOUS
<1> USE DEF TypeOK, Silent, row, loop, caller, history, faults
\* A step that buries no row and leaves no announcement silences nobody.
<1>1. ASSUME announced \subseteq announced',
             \A j \in Job : status'[j] = "dead" => status[j] = "dead",
             \A w \in Worker : pc[w] = "announcing" => pc'[w] = "announcing" /\ job'[w] = job[w],
             crashes + errors <= crashes' + errors'
      PROVE  Calm
  BY <1>1
<1>2. ASSUME NEW p \in Producer, Enqueue(p) PROVE Calm
  <2>1. \A j \in Job : status'[j] = "dead" => status[j] = "dead"
    BY <1>2 DEF Enqueue, EnqueueFinds, EnqueueMisses, Insert, InsertViolates, Refind,
                InsertFails, InsertRow
  <2>2. UNCHANGED <<loop, history>> /\ crashes + errors <= crashes' + errors'
    BY <1>2 DEF Enqueue, EnqueueFinds, EnqueueMisses, Insert, InsertViolates, Refind, InsertFails
  <2> QED
    BY <1>1, <2>1, <2>2
<1>3. ASSUME NEW w \in Worker, Poll(w) PROVE Calm
  BY <1>1, <1>3 DEF Poll, vars
<1>4. ASSUME NEW w \in Worker, Claim(w) \/ ClaimFails(w) PROVE Calm
  <2>1. \A j \in Job : status'[j] = "dead" => status[j] = "dead"
    BY <1>4 DEF Claim, ClaimFails, TakeRow
  <2>2. \A v \in Worker : pc[v] = "announcing" => pc'[v] = "announcing" /\ job'[v] = job[v]
    BY <1>4 DEF Claim, ClaimFails
  <2>3. announced' = announced /\ crashes + errors <= crashes' + errors'
    BY <1>4 DEF Claim, ClaimFails
  <2> QED
    BY <1>1, <2>1, <2>2, <2>3
<1>5. ASSUME NEW w \in Worker,
             \/ RejectRow(w) \/ Poison(w) \/ StartHandler(w) \/ HandlerResolves(w)
             \/ HandlerThrows(w) \/ Ack(w) \/ AckFails(w) \/ Retry(w) \/ RetryFails(w)
      PROVE  Calm
  <2>1. \A j \in Job : status'[j] = "dead" => status[j] = "dead"
    BY <1>5 DEF RejectRow, Poison, StartHandler, HandlerResolves, HandlerThrows, Ack, AckFails,
                Retry, RetryFails, DeleteRow, ReadyRow
  <2>2. \A v \in Worker : pc[v] = "announcing" => pc'[v] = "announcing" /\ job'[v] = job[v]
    BY <1>5 DEF RejectRow, Poison, StartHandler, HandlerResolves, HandlerThrows, Ack, AckFails,
                Retry, RetryFails, Goto, Release
  <2>3. announced' = announced /\ crashes + errors <= crashes' + errors'
    BY <1>5 DEF RejectRow, Poison, StartHandler, HandlerResolves, HandlerThrows, Ack, AckFails,
                Retry, RetryFails
  <2> QED
    BY <1>1, <2>1, <2>2, <2>3
\* The row is buried and its worker is about to announce it.
<1>6. ASSUME NEW w \in Worker, Bury(w) PROVE Calm
  <2>1. \A j \in Job \ {job[w]} : status'[j] = "dead" => status[j] = "dead"
    BY <1>6 DEF Bury, BuryRow
  <2>2. /\ pc'[w] = "announcing" /\ job' = job
        /\ \A v \in Worker : pc[v] = "announcing" => pc'[v] = "announcing"
    BY <1>6 DEF Bury, Goto
  <2>3. UNCHANGED <<history, faults>>
    BY <1>6 DEF Bury
  <2> QED
    BY <2>1, <2>2, <2>3
<1>7. ASSUME NEW w \in Worker, Announce(w) PROVE Calm
  <2>1. status' = status /\ announced' = announced \cup {job[w]} /\ UNCHANGED faults
    BY <1>7 DEF Announce
  <2>2. \A v \in Worker \ {w} : pc'[v] = pc[v] /\ job'[v] = job[v]
    BY <1>7 DEF Announce, Release
  <2> QED
    BY <2>1, <2>2
<1>8. ASSUME NEW w \in Worker, BuryFails(w) PROVE Told /\ Counted
  <2>1. job[w] \in Job
    BY <1>8 DEF BuryFails, Holding
  <2>2. \A j \in Job \ {job[w]} : status'[j] = "dead" => status[j] = "dead"
    BY <1>8 DEF BuryFails, BuryRow
  <2>3. \A v \in Worker : pc[v] = "announcing" => pc'[v] = "announcing" /\ job'[v] = job[v]
    BY <1>8 DEF BuryFails, Release
  <2>4. announced' = announced /\ Counted
    BY <1>8 DEF BuryFails
  <2> QED
    BY <2>1, <2>2, <2>3, <2>4
<1>9. ASSUME NEW w \in Worker, Crash(w) PROVE Told /\ Counted
  <2>1. job[w] \in Job
    BY <1>9 DEF Crash, Holding
  <2>2. \A v \in Worker \ {w} : pc'[v] = pc[v] /\ job'[v] = job[v]
    BY <1>9 DEF Crash, Release
  <2>3. UNCHANGED <<row, history>> /\ Counted
    BY <1>9 DEF Crash
  <2> QED
    BY <2>1, <2>2, <2>3
<1>10. ASSUME NEW j \in Job, TimePasses(j) PROVE Calm
  BY <1>1, <1>10 DEF TimePasses
<1>11. CASE UNCHANGED vars
  BY <1>1, <1>11 DEF vars
<1> QED
  BY <1>2, <1>3, <1>4, <1>5, <1>6, <1>7, <1>8, <1>9, <1>10, <1>11 DEF Next, Work, Fault

\* The price of silence: never more jobs are dead in silence than there were
\* crashes and lost answers, however deliveries overlap (consumer.ts:103-106).
THEOREM FaultsPayForSilence == Spec => []FaultsSilenceOneEach
<1> DEFINE Paid == IsFiniteSet(Silent) /\ FaultsSilenceOneEach
<1>1. Init => Paid
  <2> SUFFICES ASSUME Init PROVE Paid
    OBVIOUS
  <2>1. Silent = {}
    BY DEF Init, Silent
  <2> QED
    BY <2>1, FS_EmptySet DEF Init, FaultsSilenceOneEach
<1>2. IInv /\ IInv' /\ Paid /\ [Next]_vars => Paid'
  <2> SUFFICES ASSUME IInv, IInv', Paid, [Next]_vars PROVE Paid'
    OBVIOUS
  <2>1. Cardinality(Silent) <= crashes + errors /\ crashes + errors \in Nat
    BY DEF FaultsSilenceOneEach, IInv, TypeOK
  <2>2. crashes' + errors' \in Nat
    <3>1. crashes' \in Nat /\ errors' \in Nat
      BY DEF IInv, TypeOK
    <3>2. \A m, n \in Nat : m + n \in Nat
      OBVIOUS
    <3> QED
      BY <3>1, <3>2
  <2>3. CASE Silent' \subseteq Silent /\ crashes + errors <= crashes' + errors'
    <3>1. IsFiniteSet(Silent') /\ Cardinality(Silent') <= Cardinality(Silent)
      BY <2>3, FS_Subset
    <3>2. Cardinality(Silent) \in Nat /\ Cardinality(Silent') \in Nat
      BY <3>1, FS_CardinalityType
    <3> QED
      BY <2>1, <2>2, <2>3, <3>1, <3>2 DEF FaultsSilenceOneEach
  <2>4. ASSUME NEW j \in Job, Silent' \subseteq Silent \cup {j},
               crashes' + errors' = crashes + errors + 1
        PROVE  Paid'
    <3>1. /\ IsFiniteSet(Silent \cup {j})
          /\ Cardinality(Silent \cup {j}) =
               IF j \in Silent THEN Cardinality(Silent) ELSE Cardinality(Silent) + 1
      BY FS_AddElement
    <3>2. IsFiniteSet(Silent') /\ Cardinality(Silent') <= Cardinality(Silent \cup {j})
      BY <2>4, <3>1, FS_Subset
    <3>3. Cardinality(Silent) \in Nat /\ Cardinality(Silent') \in Nat
      BY <3>2, FS_CardinalityType
    <3> QED
      BY <2>1, <2>2, <2>4, <3>1, <3>2, <3>3 DEF FaultsSilenceOneEach
  <2> QED
    BY <2>3, <2>4, SilentStep, LoopHolding DEF IInv
<1>3. Paid => FaultsSilenceOneEach
  OBVIOUS
<1> HIDE DEF Paid
<1> QED
  BY <1>1, <1>2, <1>3, IInvAlways, PTL DEF Spec

-----------------------------------------------------------------------------
(* What holds only while leases outlive deliveries: a held row is           *)
(* processing under a lease that has not run out (or already settled), so   *)
(* no second worker can claim it and no late statement can hit it.          *)

Owned(w) ==
    /\ pc[w] \in {"claimed", "handling", "acking"}
          => status[job[w]] = "processing" /\ job[w] \notin ripe
    /\ pc[w] \in {"retrying", "burying"}
          => \/ status[job[w]] = "processing" /\ job[w] \notin ripe
             \/ status[job[w]] = "gone"
    /\ pc[w] = "announcing" => status[job[w]] \in {"dead", "gone"}

ExInv == ExclusiveDelivery /\ \A w \in Worker : Owned(w)

LEMMA ExInit == Init => ExInv
  BY DEF Init, ExInv, ExclusiveDelivery, Owned

\* A held row is not claimable.
LEMMA HeldNotClaimable ==
    ASSUME LoopInv, ExInv, TypeOK, NEW w \in Worker, NEW j \in Job, job[w] = j
    PROVE  ~Claimable(j) /\ pc[w] # "idle" /\ status[j] # "fresh" /\ status[j] # "ready"
<1>1. pc[w] # "idle"
  BY QueueAssumption DEF LoopInv, LoopOK
<1> QED
  BY <1>1 DEF ExInv, Owned, LoopInv, LoopOK, TypeOK, Phase, Claimable, Active

\* A worker that does not move keeps what it owns if its row is left alone.
LEMMA OwnedFrame ==
    ASSUME NEW w \in Worker, Owned(w), UNCHANGED <<pc[w], job[w]>>,
           pc[w] # "idle" => UNCHANGED status[job[w]],
           pc[w] # "idle" => (job[w] \in ripe' => job[w] \in ripe)
    PROVE  Owned(w)'
  BY DEF Owned

\* A step in which one worker moves, or none, and no row another one holds
\* is touched.
OwnStep(w) ==
    /\ \A v \in Worker \ {w} : UNCHANGED <<pc[v], job[v]>>
    /\ job'[w] \in {job[w], NoJob}
    /\ \A i \in Job \ {job[w]} :
          /\ UNCHANGED status[i]
          /\ i \in ripe' => i \in ripe

LEMMA OwnStepKeeps ==
    ASSUME TypeOK, LoopInv, ExInv, NEW w \in Worker, OwnStep(w), Owned(w)'
    PROVE  ExInv'
<1>1. ExclusiveDelivery'
  BY DEF ExInv, ExclusiveDelivery, OwnStep
<1>2. ASSUME NEW v \in Worker, v # w PROVE Owned(v)'
  <2>1. pc[v] # "idle" => job[v] \in Job /\ job[v] # job[w]
    BY <1>2, QueueAssumption DEF LoopInv, LoopOK, ExInv, ExclusiveDelivery
  <2> QED
    BY <1>2, <2>1, OwnedFrame DEF ExInv, OwnStep
<1> QED
  BY <1>1, <1>2 DEF ExInv

LEMMA ExNext ==
    ASSUME LeaseOutlivesDelivery, TypeOK, LoopInv, ExInv, [Next]_vars
    PROVE  ExInv'
<1> USE DEF TypeOK
<1>1. ASSUME NEW w \in Worker, Work(w) \/ AckFails(w) \/ RetryFails(w) \/ BuryFails(w)
                               \/ Crash(w)
      PROVE  ExInv'
  <2>1. pc[w] # "idle"
    BY <1>1 DEF Work, RejectRow, Poison, StartHandler, HandlerResolves, HandlerThrows,
                Ack, Retry, Bury, Announce, AckFails, RetryFails, BuryFails, Crash
  <2>2. job[w] \in Job
    BY <2>1 DEF LoopInv, LoopOK
  <2>3. CASE \/ RejectRow(w) \/ Ack(w) \/ Retry(w) \/ Announce(w)
             \/ RetryFails(w) \/ BuryFails(w) \/ Crash(w)
    <3>1. Release(w)
      BY <2>3 DEF RejectRow, Ack, Retry, Announce, RetryFails, BuryFails, Crash
    <3>2. Owned(w)'
      BY <3>1 DEF Release, Owned
    <3>3. \A i \in Job \ {job[w]} : UNCHANGED status[i] /\ (i \in ripe' => i \in ripe)
      BY <2>2, <2>3 DEF RejectRow, Ack, Retry, Announce, RetryFails, BuryFails, Crash,
                        DeleteRow, ReadyRow, BuryRow, row
    <3>4. OwnStep(w)
      BY <3>1, <3>3 DEF Release, OwnStep
    <3> QED
      BY <3>2, <3>4, OwnStepKeeps
  <2>4. CASE \/ Poison(w) \/ StartHandler(w) \/ HandlerResolves(w) \/ HandlerThrows(w)
             \/ AckFails(w) \/ Bury(w)
    <3>1. UNCHANGED job /\ \A v \in Worker \ {w} : UNCHANGED pc[v]
      BY <2>4 DEF Poison, StartHandler, HandlerResolves, HandlerThrows, AckFails, Bury,
                  Goto
    <3>2. \A i \in Job \ {job[w]} : UNCHANGED status[i] /\ (i \in ripe' => i \in ripe)
      BY <2>2, <2>4 DEF Poison, StartHandler, HandlerResolves, HandlerThrows, AckFails,
                        Bury, DeleteRow, BuryRow, row
    <3>3. OwnStep(w)
      BY <3>1, <3>2 DEF OwnStep
    <3>4. Owned(w)'
      <4>1. CASE Poison(w) \/ StartHandler(w) \/ HandlerResolves(w) \/ HandlerThrows(w)
        BY <4>1 DEF Poison, StartHandler, HandlerResolves, HandlerThrows, Goto,
                    AfterFailure, row, ExInv, Owned
      <4>2. CASE AckFails(w)
        BY <2>2, <4>2 DEF AckFails, Goto, AfterFailure, DeleteRow, row, ExInv, Owned
      <4>3. CASE Bury(w)
        BY <2>2, <4>3 DEF Bury, Goto, BuryRow, ExInv, Owned
      <4> QED
        BY <2>4, <4>1, <4>2, <4>3
    <3> QED
      BY <3>3, <3>4, OwnStepKeeps
  <2> QED
    BY <1>1, <2>3, <2>4 DEF Work
<1>2. ASSUME NEW w \in Worker, Claim(w) PROVE ExInv'
  <2>1. PICK j \in Job : Claimable(j) /\ TakeRow(j) /\ job' = [job EXCEPT ![w] = j]
    BY <1>2 DEF Claim
  <2>2. pc[w] = "idle" /\ pc' = [pc EXCEPT ![w] = "claimed"]
    BY <1>2 DEF Claim
  <2>3. \A v \in Worker : job[v] # j
    BY <2>1, HeldNotClaimable
  <2>4. ExclusiveDelivery'
    BY <2>1, <2>3 DEF ExInv, ExclusiveDelivery
  <2>5. Owned(w)'
    BY <2>1, <2>2 DEF TakeRow, Owned
  <2>6. ASSUME NEW v \in Worker, v # w PROVE Owned(v)'
    <3>1. pc[v] # "idle" => job[v] \in Job /\ job[v] # j
      BY <2>3 DEF LoopInv, LoopOK
    <3> QED
      BY <2>1, <2>2, <2>6, <3>1, OwnedFrame DEF ExInv, TakeRow
  <2> QED
    BY <2>4, <2>5, <2>6 DEF ExInv
<1>3. ASSUME NEW j \in Job, UNCHANGED <<pc, job>>, \A v \in Worker : job[v] # j,
             \A i \in Job \ {j} : UNCHANGED status[i] /\ (i \in ripe' => i \in ripe)
      PROVE  ExInv'
  <2>1. ASSUME NEW v \in Worker PROVE Owned(v)'
    <3>1. pc[v] # "idle" => job[v] \in Job /\ job[v] # j
      BY <1>3 DEF LoopInv, LoopOK
    <3> QED
      BY <1>3, <3>1, OwnedFrame DEF ExInv
  <2> QED
    BY <1>3, <2>1 DEF ExInv, ExclusiveDelivery
<1>4. ASSUME NEW w \in Worker, ClaimFails(w) PROVE ExInv'
  <2>1. PICK j \in Job : Claimable(j) /\ TakeRow(j)
    BY <1>4 DEF ClaimFails
  <2>2. UNCHANGED <<pc, job>>
    BY <1>4 DEF ClaimFails, loop
  <2> QED
    BY <1>3, <2>1, <2>2, HeldNotClaimable DEF TakeRow
<1>5. ASSUME NEW j \in Job, TimePasses(j) PROVE ExInv'
  <2>1. \A v \in Worker : job[v] # j
    BY <1>5, HeldNotClaimable, LeaseOutlivesDelivery DEF TimePasses, Active
  <2>2. UNCHANGED <<pc, job>>
    BY <1>5 DEF TimePasses, loop
  <2> QED
    BY <1>3, <1>5, <2>1, <2>2 DEF TimePasses
<1>6. CASE UNCHANGED <<pc, job, status, ripe>>
  BY <1>6 DEF ExInv, ExclusiveDelivery, Owned
<1>7. ASSUME NEW p \in Producer, Enqueue(p) PROVE ExInv'
  <2>1. UNCHANGED <<pc, job>>
    BY <1>7 DEF Enqueue, EnqueueFinds, EnqueueMisses, Insert, InsertViolates, Refind,
                InsertFails, loop
  <2>2. \/ UNCHANGED <<status, ripe>>
        \/ \E j \in Job : status[j] = "fresh" /\ InsertRow(j, want[p])
    BY <1>7 DEF Enqueue, EnqueueFinds, EnqueueMisses, Insert, InsertViolates, Refind,
                InsertFails, row
  <2>3. ASSUME NEW j \in Job, status[j] = "fresh", InsertRow(j, want[p]) PROVE ExInv'
    <3>1. \A v \in Worker : job[v] # j
      BY <2>3, HeldNotClaimable
    <3> QED
      BY <1>3, <2>1, <2>3, <3>1 DEF InsertRow
  <2> QED
    BY <1>6, <2>1, <2>2, <2>3
<1> QED
  BY <1>1, <1>2, <1>4, <1>5, <1>6, <1>7 DEF Next, Fault, Poll, vars, row, loop

LEMMA ExAlways == ASSUME LeaseOutlivesDelivery PROVE Spec => [](IInv /\ ExInv)
<1>1. Init => IInv /\ ExInv
  BY IInvInit, ExInit
<1>2. IInv /\ ExInv /\ [Next]_vars => (IInv /\ ExInv)'
  BY IInvNext, ExNext, LeaseOutlivesDelivery DEF IInv
<1> QED
  BY <1>1, <1>2, PTL DEF Spec

\* While leases outlive deliveries, two workers never hold the same job.
THEOREM HoldersExclude ==
    ASSUME LeaseOutlivesDelivery PROVE Spec => []ExclusiveDelivery
<1>1. ExInv => ExclusiveDelivery
  BY DEF ExInv
<1> QED
  BY <1>1, ExAlways, PTL

\* What a worker's step does to the row it holds, and to no other.
LEMMA DeadRowsKept ==
    ASSUME IInv, ExInv, [Next]_vars, NEW j \in Job, status[j] = "dead"
    PROVE  status'[j] = "dead"
<1> USE DEF IInv, TypeOK
<1>1. \A w \in Worker : job[w] = j => pc[w] = "announcing"
  BY HeldNotClaimable DEF ExInv, Owned, Phase
<1>2. ASSUME NEW w \in Worker, Claim(w) \/ ClaimFails(w) PROVE status'[j] = "dead"
  BY <1>2 DEF Claim, ClaimFails, Claimable, Active, TakeRow
<1>3. ASSUME NEW w \in Worker, \/ Ack(w) \/ AckFails(w) \/ Retry(w) \/ RetryFails(w)
                               \/ Bury(w) \/ BuryFails(w)
      PROVE  status'[j] = "dead"
  <2>1. job[w] \in Job /\ job[w] # j
    BY <1>1, <1>3 DEF Ack, AckFails, Retry, RetryFails, Bury, BuryFails, LoopInv, LoopOK
  <2> QED
    BY <1>3, <2>1 DEF Ack, AckFails, Retry, RetryFails, Bury, BuryFails, DeleteRow,
                      ReadyRow, BuryRow, row
<1>4. ASSUME NEW p \in Producer, Enqueue(p) PROVE status'[j] = "dead"
  BY <1>4 DEF Enqueue, EnqueueFinds, EnqueueMisses, Insert, InsertViolates, Refind,
              InsertFails, InsertRow, row
<1>5. ASSUME NEW w \in Worker,
             \/ RejectRow(w) \/ Poison(w) \/ StartHandler(w) \/ HandlerResolves(w)
             \/ HandlerThrows(w) \/ Announce(w) \/ Crash(w)
      PROVE  status'[j] = "dead"
  BY <1>5 DEF RejectRow, Poison, StartHandler, HandlerResolves, HandlerThrows, Announce,
              Crash, row
<1>6. ASSUME NEW i \in Job, TimePasses(i) PROVE status'[j] = "dead"
  BY <1>6 DEF TimePasses
<1>7. CASE UNCHANGED vars
  BY <1>7 DEF vars, row
<1> QED
  BY <1>2, <1>3, <1>4, <1>5, <1>6, <1>7 DEF Next, Work, Fault, Poll

\* The audit row of a dead-lettered job is final while leases outlive
\* deliveries; without that a late settlement revives or deletes it.
THEOREM DeadStays == ASSUME LeaseOutlivesDelivery PROVE Spec => DeadIsFinal
<1>1. IInv /\ ExInv /\ [Next]_vars
        => [\A j \in Job : status[j] = "dead" => status'[j] = "dead"]_vars
  BY DeadRowsKept
<1> QED
  BY <1>1, ExAlways, PTL DEF Spec, DeadIsFinal

-----------------------------------------------------------------------------
(* The refinement of JobContract. *)

LEMMA StageOf ==
    ASSUME TypeOK
    PROVE  \A j \in Job :
              /\ status[j] = "fresh" <=> Stage[j] = "none"
              /\ Active(j) <=> Stage[j] = "queued"
              /\ status[j] = "dead" <=> Stage[j] = "dead"
              /\ status[j] = "gone" <=> Stage[j] = "done"
  BY DEF TypeOK, Status, Stage, Active

LEMMA ContractInit == Init => Contract!Init
  BY DEF Init, Contract!Init, Stage, Active

\* A step that leaves every row's stage alone is a stutter of the contract.
LEMMA SameStage ==
    ASSUME \A j \in Job : status'[j] = status[j] \/ (Active(j) /\ Active(j)'),
           TypeOK, TypeOK'
    PROVE  UNCHANGED Stage
<1> SUFFICES ASSUME NEW j \in Job PROVE Stage'[j] = Stage[j]
  BY DEF Stage
<1> QED
  BY DEF Stage, Active, TypeOK, Status

LEMMA StageSet ==
    ASSUME TypeOK, NEW j \in Job, NEW s \in Status, status' = [status EXCEPT ![j] = s]
    PROVE  Stage' = [Stage EXCEPT ![j] = CASE s = "fresh" -> "none"
                                           [] s \in {"ready", "processing"} -> "queued"
                                           [] s = "dead" -> "dead"
                                           [] s = "gone" -> "done"]
  BY DEF TypeOK, Status, Stage, Active

LEMMA ContractAccept ==
    ASSUME TypeOK, NEW j \in Job, NEW k \in Key \cup {NoKey}, status[j] = "fresh",
           ~KeyTaken(k), InsertRow(j, k), UNCHANGED resolved
    PROVE  Contract!Next
<1>1. Contract!Accept(j, k)
  <2>1. Stage' = [Stage EXCEPT ![j] = "queued"]
    BY StageSet DEF InsertRow, Status
  <2>2. Stage[j] = "none" /\ (k # NoKey => ~ \E i \in Job : Stage[i] = "queued" /\ key[i] = k)
    BY StageOf DEF KeyTaken
  <2> QED
    BY <2>1, <2>2 DEF Contract!Accept, InsertRow
<1> QED
  BY <1>1 DEF Contract!Next

LEMMA ContractComplete ==
    ASSUME TypeOK, NEW j \in Job, Active(j), j \in resolved, DeleteRow(j),
           UNCHANGED resolved
    PROVE  Contract!Next
<1>1. Stage' = [Stage EXCEPT ![j] = "done"]
  BY StageSet DEF DeleteRow, Status
<1>2. Contract!Complete(j)
  BY <1>1, StageOf DEF Contract!Complete, DeleteRow
<1> QED
  BY <1>2 DEF Contract!Next

LEMMA ContractGiveUp ==
    ASSUME TypeOK, NEW j \in Job, Active(j), BuryRow(j), UNCHANGED resolved
    PROVE  Contract!Next
<1>1. Stage' = [Stage EXCEPT ![j] = "dead"]
  BY StageSet DEF BuryRow, Status, Active
<1>2. Contract!GiveUp(j)
  BY <1>1, StageOf DEF Contract!GiveUp, BuryRow
<1> QED
  BY <1>2 DEF Contract!Next

\* No row changes stage, no job is worked.
Quiet ==
    /\ \A j \in Job : status'[j] = status[j] \/ (Active(j) /\ Active(j)')
    /\ UNCHANGED <<key, resolved>>

LEMMA QuietStutters ==
    ASSUME TypeOK, TypeOK', Quiet PROVE [Contract!Next]_(Contract!vars)
<1>1. UNCHANGED <<Stage, key, resolved>>
  BY SameStage DEF Quiet
<1> QED
  BY <1>1 DEF Contract!vars

LEMMA UntouchedQuiet == UNCHANGED <<row, resolved>> => Quiet
  BY DEF row, Quiet

LEMMA ContractNext ==
    ASSUME IInv, TypeOK', ExInv, [Next]_vars
    PROVE  [Contract!Next]_(Contract!vars)
<1> USE DEF IInv
<1>1. Quiet => [Contract!Next]_(Contract!vars)
  BY QuietStutters
<1>2. ASSUME NEW p \in Producer, Enqueue(p) PROVE [Contract!Next]_(Contract!vars)
  <2>1. CASE Insert(p) \/ InsertFails(p)
    <3>1. want[p] \in Key \cup {NoKey}
      BY DEF TypeOK
    <3>2. UNCHANGED resolved
      BY <2>1 DEF Insert, InsertFails, history
    <3>3. CASE UNCHANGED row
      BY <1>1, <3>2, <3>3, UntouchedQuiet
    <3> QED
      BY <2>1, <3>1, <3>2, <3>3, ContractAccept DEF Insert, InsertFails
  <2>2. CASE \/ \E k \in Key \cup {NoKey} : EnqueueFinds(p, k) \/ EnqueueMisses(p, k)
             \/ InsertViolates(p) \/ Refind(p)
    <3>1. UNCHANGED <<row, resolved>>
      BY <2>2 DEF EnqueueFinds, EnqueueMisses, InsertViolates, Refind, history
    <3> QED
      BY <1>1, <3>1, UntouchedQuiet
  <2> QED
    BY <1>2, <2>1, <2>2 DEF Enqueue
<1>3. ASSUME NEW w \in Worker, Claim(w) \/ ClaimFails(w)
      PROVE  [Contract!Next]_(Contract!vars)
  <2>1. Quiet
    BY <1>3 DEF Claim, ClaimFails, Claimable, Active, TakeRow, TypeOK, history, Quiet
  <2> QED
    BY <1>1, <2>1
<1>4. ASSUME NEW w \in Worker, Ack(w) \/ AckFails(w)
      PROVE  [Contract!Next]_(Contract!vars)
  <2>1. job[w] \in Job /\ Active(job[w]) /\ job[w] \in resolved
    BY <1>4 DEF Ack, AckFails, LoopInv, LoopOK, ExInv, Owned, Active
  <2>2. UNCHANGED resolved
    BY <1>4 DEF Ack, AckFails, history
  <2>3. CASE UNCHANGED row
    BY <1>1, <2>2, <2>3, UntouchedQuiet
  <2> QED
    BY <1>4, <2>1, <2>2, <2>3, ContractComplete DEF Ack, AckFails
<1>5. ASSUME NEW w \in Worker, Retry(w) \/ RetryFails(w)
      PROVE  [Contract!Next]_(Contract!vars)
  <2>1. /\ job[w] \in Job
        /\ status[job[w]] \in {"processing", "gone"}
    BY <1>5 DEF Retry, RetryFails, LoopInv, LoopOK, ExInv, Owned
  <2>2. UNCHANGED <<key, resolved>>
    BY <1>5 DEF Retry, RetryFails, ReadyRow, history, row
  <2>3. \A j \in Job : status'[j] = status[j] \/ (Active(j) /\ Active(j)')
    BY <1>5, <2>1 DEF Retry, RetryFails, ReadyRow, row, Active, TypeOK
  <2> QED
    BY <1>1, <2>2, <2>3 DEF Quiet
<1>6. ASSUME NEW w \in Worker, Bury(w) \/ BuryFails(w)
      PROVE  [Contract!Next]_(Contract!vars)
  <2>1. /\ job[w] \in Job
        /\ status[job[w]] \in {"processing", "gone"}
    BY <1>6 DEF Bury, BuryFails, LoopInv, LoopOK, ExInv, Owned
  <2>2. UNCHANGED <<key, resolved>>
    BY <1>6 DEF Bury, BuryFails, BuryRow, history, row
  <2>3. CASE status[job[w]] = "gone"
    <3>1. UNCHANGED status
      BY <1>6, <2>3 DEF Bury, BuryFails, BuryRow, row
    <3> QED
      BY <1>1, <2>2, <3>1 DEF Quiet
  <2>4. CASE status[job[w]] = "processing"
    <3>1. Active(job[w])
      BY <2>4 DEF Active
    <3>2. CASE UNCHANGED row
      BY <1>1, <2>2, <3>2, UntouchedQuiet
    <3> QED
      BY <1>6, <2>1, <2>2, <3>1, <3>2, ContractGiveUp DEF Bury, BuryFails
  <2> QED
    BY <2>1, <2>3, <2>4
<1>7. ASSUME NEW w \in Worker, HandlerResolves(w) PROVE Contract!Next
  <2>1. job[w] \in Job /\ Active(job[w])
    BY <1>7 DEF HandlerResolves, LoopInv, LoopOK, ExInv, Owned, Active
  <2>2. UNCHANGED <<status, key>> /\ resolved' = resolved \cup {job[w]}
    BY <1>7 DEF HandlerResolves, row
  <2>3. Contract!Perform(job[w])
    BY <2>1, <2>2, StageOf, SameStage DEF Contract!Perform
  <2> QED
    BY <2>1, <2>3 DEF Contract!Next
<1>8. ASSUME NEW w \in Worker,
             \/ RejectRow(w) \/ Poison(w) \/ StartHandler(w) \/ HandlerThrows(w)
             \/ Announce(w) \/ Crash(w)
      PROVE  [Contract!Next]_(Contract!vars)
  <2>1. UNCHANGED <<row, resolved>>
    BY <1>8 DEF RejectRow, Poison, StartHandler, HandlerThrows, Announce, Crash, history
  <2> QED
    BY <1>1, <2>1, UntouchedQuiet
<1>9. ASSUME NEW j \in Job, TimePasses(j) PROVE [Contract!Next]_(Contract!vars)
  BY <1>1, <1>9 DEF TimePasses, history, Quiet
<1>10. CASE UNCHANGED vars
  BY <1>1, <1>10 DEF vars, row, history, Quiet
<1> QED
  BY <1>2, <1>3, <1>4, <1>5, <1>6, <1>7, <1>8, <1>9, <1>10 DEF Next, Work, Fault, Poll

\* While leases outlive deliveries the queue implements its contract: a job is
\* forgotten only after it was worked, dead is final, live keys are unique.
THEOREM QueueKeepsContract ==
    ASSUME LeaseOutlivesDelivery PROVE Spec => KeepsContract
<1>1. Init => Contract!Init
  BY ContractInit
<1>2. IInv /\ ExInv /\ (IInv /\ ExInv)' /\ [Next]_vars => [Contract!Next]_(Contract!vars)
  BY ContractNext DEF IInv
<1> QED
  BY <1>1, <1>2, ExAlways, PTL DEF Spec, KeepsContract, Contract!Spec
=============================================================================
