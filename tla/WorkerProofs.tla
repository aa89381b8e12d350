---------------------------- MODULE WorkerProofs ----------------------------
(***************************************************************************)
(* Theorems about Worker, for every set of jobs, every retry policy and    *)
(* any number of failures.                                                 *)
(***************************************************************************)
EXTENDS Worker, TLAPS

LEMMA InitType == Init => TypeOK
<1> SUFFICES ASSUME Init PROVE TypeOK
  OBVIOUS
<1>1. status \in [Job -> {"ready", "processing", "done", "dead"}]
  BY DEF Init
<1>2. attempts \in [Job -> Nat]
  BY WorkerAssumption DEF Init
<1>3. loop \in [pc : Places, job : Job \cup {NoJob}]
  BY DEF Init, Places
<1> QED
  BY <1>1, <1>2, <1>3 DEF Init, TypeOK

\* The job in hand is a job where a statement about it is due.
InHand == loop.pc \in {"handling", "acking", "retrying", "burying"} => loop.job \in Job

LEMMA TypeStep == TypeOK /\ InHand /\ [Next]_vars => TypeOK' /\ InHand'
<1> SUFFICES ASSUME TypeOK, InHand, [Next]_vars
             PROVE  TypeOK' /\ InHand'
  OBVIOUS
<1> USE WorkerAssumption
<1> USE DEF TypeOK, Places, InHand, Process, Tracked, Answered, Rejected, At, Again, Loop, Alive
<1>1. CASE Turn
  BY <1>1 DEF Turn
<1>2. CASE ClaimNothing
  BY <1>2 DEF ClaimNothing
<1>3. CASE Settle
  BY <1>3 DEF Settle
<1>4. CASE SettleRejected
  BY <1>4 DEF SettleRejected
<1>5. CASE Announce
  BY <1>5 DEF Announce
<1>6. ASSUME NEW j \in Job, Claim(j) PROVE TypeOK' /\ InHand'
  <2>1. attempts' \in [Job -> Nat] /\ status' \in [Job -> {"ready", "processing", "done", "dead"}]
    BY <1>6 DEF Claim
  <2>2. CASE attempts'[j] > MaxAttempts
    BY <1>6, <2>1, <2>2 DEF Claim
  <2>3. CASE ~(attempts'[j] > MaxAttempts)
    <3>1. runs' = [all |-> runs.all + 1, late |-> runs.late + (IF stopped THEN 1 ELSE 0)]
      BY <1>6, <2>3 DEF Claim
    <3>2. runs' \in [all : Nat, late : Nat]
      BY <3>1
    <3>3. inFlight' \in [run : Nat, settled : BOOLEAN]
      <4>1. inFlight' = [run |-> runs.all + 1, settled |-> FALSE]
        BY <1>6, <2>3 DEF Claim
      <4> QED
        BY <4>1
    <3>4. loop' \in [pc : Places, job : Job \cup {NoJob}] /\ loop'.job \in Job
      BY <1>6, <2>3 DEF Claim
    <3> QED
      BY <1>6, <2>1, <3>2, <3>3, <3>4 DEF Claim
  <2> QED
    BY <2>2, <2>3
<1>7. ASSUME NEW ok \in BOOLEAN, Handled(ok) PROVE TypeOK' /\ InHand'
  BY <1>7 DEF Handled, Mirrors
<1>8. CASE Signal
  BY <1>8 DEF Signal
<1>9. CASE Drained
  BY <1>9 DEF Drained
<1>10. CASE Exit
  BY <1>10 DEF Exit
<1>11. ASSUME NEW c \in Connection, Close(c) PROVE TypeOK' /\ InHand'
  BY <1>11 DEF Close
<1>12. ASSUME NEW j \in Job, Reclaim(j) PROVE TypeOK' /\ InHand'
  BY <1>12 DEF Reclaim
<1>13. CASE UNCHANGED vars
  BY <1>13 DEF vars
<1> QED
  BY <1>1, <1>2, <1>3, <1>4, <1>5, <1>6, <1>7, <1>8, <1>9, <1>10, <1>11, <1>12, <1>13
     DEF Next, Consume, Shutdown

\* Every variable of the worker process keeps its type.
THEOREM TypeCorrect == Spec => []TypeOK
<1>1. Init => TypeOK /\ InHand
  BY InitType DEF Init, InHand
<1>2. TypeOK /\ InHand /\ [Next]_vars => (TypeOK /\ InHand)'
  BY TypeStep
<1> QED
  BY <1>1, <1>2, PTL DEF Spec

-----------------------------------------------------------------------------
(* What the loop and the shutdown know of each other: the mirror is        *)
(* unsettled exactly while the handler runs; a stopped loop waits for no   *)
(* timer; after the one late start it claims no more; and the shutdown     *)
(* awaits the handler that runs, unless that one started late.             *)

MirrorInv == (loop.pc = "handling") <=> ~inFlight.settled

StopInv ==
  /\ stopped <=> main # "serving"
  /\ stopped => loop.pc # "waiting"
  /\ ~stopped => runs.late = 0
  /\ runs.late = 0 \/ (runs.late = 1 /\ loop.pc # "claiming")

DrainInv ==
  /\ main \in {"serving", "draining"} => closed = {}
  /\ main = "draining" /\ loop.pc = "handling" /\ runs.late = 0 => awaited = inFlight.run
  /\ main \in {"closing", "exited"} /\ loop.pc = "handling" => runs.late > 0

IInv == TypeOK /\ InHand /\ MirrorInv /\ StopInv /\ DrainInv

LEMMA InitInv == Init => IInv
BY InitType DEF Init, IInv, InHand, MirrorInv, StopInv, DrainInv

LEMMA StepInv == IInv /\ [Next]_vars => IInv'
<1> SUFFICES ASSUME IInv, [Next]_vars
             PROVE  IInv'
  OBVIOUS
<1> DEFINE Goal == MirrorInv' /\ StopInv' /\ DrainInv'
<1>0. TypeOK' /\ InHand'
  BY TypeStep DEF IInv
<1>a. TypeOK /\ InHand /\ MirrorInv /\ StopInv /\ DrainInv
  BY DEF IInv
<1> USE <1>a DEF TypeOK, Places, MirrorInv, StopInv, DrainInv,
            Process, Tracked, At, Again, Halted, Loop, Alive
<1>1. ASSUME Turn PROVE Goal
  BY <1>1 DEF Turn
<1>2. ASSUME ClaimNothing PROVE Goal
  BY <1>2 DEF ClaimNothing
<1>3. ASSUME Settle PROVE Goal
  BY <1>3 DEF Settle
<1>4. ASSUME SettleRejected PROVE Goal
  BY <1>4 DEF SettleRejected
<1>5. ASSUME Announce PROVE Goal
  BY <1>5 DEF Announce
<1>6. ASSUME NEW j \in Job, Claim(j) PROVE Goal
  <2>1. CASE attempts'[j] > MaxAttempts
    BY <1>6, <2>1 DEF Claim
  <2>2. CASE ~(attempts'[j] > MaxAttempts)
    BY <1>6, <2>2 DEF Claim
  <2> QED
    BY <2>1, <2>2
<1>7. ASSUME NEW ok \in BOOLEAN, Handled(ok) PROVE Goal
  BY <1>7 DEF Handled, Mirrors
<1>8. ASSUME Signal PROVE Goal
  BY <1>8 DEF Signal, Pending
<1>9. ASSUME Drained PROVE Goal
  BY <1>9 DEF Drained
<1>10. ASSUME Exit PROVE Goal
  BY <1>10 DEF Exit
<1>11. ASSUME NEW c \in Connection, Close(c) PROVE Goal
  BY <1>11 DEF Close
<1>12. ASSUME NEW j \in Job, Reclaim(j) PROVE Goal
  BY <1>12 DEF Reclaim
<1>13. ASSUME UNCHANGED vars PROVE Goal
  BY <1>13 DEF vars
<1> QED
  BY <1>0, <1>1, <1>2, <1>3, <1>4, <1>5, <1>6, <1>7, <1>8, <1>9, <1>10, <1>11, <1>12, <1>13
     DEF Next, Consume, Shutdown, IInv

\* The connections wait for the handler that ran when the signal came: one that
\* still runs when they close started after stop() (drain.ts:16).
THEOREM DrainWaits == Spec => []DrainedIsNotSevered
<1>1. IInv => DrainedIsNotSevered
  BY DEF IInv, DrainInv, TypeOK, DrainedIsNotSevered
<1> QED
  BY <1>1, InitInv, StepInv, PTL DEF Spec

\* stop() lets the claim in flight start its handler, and no other
\* (consumer.ts:150, 160 and 174).
THEOREM OneLateStart == Spec => []StopStartsAtMostOne
<1>1. IInv => StopStartsAtMostOne
  BY DEF IInv, StopInv, TypeOK, StopStartsAtMostOne
<1> QED
  BY <1>1, InitInv, StepInv, PTL DEF Spec
=============================================================================
