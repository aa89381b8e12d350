------------------------------- MODULE Worker -------------------------------
(***************************************************************************)
(* The life of one worker process: the consume loop, one awaited statement *)
(* or call per step, and the graceful shutdown that a signal starts beside *)
(* it: stop claiming, drain the handler, close the connections, exit.  The *)
(* two share nothing but the stopped flag, the tracked promise and the     *)
(* connections, so a signal may arrive between any two steps of the loop.  *)
(*                                                                         *)
(* What the queue does with the jobs of several workers is JobQueue; here  *)
(* a job left in processing is one that only its lease gives back.         *)
(***************************************************************************)
EXTENDS Naturals, FiniteSets

CONSTANTS
  Job,
  MaxAttempts,  \* the retry policy's maxAttempts
  MaxErrors     \* bound: statements and sinks that reject while open

\* The queue's connection and the three the handler works on.
Connection == {"queue", "graph", "cache", "project"}

ASSUME WorkerAssumption == MaxAttempts \in Nat \ {0} /\ MaxErrors \in Nat

VARIABLES
  status,   \* [Job -> "ready", "processing", "done" or "dead"]
  attempts, \* deliveries of each job
  loop,     \* where the loop is, and the job it has in hand
  stopped,  \* Subscription.stop() was called
  main,     \* the process: serving, draining, closing, exited
  inFlight, \* the promise drain() returns: the run it mirrors, and whether it settled
  awaited,  \* the run whose mirror the shutdown awaits, 0 if it had settled
  closed,   \* connections closed
  runs,     \* history: handlers started, and started once stop() was called
  errors

vars == <<status, attempts, loop, stopped, main, inFlight, awaited, closed, runs, errors>>

NoJob == "none"

Places == {"claiming", "handling", "acking", "retrying", "burying", "announcing",
           "reporting", "waiting", "ended"}

TypeOK ==
  /\ status \in [Job -> {"ready", "processing", "done", "dead"}]
  /\ attempts \in [Job -> Nat]
  /\ loop \in [pc : Places, job : Job \cup {NoJob}]
  /\ stopped \in BOOLEAN
  /\ main \in {"serving", "draining", "closing", "exited"}
  /\ inFlight \in [run : Nat, settled : BOOLEAN] /\ awaited \in Nat
  /\ closed \subseteq Connection
  /\ runs \in [all : Nat, late : Nat]
  /\ errors \in Nat

-----------------------------------------------------------------------------
(* The loop.  Each step needs the process; a statement needs the queue's     *)
(* connection, and one in flight when that closes may go either way.         *)

Alive == main # "exited"

At(pc, j)    == loop' = [pc |-> pc, job |-> j]
Loop(pc)     == Alive /\ loop.pc = pc
Answered     == "queue" \notin closed /\ errors' = errors
Rejected     == /\ "queue" \in closed \/ errors < MaxErrors
                /\ errors' = IF "queue" \in closed THEN errors ELSE errors + 1
Process      == UNCHANGED <<stopped, main, awaited, closed>>
Tracked      == UNCHANGED <<inFlight, runs>>

\* Mutant of Halted: a stop() that only clears the timer.
HaltedNever == FALSE

\* What the loop reads of stop(), before and after each turn.
Halted == stopped

\* After a turn: the next one by a timer, at once after work and a poll interval
\* later otherwise.
Again == At(IF Halted THEN "ended" ELSE "waiting", NoJob)

\* The timer fires.
Turn ==
  /\ Loop("waiting")
  /\ At(IF Halted THEN "ended" ELSE "claiming", NoJob)
  /\ Process /\ Tracked /\ UNCHANGED <<status, attempts, errors>>

\* Nothing is claimable, a delivery past the cap is buried, any other is handled.
Claim(j) ==
  /\ Loop("claiming") /\ Answered
  /\ status[j] = "ready"
  /\ status' = [status EXCEPT ![j] = "processing"]
  /\ attempts' = [attempts EXCEPT ![j] = @ + 1]
  /\ IF attempts'[j] > MaxAttempts
       THEN At("burying", j) /\ Tracked
       ELSE /\ At("handling", j)
            /\ inFlight' = [run |-> runs.all + 1, settled |-> FALSE]
            /\ runs' = [all |-> runs.all + 1, late |-> runs.late + (IF stopped THEN 1 ELSE 0)]
  /\ Process

ClaimNothing ==
  /\ Loop("claiming") /\ Answered
  /\ \A j \in Job : status[j] # "ready"
  /\ Again
  /\ Process /\ Tracked /\ UNCHANGED <<status, attempts>>

\* Mutant of Mirrors: a mirror that settles with a success only.
MirrorsSuccess(ok) == ok

\* The mirror of a run settles however the run does.
Mirrors(ok) == TRUE

\* The handler ends: well, or failing, which it also does when a connection it
\* works on is closed under it.  The tracked mirror settles with it.
Handled(ok) ==
  /\ Loop("handling")
  /\ ok => closed \cap {"graph", "cache", "project"} = {}
  /\ At(IF ok THEN "acking" ELSE IF attempts[loop.job] < MaxAttempts THEN "retrying" ELSE "burying",
        loop.job)
  /\ inFlight' = [inFlight EXCEPT !.settled = Mirrors(ok)]
  /\ Process /\ UNCHANGED <<status, attempts, runs, errors>>

\* The settlement of the job in hand.  An ack that rejects is taken for a
\* failure of the handler; any other rejection is reported by the loop.
Settle ==
  /\ Alive /\ loop.pc \in {"acking", "retrying", "burying"} /\ Answered
  /\ status' = [status EXCEPT ![loop.job] =
                  CASE loop.pc = "acking" -> "done" [] loop.pc = "retrying" -> "ready"
                    [] loop.pc = "burying" -> "dead"]
  /\ IF loop.pc = "burying" THEN At("announcing", loop.job) ELSE Again
  /\ Process /\ Tracked /\ UNCHANGED attempts

SettleRejected ==
  /\ Alive /\ loop.pc \in {"acking", "retrying", "burying", "claiming"} /\ Rejected
  /\ At(IF loop.pc # "acking" THEN "reporting"
        ELSE IF attempts[loop.job] < MaxAttempts THEN "retrying" ELSE "burying", loop.job)
  /\ Process /\ Tracked /\ UNCHANGED <<status, attempts>>

\* onDeadLetter and onError: log lines.
Announce ==
  /\ Loop("announcing") \/ Loop("reporting")
  /\ Again
  /\ Process /\ Tracked /\ UNCHANGED <<status, attempts, errors>>

-----------------------------------------------------------------------------
(* The shutdown. *)

\* Mutant of Pending: drain() that resolves at once.
PendingNever == FALSE

\* Whether a handler was in flight when drain() was called.
Pending == ~inFlight.settled

\* SIGINT or SIGTERM; the second is ignored.  The loop's timer is cleared, and
\* the promise of the handler that runs now, if any, is awaited.
Signal ==
  /\ main = "serving"
  /\ stopped' = TRUE
  /\ main' = "draining"
  /\ awaited' = IF Pending THEN inFlight.run ELSE 0
  /\ IF loop.pc = "waiting" THEN At("ended", NoJob) ELSE loop' = loop
  /\ UNCHANGED <<status, attempts, inFlight, closed, runs, errors>>

Drained ==
  /\ main = "draining"
  /\ awaited = inFlight.run => inFlight.settled
  /\ main' = "closing"
  /\ UNCHANGED <<status, attempts, loop, stopped, inFlight, awaited, closed, runs, errors>>

\* The four connections close beside each other, and beside the loop.
Close(c) ==
  /\ main = "closing" /\ c \notin closed
  /\ closed' = closed \cup {c}
  /\ UNCHANGED <<status, attempts, loop, stopped, main, inFlight, awaited, runs, errors>>

\* All are closed, or one refused to.
Exit ==
  /\ main = "closing"
  /\ \/ closed = Connection /\ errors' = errors
     \/ errors < MaxErrors /\ errors' = errors + 1
  /\ main' = "exited"
  /\ UNCHANGED <<status, attempts, loop, stopped, inFlight, awaited, closed, runs>>

-----------------------------------------------------------------------------
Init ==
  /\ status \in [Job -> {"ready", "processing"}]
  /\ attempts \in [Job -> {0, MaxAttempts}]
  /\ loop = [pc |-> "claiming", job |-> NoJob]
  /\ stopped = FALSE /\ main = "serving"
  /\ inFlight = [run |-> 0, settled |-> TRUE] /\ awaited = 0
  /\ closed = {}
  /\ runs = [all |-> 0, late |-> 0]
  /\ errors = 0

\* The lease of a job that an earlier process left in processing runs out.
Reclaim(j) ==
  /\ Alive /\ status[j] = "processing" /\ loop.job # j
  /\ status' = [status EXCEPT ![j] = "ready"]
  /\ UNCHANGED <<attempts, loop, stopped, main, inFlight, awaited, closed, runs, errors>>

Consume ==
  \/ Turn \/ ClaimNothing \/ Settle \/ SettleRejected \/ Announce
  \/ \E j \in Job : Claim(j)
  \/ \E ok \in BOOLEAN : Handled(ok)

Shutdown == Drained \/ Exit \/ \E c \in Connection : Close(c)

Next == Consume \/ Shutdown \/ Signal \/ \E j \in Job : Reclaim(j)

Spec == Init /\ [][Next]_vars

\* Every promise of the loop settles, the handler's included, and the shutdown
\* goes on when it can.
LiveSpec == Spec /\ WF_vars(Consume) /\ WF_vars(Drained) /\ WF_vars(Exit)
                 /\ \A c \in Connection : WF_vars(Close(c))

-----------------------------------------------------------------------------
(* Properties. *)

\* No connection is closed while the handler runs that ran when the signal
\* came (drain.ts:16, "await the currently-running job (if any) before
\* closing"); one that starts later is not waited for.
DrainedIsNotSevered ==
  closed # {} /\ loop.pc = "handling" => runs.late > 0

\* Once stop() was called at most one more handler starts, the one of the claim
\* that was in flight (consumer.ts:171).
StopStartsAtMostOne == runs.late <= 1

\* A signal ends the process, whatever the loop is doing (consume.ts:80).
ShutdownEnds == stopped ~> main = "exited"
=============================================================================
