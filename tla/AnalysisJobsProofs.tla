------------------------- MODULE AnalysisJobsProofs -------------------------
(***************************************************************************)
(* Safety of AnalysisJobs, and that it implements AnalysisLifecycle, for   *)
(* every set of jobs, commands and workers and every bound, checked by     *)
(* TLAPS.                                                                  *)
(*                                                                         *)
(* The inductive invariant IInv adds to the properties what the handlers   *)
(* rely on without checking it: a command that exists names a job, and a   *)
(* busy worker holds such a command and, once it has claimed, an attempt.  *)
(***************************************************************************)
EXTENDS AnalysisJobs, FiniteSetTheorems, TLAPS

\* A command in the outbox or in pg-boss carries the id of a job.
CommandsNameJobs ==
  \A c \in Commands : stage[c] # "unused" => target[c] \in Jobs

\* A worker that is not idle works for such a command, and knows its attempt from
\* the claim on.
WorkersHoldCommands ==
  \A w \in Workers : worker[w].pc # "idle" =>
    /\ worker[w].command \in Commands
    /\ stage[worker[w].command] # "unused"
    /\ worker[w].pc \in {"running", "failing"} => worker[w].ordinal \in Ordinals

Dispatch == CommandsNameJobs /\ WorkersHoldCommands

\* What claim, complete, fail, cancel and recover have made of the rows.
Decisions == OneActiveAttempt /\ DecidedByOneAttempt /\ DeadLetterRetryable

\* The inductive invariant.
IInv == TypeOK /\ Dispatch /\ Decisions /\ QueuedHasCommand

-----------------------------------------------------------------------------
(* Facts about one state *)

\* Two running attempts of a job are the same attempt: the newest one.
LEMMA RunningIsUnique ==
  ASSUME OneActiveAttempt, NEW j \in Jobs, NEW m \in Ordinals, NEW n \in Ordinals,
         attempt[j][m] = "running", attempt[j][n] = "running"
  PROVE  m = n
  BY SMT DEF OneActiveAttempt, RunningAttempt, Ordinals

\* The job a busy worker works for is a job.
LEMMA BusyWorkerHasJob ==
  ASSUME Dispatch, NEW w \in Workers, worker[w].pc # "idle"
  PROVE  JobOf(w) \in Jobs
  BY DEF Dispatch, CommandsNameJobs, WorkersHoldCommands, JobOf

-----------------------------------------------------------------------------
(* Type correctness and dispatch *)

LEMMA InitTyped == Init => TypeOK /\ Dispatch
  BY CountAssumption DEF Init, TypeOK, Dispatch, CommandsNameJobs,
     WorkersHoldCommands, Idle, WorkerStates, JobStates, Terminal, AttemptStates,
     Stages

\* A fault stays within its budget.
LEMMA FaultTyped == ASSUME TypeOK, Fault PROVE faults' \in 0 .. MaxFaults
  BY CountAssumption DEF TypeOK, Fault

\* A redelivered command is ready or dead, with its counter within the limit.
LEMMA RedeliverTyped ==
  ASSUME TypeOK, NEW c \in Commands, Redeliver(c)
  PROVE  /\ stage' \in [Commands -> Stages]
         /\ retries' \in [Commands -> 0 .. RetryLimit]
         /\ stage'[c] # "unused"
         /\ \A d \in Commands \ {c} : stage'[d] = stage[d]
<1>1. /\ stage \in [Commands -> Stages]
      /\ retries \in [Commands -> 0 .. RetryLimit]
      /\ RetryLimit \in Nat
  BY CountAssumption DEF TypeOK
<1> HIDE DEF TypeOK
<1>2. CASE retries[c] < RetryLimit
  <2>1. /\ stage'   = [stage EXCEPT ![c] = "ready"]
        /\ retries' = [retries EXCEPT ![c] = retries[c] + 1]
    BY <1>2 DEF Redeliver
  <2>2. retries[c] + 1 \in 0 .. RetryLimit
    BY <1>1, <1>2
  <2>3. retries' \in [Commands -> 0 .. RetryLimit]
    BY <1>1, <2>1, <2>2
  <2> QED BY <1>1, <2>1, <2>3 DEF Stages
<1>3. CASE ~(retries[c] < RetryLimit)
  <2>1. stage' = [stage EXCEPT ![c] = "dead"] /\ retries' = retries
    BY <1>3 DEF Redeliver
  <2> QED BY <1>1, <2>1 DEF Stages
<1> QED BY <1>2, <1>3

\* An appended command is in the outbox and names its job.
LEMMA AppendTyped ==
  ASSUME TypeOK, Dispatch, NEW c \in Commands, NEW j \in Jobs, AppendCommand(c, j)
  PROVE  /\ stage' \in [Commands -> Stages]
         /\ target' \in [Commands -> Jobs \union {NoJob}]
         /\ retries' = retries
         /\ stage[c] = "unused"
         /\ stage'[c] = "outbox"
         /\ target'[c] = j
         /\ \A d \in Commands \ {c} : stage'[d] = stage[d] /\ target'[d] = target[d]
  BY DEF TypeOK, Stages, AppendCommand

\* The steps that move commands keep the types and the dispatch relation.
LEMMA DeliverTyped ==
  ASSUME TypeOK, Dispatch, Deliver
  PROVE  TypeOK' /\ Dispatch'
<1> USE DEF TypeOK, Dispatch, CommandsNameJobs, WorkersHoldCommands, rows, queue
<1>1. ASSUME NEW c \in Commands, Relay(c) PROVE TypeOK' /\ Dispatch'
  BY <1>1 DEF Relay, Stages
<1>2. ASSUME NEW c \in Commands, ExpireDelivery(c) PROVE TypeOK' /\ Dispatch'
  <2>1. /\ stage' \in [Commands -> Stages]
        /\ retries' \in [Commands -> 0 .. RetryLimit]
        /\ \A d \in Commands : stage'[d] = "unused" <=> stage[d] = "unused"
    BY <1>2, RedeliverTyped DEF ExpireDelivery
  <2>2. faults' \in 0 .. MaxFaults
    BY <1>2, FaultTyped DEF ExpireDelivery
  <2>3. /\ worker' \in [Workers -> WorkerStates]
        /\ \A w \in Workers : /\ worker'[w].pc = worker[w].pc
                              /\ worker'[w].command = worker[w].command
                              /\ worker'[w].ordinal = worker[w].ordinal
    <3> DEFINE next(w) == IF /\ worker[w].command = c
                             /\ ~worker[w].expired
                          THEN [worker[w] EXCEPT !.expired = TRUE] ELSE worker[w]
    <3>1. worker' = [w \in Workers |-> next(w)]
      BY <1>2 DEF ExpireDelivery
    <3>2. \A w \in Workers : /\ next(w) \in WorkerStates
                             /\ next(w).pc = worker[w].pc
                             /\ next(w).command = worker[w].command
                             /\ next(w).ordinal = worker[w].ordinal
      BY DEF WorkerStates
    <3> HIDE DEF next
    <3> QED BY <3>1, <3>2
  <2>4. UNCHANGED <<rows, recovery, target>>
    BY <1>2 DEF ExpireDelivery
  <2>5. TypeOK'
    BY <2>1, <2>2, <2>3, <2>4
  <2>6. CommandsNameJobs'
    <3>1. target' = target
      BY <2>4
    <3> SUFFICES ASSUME NEW d \in Commands, stage'[d] # "unused"
                 PROVE  target[d] \in Jobs
      BY <3>1
    <3> QED BY <2>1
  <2>7. WorkersHoldCommands'
    <3> SUFFICES ASSUME NEW w \in Workers, worker[w].pc # "idle"
                 PROVE  /\ worker[w].command \in Commands
                        /\ stage'[worker[w].command] # "unused"
                        /\ worker[w].pc \in {"running", "failing"} =>
                             worker[w].ordinal \in Ordinals
      BY <2>3
    <3> QED BY <2>1
  <2> QED BY <2>5, <2>6, <2>7
<1>3. ASSUME NEW w \in Workers, NEW c \in Commands, Fetch(w, c)
      PROVE  TypeOK' /\ Dispatch'
  BY <1>3 DEF Fetch, Stages, WorkerStates, Idle
<1>4. ASSUME NEW w \in Workers, Acknowledge(w) PROVE TypeOK' /\ Dispatch'
  BY <1>4 DEF Acknowledge, Stages, WorkerStates, Idle
<1>5. ASSUME NEW w \in Workers, Reject(w) PROVE TypeOK' /\ Dispatch'
  <2>1. worker[w].command \in Commands
    BY <1>5 DEF Reject
  <2>2. /\ stage' \in [Commands -> Stages]
        /\ retries' \in [Commands -> 0 .. RetryLimit]
        /\ \A d \in Commands : stage'[d] = "unused" <=> stage[d] = "unused"
    BY <1>5, <2>1, RedeliverTyped DEF Reject
  <2>3. /\ worker' = [worker EXCEPT ![w] = Idle]
        /\ UNCHANGED <<rows, recovery, target, faults>>
    BY <1>5 DEF Reject
  <2>4. TypeOK'
    BY <2>2, <2>3 DEF WorkerStates, Idle
  <2>5. CommandsNameJobs'
    <3>1. target' = target
      BY <2>3
    <3> SUFFICES ASSUME NEW d \in Commands, stage'[d] # "unused"
                 PROVE  target[d] \in Jobs
      BY <3>1
    <3> QED BY <2>2
  <2>6. /\ worker'[w].pc = "idle"
        /\ \A v \in Workers \ {w} : worker'[v] = worker[v]
    BY <2>3 DEF Idle
  <2>7. WorkersHoldCommands'
    BY <2>2, <2>6
  <2> QED BY <2>4, <2>5, <2>7
<1>6. ASSUME NEW w \in Workers, Crash(w) PROVE TypeOK' /\ Dispatch'
  BY <1>6, FaultTyped DEF Crash, WorkerStates, Idle
<1> QED BY <1>1, <1>2, <1>3, <1>4, <1>5, <1>6 DEF Deliver

\* A handler that moves on within its delivery stays typed and keeps its command.
LEMMA MoveTyped ==
  ASSUME TypeOK, Dispatch, NEW w \in Workers, worker[w].pc # "idle",
         NEW pc \in {"running", "failing", "acking", "nacking"},
         NEW n \in Ordinals \union {NoAttempt},
         pc \in {"running", "failing"} => n \in Ordinals,
         worker' = [worker EXCEPT ![w].pc = pc, ![w].ordinal = n],
         UNCHANGED <<stage, target>>
  PROVE  worker' \in [Workers -> WorkerStates] /\ Dispatch'
<1>1. worker \in [Workers -> WorkerStates]
  BY DEF TypeOK
<1>2. /\ worker'[w] = [worker[w] EXCEPT !.pc = pc, !.ordinal = n]
      /\ \A v \in Workers \ {w} : worker'[v] = worker[v]
  BY <1>1
<1>3. /\ worker'[w] \in WorkerStates
      /\ worker'[w].pc = pc /\ worker'[w].ordinal = n
      /\ worker'[w].command = worker[w].command
  <2> DEFINE s == worker[w]
             t == worker'[w]
  <2>1. s \in WorkerStates
    BY <1>1
  <2>2. t = [s EXCEPT !.pc = pc, !.ordinal = n]
    BY <1>2
  <2> HIDE DEF s, t
  <2>3. /\ t \in WorkerStates
        /\ t.pc = pc /\ t.ordinal = n /\ t.command = s.command
    BY <2>1, <2>2 DEF WorkerStates
  <2> QED BY <2>3 DEF s, t
<1>4. worker' \in [Workers -> WorkerStates]
  <2>1. worker' = [v \in Workers |-> worker'[v]]
    BY <1>1
  <2>2. \A v \in Workers : worker'[v] \in WorkerStates
    BY <1>1, <1>2, <1>3
  <2> QED BY <2>1, <2>2
<1>5. CommandsNameJobs'
  BY DEF Dispatch, CommandsNameJobs
<1>6. WorkersHoldCommands'
  BY <1>2, <1>3 DEF Dispatch, WorkersHoldCommands
<1> QED BY <1>4, <1>5, <1>6 DEF Dispatch

\* The case in which the handler keeps the attempt it has.
LEMMA GotoTyped ==
  ASSUME TypeOK, Dispatch, NEW w \in Workers, worker[w].pc # "idle",
         NEW pc \in {"failing", "acking", "nacking"}, Goto(w, pc),
         pc = "failing" => worker[w].pc = "running",
         UNCHANGED <<stage, target>>
  PROVE  worker' \in [Workers -> WorkerStates] /\ Dispatch'
<1>1. worker[w].ordinal \in Ordinals \union {NoAttempt}
  BY DEF TypeOK, WorkerStates
<1>2. pc = "failing" => worker[w].ordinal \in Ordinals
  BY DEF Dispatch, WorkersHoldCommands
<1>3. worker' = [worker EXCEPT ![w].pc = pc, ![w].ordinal = worker[w].ordinal]
  <2>1. [worker[w] EXCEPT !.pc = pc] =
        [worker[w] EXCEPT !.pc = pc, !.ordinal = worker[w].ordinal]
    BY DEF TypeOK, WorkerStates
  <2> QED BY <2>1 DEF Goto
<1> QED BY <1>1, <1>2, <1>3, MoveTyped

\* The steps of a handler keep the types and the dispatch relation.
LEMMA ExecuteTyped ==
  ASSUME TypeOK, Dispatch, NEW w \in Workers, Execute(w)
  PROVE  TypeOK' /\ Dispatch'
<1>1. ASSUME NEW n \in Ordinals, ClaimQueued(w, n) PROVE TypeOK' /\ Dispatch'
  <2>1. JobOf(w) \in Jobs
    BY <1>1, BusyWorkerHasJob DEF ClaimQueued
  <2>2. /\ job' \in [Jobs -> JobStates]
        /\ attempt' \in [Jobs -> [Ordinals -> AttemptStates]]
    BY <1>1, <2>1 DEF ClaimQueued, TypeOK, JobStates, AttemptStates
  <2>3. worker' \in [Workers -> WorkerStates] /\ Dispatch'
    BY <1>1, MoveTyped DEF ClaimQueued, queue
  <2> QED BY <1>1, <2>2, <2>3 DEF ClaimQueued, TypeOK, queue
<1>2. CASE ClaimNothing(w)
  <2>1. worker' \in [Workers -> WorkerStates] /\ Dispatch'
    BY <1>2, GotoTyped DEF ClaimNothing, queue
  <2> QED BY <1>2, <2>1 DEF ClaimNothing, TypeOK, rows, queue
<1>3. CASE ClaimThrows(w)
  <2>1. worker' \in [Workers -> WorkerStates] /\ Dispatch'
    BY <1>3, GotoTyped DEF ClaimThrows, queue
  <2>2. faults' \in 0 .. MaxFaults
    BY <1>3, FaultTyped DEF ClaimThrows, TypeOK
  <2> QED BY <1>3, <2>1, <2>2 DEF ClaimThrows, TypeOK, rows, queue
<1>4. ASSUME worker[w].pc = "running", CompletionCommitted(JobOf(w), worker[w].ordinal)
      PROVE  /\ job' \in [Jobs -> JobStates]
             /\ attempt' \in [Jobs -> [Ordinals -> AttemptStates]]
             /\ lapsed' = lapsed
             /\ result' \in [Jobs -> Ordinals \union {NoAttempt}]
             /\ completed' \subseteq Jobs \X Ordinals
  <2>1. JobOf(w) \in Jobs /\ worker[w].ordinal \in Ordinals
    BY <1>4, BusyWorkerHasJob DEF Dispatch, WorkersHoldCommands
  <2> QED BY <1>4, <2>1
          DEF CompletionCommitted, TypeOK, JobStates, Terminal, AttemptStates
<1>5. CASE Complete(w)
  <2>1. worker' \in [Workers -> WorkerStates] /\ Dispatch'
    BY <1>5, GotoTyped DEF Complete, queue
  <2> QED BY <1>4, <1>5, <2>1 DEF Complete, TypeOK, queue
<1>6. CASE CompleteAnswerLost(w)
  <2>1. worker' \in [Workers -> WorkerStates] /\ Dispatch'
    BY <1>6, GotoTyped DEF CompleteAnswerLost, queue
  <2>2. faults' \in 0 .. MaxFaults
    BY <1>6, FaultTyped DEF CompleteAnswerLost
  <2> QED BY <1>4, <1>6, <2>1, <2>2 DEF CompleteAnswerLost, TypeOK, queue
<1>7. CASE AnalysisThrows(w)
  <2>1. worker' \in [Workers -> WorkerStates] /\ Dispatch'
    BY <1>7, GotoTyped DEF AnalysisThrows, queue
  <2> QED BY <1>7, <2>1 DEF AnalysisThrows, TypeOK, rows, queue
<1>8. CASE Fail(w)
  <2>1. JobOf(w) \in Jobs /\ worker[w].ordinal \in Ordinals
    BY <1>8, BusyWorkerHasJob DEF Fail, Dispatch, WorkersHoldCommands
  <2>2. /\ job' \in [Jobs -> JobStates]
        /\ attempt' \in [Jobs -> [Ordinals -> AttemptStates]]
    BY <1>8, <2>1 DEF Fail, Outcomes, TypeOK, JobStates, Terminal, AttemptStates
  <2>3. /\ worker[w].pc = "failing"
        /\ Goto(w, "nacking")
        /\ UNCHANGED <<lapsed, result, completed, recovery, queue, faults>>
    BY <1>8 DEF Fail
  <2>4. worker' \in [Workers -> WorkerStates] /\ Dispatch'
    BY <2>3, GotoTyped DEF queue
  <2> QED BY <2>2, <2>3, <2>4 DEF TypeOK, queue
<1>9. CASE FailThrows(w)
  <2>1. worker' \in [Workers -> WorkerStates] /\ Dispatch'
    BY <1>9, GotoTyped DEF FailThrows, queue
  <2>2. faults' \in 0 .. MaxFaults
    BY <1>9, FaultTyped DEF FailThrows
  <2> QED BY <1>9, <2>1, <2>2 DEF FailThrows, TypeOK, rows, queue
<1> QED BY <1>1, <1>2, <1>3, <1>5, <1>6, <1>7, <1>8, <1>9 DEF Execute

\* So do the operator's calls.
LEMMA OperateTyped ==
  ASSUME TypeOK, Dispatch, NEW j \in Jobs, Operate(j)
  PROVE  TypeOK' /\ Dispatch'
<1> USE DEF TypeOK, Dispatch, CommandsNameJobs, WorkersHoldCommands, rows, queue
<1>1. CASE CancelOperationalJob(j)
  BY <1>1 DEF CancelOperationalJob, JobStates, Terminal, AttemptStates
<1>2. CASE RecoverTooEarly(j)
  BY <1>2 DEF RecoverTooEarly
<1>3. ASSUME NEW c \in Commands, RequestAnalysis(j, c) PROVE TypeOK' /\ Dispatch'
  BY <1>3, AppendTyped DEF RequestAnalysis, JobStates
<1>4. ASSUME NEW c \in Commands, RecoverExpiredJob(j, c) PROVE TypeOK' /\ Dispatch'
  BY <1>4, AppendTyped DEF RecoverExpiredJob, JobStates, AttemptStates
<1>5. ASSUME NEW c \in Commands, NEW r \in Jobs, RetryDeadLetter(j, r, c)
      PROVE  TypeOK' /\ Dispatch'
  BY <1>5, AppendTyped DEF RetryDeadLetter, JobStates
<1> QED BY <1>1, <1>2, <1>3, <1>4, <1>5 DEF Operate

\* So do the leases.
LEMMA LeasesTyped ==
  ASSUME TypeOK, Dispatch, NEW j \in Jobs, LeasesExpire(j)
  PROVE  TypeOK' /\ Dispatch'
<1> USE DEF TypeOK, Dispatch, CommandsNameJobs, WorkersHoldCommands, rows, queue
<1>1. CASE RecoveryLeaseExpires(j)
  BY <1>1 DEF RecoveryLeaseExpires
<1>2. ASSUME NEW n \in Ordinals, AttemptLeaseExpires(j, n) PROVE TypeOK' /\ Dispatch'
  BY <1>2, FaultTyped DEF AttemptLeaseExpires
<1> QED BY <1>1, <1>2 DEF LeasesExpire

\* Every step keeps the types and the dispatch relation.
LEMMA NextTyped ==
  ASSUME TypeOK, Dispatch, [Next]_vars
  PROVE  TypeOK' /\ Dispatch'
<1>1. CASE UNCHANGED vars
  BY <1>1 DEF vars, rows, queue, TypeOK, Dispatch, CommandsNameJobs,
              WorkersHoldCommands
<1> QED BY <1>1, DeliverTyped, ExecuteTyped, OperateTyped, LeasesTyped DEF Next

-----------------------------------------------------------------------------
(* The rows: OneActiveAttempt, DecidedByOneAttempt, DeadLetterRetryable *)

\* The three invariants look at the rows only.
LEMMA RowsDecide ==
  ASSUME Decisions, UNCHANGED <<job, attempt, result, completed>>
  PROVE  Decisions'
  BY DEF Decisions, OneActiveAttempt, RunningAttempt, DecidedByOneAttempt,
         DeadLetterRetryable

\* A job that is created queued brings no attempt and no result with it.
LEMMA CreationDecides ==
  ASSUME TypeOK, Decisions, NEW j \in Jobs,
         job[j] = "absent", job' = [job EXCEPT ![j] = "queued"],
         UNCHANGED <<attempt, result, completed>>
  PROVE  Decisions'
<1> USE DEF TypeOK, Decisions
<1>1. OneActiveAttempt'
  BY DEF OneActiveAttempt, RunningAttempt
<1>2. DecidedByOneAttempt'
  BY DEF DecidedByOneAttempt
<1>3. DeadLetterRetryable'
  BY DEF DeadLetterRetryable
<1> QED BY <1>1, <1>2, <1>3

\* A claim starts the newest attempt, and no other one is running: the job was
\* queued.
LEMMA ClaimDecides ==
  ASSUME TypeOK, Decisions, NEW j \in Jobs, NEW n \in Ordinals,
         job[j] = "queued", NextOrdinal(j, n),
         job' = [job EXCEPT ![j] = "running"],
         attempt' = [attempt EXCEPT ![j][n] = "running"],
         UNCHANGED <<result, completed>>
  PROVE  Decisions'
<1> USE DEF TypeOK, Decisions
<1>1. \A m \in Ordinals : attempt[j][m] # "running"
  BY DEF OneActiveAttempt
<1>2. \A m \in Ordinals : m > n => m >= n /\ m # n
  BY CountAssumption DEF Ordinals
<1>3. attempt[j][n] = "none"
  BY CountAssumption DEF NextOrdinal, Ordinals
<1>4. OneActiveAttempt'
  BY <1>1, <1>2 DEF OneActiveAttempt, RunningAttempt, NextOrdinal
<1>5. DecidedByOneAttempt'
  BY <1>3 DEF DecidedByOneAttempt
<1>6. DeadLetterRetryable'
  BY DEF DeadLetterRetryable
<1> QED BY <1>4, <1>5, <1>6

\* A completion ends the one running attempt, and nothing had decided the job.
LEMMA CompletionDecides ==
  ASSUME TypeOK, Decisions, NEW j \in Jobs, NEW n \in Ordinals,
         CompletionCommitted(j, n)
  PROVE  Decisions'
<1> USE DEF TypeOK, Decisions, CompletionCommitted
<1>1. \A m \in Ordinals : attempt[j][m] = "running" => m = n
  BY RunningIsUnique
<1>2. OneActiveAttempt'
  BY <1>1 DEF OneActiveAttempt, RunningAttempt
<1>3. DecidedByOneAttempt'
  BY MarkerAssumption DEF DecidedByOneAttempt
<1>4. DeadLetterRetryable'
  BY DEF DeadLetterRetryable
<1> QED BY <1>2, <1>3, <1>4

\* A recorded failure is that of the newest attempt: only it can be running.
LEMMA FailureDecides ==
  ASSUME TypeOK, Dispatch, Decisions, NEW w \in Workers, Fail(w)
  PROVE  Decisions'
<1> DEFINE j == JobOf(w)
           n == worker[w].ordinal
<1>1. j \in Jobs /\ n \in Ordinals
  BY BusyWorkerHasJob DEF Fail, Dispatch, WorkersHoldCommands
<1>2. /\ UNCHANGED <<result, completed>>
      /\ \/ UNCHANGED <<job, attempt>>
         \/ /\ attempt[j][n] = "running"
            /\ \E outcome \in {"failed", "cancelled"} :
                 /\ attempt' = [attempt EXCEPT ![j][n] = outcome]
                 /\ job' = IF job[j] = "running"
                           THEN [job EXCEPT ![j] = outcome] ELSE job
  BY DEF Fail, Outcomes
<1> HIDE DEF j, n
<1>3. CASE UNCHANGED <<job, attempt>>
  BY <1>2, <1>3, RowsDecide
<1>4. ASSUME attempt[j][n] = "running",
             NEW outcome \in {"failed", "cancelled"},
             attempt' = [attempt EXCEPT ![j][n] = outcome],
             job' = IF job[j] = "running"
                    THEN [job EXCEPT ![j] = outcome] ELSE job
      PROVE  Decisions'
  <2> USE <1>1, <1>2, <1>4 DEF TypeOK, Decisions
  <2>1. job[j] = "running" /\ RunningAttempt(j, n)
    BY DEF OneActiveAttempt
  <2>2. \A m \in Ordinals : attempt[j][m] = "running" => m = n
    BY RunningIsUnique
  <2>3. \A m \in Ordinals : m > n => m # n
    BY CountAssumption DEF Ordinals
  <2>4. OneActiveAttempt'
    BY <2>1, <2>2 DEF OneActiveAttempt, RunningAttempt
  <2>5. DecidedByOneAttempt'
    BY <2>1 DEF DecidedByOneAttempt
  <2>6. DeadLetterRetryable'
    BY <2>1, <2>3 DEF DeadLetterRetryable, RunningAttempt
  <2> QED BY <2>4, <2>5, <2>6
<1> QED BY <1>2, <1>3, <1>4

\* Cancellation ends every attempt that is running.
LEMMA CancellationDecides ==
  ASSUME TypeOK, Decisions, NEW j \in Jobs, CancelOperationalJob(j)
  PROVE  Decisions'
<1> USE DEF TypeOK, Decisions, CancelOperationalJob
<1>1. OneActiveAttempt'
  BY DEF OneActiveAttempt, RunningAttempt
<1>2. DecidedByOneAttempt'
  BY DEF DecidedByOneAttempt
<1>3. DeadLetterRetryable'
  BY DEF DeadLetterRetryable
<1> QED BY <1>1, <1>2, <1>3

\* Recovery queues the job again: the attempt it takes was the only one running.
LEMMA RecoveryDecides ==
  ASSUME TypeOK, Decisions, NEW j \in Jobs, NEW c \in Commands,
         RecoverExpiredJob(j, c)
  PROVE  Decisions'
<1> USE DEF TypeOK, Decisions, RecoverExpiredJob
<1>1. \A n \in Ordinals : attempt[j][n] = "running" => n \in Recoverable(j)
  BY RunningIsUnique DEF Recoverable
<1>2. \A n \in Recoverable(j) : n \in Ordinals /\ attempt[j][n] = "running"
  BY DEF Recoverable
<1>3. OneActiveAttempt'
  BY <1>1 DEF OneActiveAttempt, RunningAttempt
<1>4. DecidedByOneAttempt'
  BY <1>2 DEF DecidedByOneAttempt
<1>5. DeadLetterRetryable'
  BY DEF DeadLetterRetryable
<1> QED BY <1>3, <1>4, <1>5

\* Every step keeps the three invariants.
LEMMA NextDecides ==
  ASSUME TypeOK, Dispatch, Decisions, [Next]_vars
  PROVE  Decisions'
<1> USE DEF rows
<1>1. CASE UNCHANGED vars
  BY <1>1, RowsDecide DEF vars
<1>2. CASE Deliver
  BY <1>2, RowsDecide
     DEF Deliver, Relay, ExpireDelivery, Fetch, Acknowledge, Reject, Crash
<1>3. ASSUME NEW w \in Workers, Execute(w) PROVE Decisions'
  <2>1. ASSUME NEW n \in Ordinals, ClaimQueued(w, n) PROVE Decisions'
    <3>1. JobOf(w) \in Jobs
      BY <2>1, BusyWorkerHasJob DEF ClaimQueued
    <3> QED BY <2>1, <3>1, ClaimDecides DEF ClaimQueued
  <2>2. CASE Complete(w) \/ CompleteAnswerLost(w)
    <3>1. JobOf(w) \in Jobs /\ worker[w].ordinal \in Ordinals
      BY <2>2, BusyWorkerHasJob
         DEF Complete, CompleteAnswerLost, Dispatch, WorkersHoldCommands
    <3> QED BY <2>2, <3>1, CompletionDecides DEF Complete, CompleteAnswerLost
  <2>3. CASE Fail(w)
    BY <2>3, FailureDecides
  <2>4. CASE ClaimNothing(w) \/ ClaimThrows(w) \/ AnalysisThrows(w) \/ FailThrows(w)
    BY <2>4, RowsDecide DEF ClaimNothing, ClaimThrows, AnalysisThrows, FailThrows
  <2> QED BY <1>3, <2>1, <2>2, <2>3, <2>4 DEF Execute
<1>4. ASSUME NEW j \in Jobs, Operate(j) PROVE Decisions'
  <2>1. CASE CancelOperationalJob(j)
    BY <2>1, CancellationDecides
  <2>2. CASE RecoverTooEarly(j)
    BY <2>2, RowsDecide DEF RecoverTooEarly
  <2>3. ASSUME NEW c \in Commands, RequestAnalysis(j, c) PROVE Decisions'
    BY <2>3, CreationDecides DEF RequestAnalysis
  <2>4. ASSUME NEW c \in Commands, RecoverExpiredJob(j, c) PROVE Decisions'
    BY <2>4, RecoveryDecides
  <2>5. ASSUME NEW c \in Commands, NEW r \in Jobs, RetryDeadLetter(j, r, c)
        PROVE  Decisions'
    BY <2>5, CreationDecides DEF RetryDeadLetter
  <2> QED BY <1>4, <2>1, <2>2, <2>3, <2>4, <2>5 DEF Operate
<1>5. ASSUME NEW j \in Jobs, LeasesExpire(j) PROVE Decisions'
  BY <1>5, RowsDecide DEF LeasesExpire, RecoveryLeaseExpires, AttemptLeaseExpires
<1> QED BY <1>1, <1>2, <1>3, <1>4, <1>5 DEF Next

-----------------------------------------------------------------------------
(* Commands: QueuedHasCommand *)

\* A step that queues no job keeps the commands of the queued ones if it answers
\* none of them.
LEMMA CommandsKept ==
  ASSUME QueuedHasCommand,
         \A j \in Jobs : job'[j] = "queued" => job[j] = "queued",
         \A j \in Jobs, c \in Commands :
           /\ job'[j] = "queued"
           /\ target[c] = j
           /\ Unanswered(c)
           => target'[c] = j /\ Unanswered(c)'
  PROVE  QueuedHasCommand'
  BY DEF QueuedHasCommand

\* A step that queues job j appends a command for it, and no handler can hold that
\* command yet.
LEMMA CommandAppended ==
  ASSUME TypeOK, Dispatch, QueuedHasCommand,
         NEW j \in Jobs, NEW c \in Commands, AppendCommand(c, j),
         \A i \in Jobs \ {j} : job'[i] = "queued" => job[i] = "queued",
         worker' = worker
  PROVE  QueuedHasCommand'
<1>1. \A w \in Workers : worker[w].command = c => worker[w].pc # "acking"
  BY AppendTyped DEF Dispatch, WorkersHoldCommands
<1>2. target'[c] = j /\ Unanswered(c)'
  BY <1>1, AppendTyped DEF Unanswered
<1>3. ASSUME NEW i \in Jobs \ {j}, NEW d \in Commands,
             target[d] = i, Unanswered(d)
      PROVE  target'[d] = i /\ Unanswered(d)'
  <2>1. d # c
    BY <1>3, AppendTyped DEF Unanswered
  <2> QED BY <1>3, <2>1, AppendTyped DEF Unanswered
<1> QED BY <1>2, <1>3 DEF QueuedHasCommand

\* The transport answers no command but those a handler acknowledges.
LEMMA DeliverKeepsCommands ==
  ASSUME TypeOK, Dispatch, QueuedHasCommand, Deliver
  PROVE  QueuedHasCommand'
<1>1. UNCHANGED <<job, target>>
  BY DEF Deliver, Relay, ExpireDelivery, Fetch, Acknowledge, Reject, Crash, rows,
         queue
<1> SUFFICES ASSUME NEW d \in Commands, Unanswered(d)
             PROVE  Unanswered(d)'
  BY <1>1, CommandsKept
<1> USE DEF TypeOK, Unanswered
<1>2. ASSUME NEW c \in Commands, Relay(c) PROVE Unanswered(d)'
  BY <1>2 DEF Relay
<1>3. ASSUME NEW c \in Commands, Redeliver(c)
      PROVE  stage'[d] \in {"outbox", "ready", "active", "dead"}
  BY <1>3 DEF Redeliver
<1>4. ASSUME NEW c \in Commands, ExpireDelivery(c) PROVE Unanswered(d)'
  <2>1. \A w \in Workers : /\ worker'[w].pc = worker[w].pc
                           /\ worker'[w].command = worker[w].command
    BY <1>4 DEF ExpireDelivery, WorkerStates
  <2> QED BY <1>3, <1>4, <2>1 DEF ExpireDelivery
<1>5. ASSUME NEW w \in Workers, NEW c \in Commands, Fetch(w, c)
      PROVE  Unanswered(d)'
  BY <1>5 DEF Fetch, Idle
<1>6. ASSUME NEW w \in Workers, worker' = [worker EXCEPT ![w] = Idle],
             stage'[d] \in {"outbox", "ready", "active", "dead"}
      PROVE  Unanswered(d)'
  BY <1>6 DEF Idle
<1>7. ASSUME NEW w \in Workers, Acknowledge(w) PROVE Unanswered(d)'
  <2>1. worker[w].command # d
    BY <1>7 DEF Acknowledge
  <2> QED BY <1>6, <1>7, <2>1 DEF Acknowledge
<1>8. ASSUME NEW w \in Workers, Reject(w) PROVE Unanswered(d)'
  <2>1. worker[w].command \in Commands
    BY <1>8 DEF Reject, Dispatch, WorkersHoldCommands
  <2> QED BY <1>3, <1>6, <1>8, <2>1 DEF Reject
<1>9. ASSUME NEW w \in Workers, Crash(w) PROVE Unanswered(d)'
  BY <1>6, <1>9 DEF Crash, queue
<1> QED BY <1>2, <1>4, <1>5, <1>7, <1>8, <1>9 DEF Deliver

\* A handler is about to acknowledge only a command whose job is not queued.
LEMMA ExecuteKeepsCommands ==
  ASSUME TypeOK, Dispatch, Decisions, QueuedHasCommand,
         NEW w \in Workers, Execute(w)
  PROVE  QueuedHasCommand'
<1>1. UNCHANGED <<stage, target>>
  BY DEF Execute, ClaimQueued, ClaimNothing, ClaimThrows, Complete,
         CompleteAnswerLost, AnalysisThrows, Fail, FailThrows, rows, queue
<1>2. worker[w].pc # "idle" /\ JobOf(w) \in Jobs
  BY BusyWorkerHasJob
     DEF Execute, ClaimQueued, ClaimNothing, ClaimThrows, Complete,
         CompleteAnswerLost, AnalysisThrows, Fail, FailThrows
<1>3. ASSUME NEW pc \in {"running", "failing", "nacking"}, worker'[w].pc = pc,
             \A v \in Workers \ {w} : worker'[v] = worker[v],
             worker'[w].command = worker[w].command,
             \A j \in Jobs : job'[j] = "queued" => job[j] = "queued"
      PROVE  QueuedHasCommand'
  BY <1>1, <1>3, CommandsKept DEF Unanswered
<1>4. ASSUME Goto(w, "acking"), job'[JobOf(w)] # "queued",
             \A j \in Jobs : job'[j] = "queued" => job[j] = "queued"
      PROVE  QueuedHasCommand'
  <2>1. /\ worker'[w].command = worker[w].command
        /\ \A v \in Workers \ {w} : worker'[v] = worker[v]
    BY <1>4 DEF Goto, TypeOK, WorkerStates
  <2>2. ASSUME NEW j \in Jobs, NEW c \in Commands,
               job'[j] = "queued", target[c] = j, Unanswered(c)
        PROVE  target'[c] = j /\ Unanswered(c)'
    <3>1. c # worker[w].command
      BY <1>4, <2>2 DEF JobOf
    <3> QED BY <1>1, <2>1, <2>2, <3>1 DEF Unanswered
  <2> QED BY <1>4, <2>2, CommandsKept
<1>5. ASSUME NEW pc \in {"failing", "nacking"}, Goto(w, pc),
             \A j \in Jobs : job'[j] = "queued" => job[j] = "queued"
      PROVE  QueuedHasCommand'
  BY <1>3, <1>5 DEF Goto, TypeOK, WorkerStates
<1>6. ASSUME NEW n \in Ordinals, ClaimQueued(w, n) PROVE QueuedHasCommand'
  BY <1>2, <1>3, <1>6 DEF ClaimQueued, TypeOK, WorkerStates
<1>7. CASE ClaimNothing(w)
  BY <1>2, <1>4, <1>7 DEF ClaimNothing, Decisions, DecidedByOneAttempt, rows
<1>8. CASE Complete(w)
  BY <1>2, <1>4, <1>8 DEF Complete, CompletionCommitted, TypeOK
<1>9. CASE CompleteAnswerLost(w)
  BY <1>2, <1>5, <1>9 DEF CompleteAnswerLost, CompletionCommitted, TypeOK
<1>10. CASE ClaimThrows(w) \/ AnalysisThrows(w) \/ FailThrows(w)
  BY <1>5, <1>10 DEF ClaimThrows, AnalysisThrows, FailThrows, rows
<1>11. CASE Fail(w)
  BY <1>2, <1>5, <1>11 DEF Fail, Outcomes, TypeOK
<1> QED BY <1>6, <1>7, <1>8, <1>9, <1>10, <1>11 DEF Execute

\* Every step keeps a command for every queued job.
LEMMA NextKeepsCommands ==
  ASSUME TypeOK, Dispatch, Decisions, QueuedHasCommand, [Next]_vars
  PROVE  QueuedHasCommand'
<1> USE DEF rows, queue
<1>1. ASSUME UNCHANGED <<job, queue, worker>> PROVE QueuedHasCommand'
  BY <1>1, CommandsKept DEF Unanswered
<1>2. CASE UNCHANGED vars
  BY <1>1, <1>2 DEF vars
<1>3. ASSUME NEW j \in Jobs, Operate(j) PROVE QueuedHasCommand'
  <2> USE DEF TypeOK
  <2>1. CASE CancelOperationalJob(j)
    BY <2>1, CommandsKept DEF CancelOperationalJob, Unanswered
  <2>2. CASE RecoverTooEarly(j)
    BY <1>1, <2>2 DEF RecoverTooEarly
  <2>3. ASSUME NEW c \in Commands, RequestAnalysis(j, c) PROVE QueuedHasCommand'
    BY <2>3, CommandAppended DEF RequestAnalysis
  <2>4. ASSUME NEW c \in Commands, RecoverExpiredJob(j, c) PROVE QueuedHasCommand'
    BY <2>4, CommandAppended DEF RecoverExpiredJob
  <2>5. ASSUME NEW c \in Commands, NEW r \in Jobs, RetryDeadLetter(j, r, c)
        PROVE  QueuedHasCommand'
    BY <2>5, CommandAppended DEF RetryDeadLetter
  <2> QED BY <1>3, <2>1, <2>2, <2>3, <2>4, <2>5 DEF Operate
<1>4. ASSUME NEW j \in Jobs, LeasesExpire(j) PROVE QueuedHasCommand'
  BY <1>1, <1>4 DEF LeasesExpire, RecoveryLeaseExpires, AttemptLeaseExpires
<1> QED BY <1>2, <1>3, <1>4, DeliverKeepsCommands, ExecuteKeepsCommands DEF Next

-----------------------------------------------------------------------------
(* The theorems *)

\* The inductive invariant holds initially and every step keeps it.
LEMMA Invariance == Spec => []IInv
<1>1. Init => IInv
  <2>1. Init => Decisions
    BY MarkerAssumption
       DEF Init, Decisions, OneActiveAttempt, RunningAttempt, DecidedByOneAttempt,
           DeadLetterRetryable
  <2>2. Init => QueuedHasCommand
    BY DEF Init, QueuedHasCommand
  <2> QED BY <2>1, <2>2, InitTyped DEF IInv
<1>2. IInv /\ [Next]_vars => IInv'
  BY NextTyped, NextDecides, NextKeepsCommands DEF IInv
<1> QED BY <1>1, <1>2, PTL DEF Spec

\* Every variable keeps its type: in particular pg-boss's retry counter stays
\* within its limit and no attempt gets an ordinal outside the bound.
THEOREM TypeCorrect == Spec => []TypeOK
<1>1. IInv => TypeOK
  BY DEF IInv
<1> QED BY <1>1, Invariance, PTL

\* However deliveries are duplicated and leases expire, claim and
\* recoverExpiredJob never let two attempts of one job run.
THEOREM AttemptsExclusive == Spec => []OneActiveAttempt
<1>1. IInv => OneActiveAttempt
  BY DEF IInv, Decisions
<1> QED BY <1>1, Invariance, PTL

\* complete() decides a job at most once, and its rows agree on the attempt.
THEOREM CompletionDecidedOnce == Spec => []DecidedByOneAttempt
<1>1. IInv => DecidedByOneAttempt
  BY DEF IInv, Decisions
<1> QED BY <1>1, Invariance, PTL

\* No failed job is out of reach of retryDeadLetter.
THEOREM FailedJobsRetryable == Spec => []DeadLetterRetryable
<1>1. IInv => DeadLetterRetryable
  BY DEF IInv, Decisions
<1> QED BY <1>1, Invariance, PTL

\* No acknowledgement, however late, takes away the last command of a queued job.
THEOREM QueuedJobsKeepCommand == Spec => []QueuedHasCommand
<1>1. IInv => QueuedHasCommand
  BY DEF IInv
<1> QED BY <1>1, Invariance, PTL

\* A consumer that has lost its attempt changes no row of the job.
THEOREM FencedConsumersInert == Spec => FencedConsumerIsInert
<1> DEFINE Inert(w, j, n) == /\ Holds(w, j, n)
                             /\ attempt[j][n] # "running"
                             /\ worker'[w].pc # worker[w].pc
                             => UNCHANGED rows
<1>1. ASSUME TypeOK, [Next]_vars,
             NEW w \in Workers, NEW j \in Jobs, NEW n \in Ordinals
      PROVE  Inert(w, j, n)
  <2>1. CASE UNCHANGED vars
    BY <2>1 DEF vars
  <2>2. CASE Deliver
    BY <2>2 DEF Deliver, Relay, ExpireDelivery, Fetch, Acknowledge, Reject, Crash
  <2>3. ASSUME NEW i \in Jobs, Operate(i) \/ LeasesExpire(i)
        PROVE  worker' = worker
    BY <2>3 DEF Operate, CancelOperationalJob, RecoverTooEarly, RequestAnalysis,
                RecoverExpiredJob, RetryDeadLetter, LeasesExpire,
                RecoveryLeaseExpires, AttemptLeaseExpires
  <2>4. ASSUME NEW v \in Workers \ {w}, Execute(v)
        PROVE  worker'[w] = worker[w]
    BY <1>1, <2>4
       DEF Execute, ClaimQueued, ClaimNothing, ClaimThrows, Complete,
           CompleteAnswerLost, AnalysisThrows, Fail, FailThrows, Goto, TypeOK
  <2>5. CASE Execute(w)
    BY <2>5 DEF Execute, ClaimQueued, ClaimNothing, ClaimThrows, Complete,
                CompleteAnswerLost, CompletionCommitted, AnalysisThrows, Fail,
                FailThrows, Holds, rows
  <2> QED BY <1>1, <2>1, <2>2, <2>3, <2>4, <2>5 DEF Next
<1>2. IInv /\ [Next]_vars =>
        [\A w \in Workers, j \in Jobs, n \in Ordinals : Inert(w, j, n)]_vars
  BY <1>1 DEF IInv
<1> QED BY <1>2, Invariance, PTL DEF Spec, FencedConsumerIsInert

-----------------------------------------------------------------------------
(***************************************************************************)
(* AnalysisJobs implements AnalysisLifecycle.  A step of the rows concerns *)
(* one job: its state, the number of attempts it has had, the attempt at   *)
(* work and the winner are those of one step of the domain's state         *)
(* machine, or stay as they are.                                           *)
(***************************************************************************)

\* What ImplementsLifecycle maps started and active to.
StartedOf(j) == Cardinality({n \in Ordinals : attempt[j][n] # "none"})

ActiveOf(j) == IF \E n \in Ordinals : attempt[j][n] = "running"
               THEN CHOOSE n \in Ordinals : attempt[j][n] = "running"
               ELSE NoAttempt

Started == [j \in Jobs |-> StartedOf(j)]
Active  == [j \in Jobs |-> ActiveOf(j)]

-----------------------------------------------------------------------------
(* The mapped state of one job *)

\* The attempt at work is the running one.
LEMMA ActiveIsRunning ==
  ASSUME OneActiveAttempt, NEW j \in Jobs, NEW n \in Ordinals,
         attempt[j][n] = "running"
  PROVE  ActiveOf(j) = n
<1>1. \A m \in Ordinals : attempt[j][m] = "running" => m = n
  BY RunningIsUnique
<1> QED BY <1>1 DEF ActiveOf

\* The next ordinal is the number of attempts so far.
LEMMA NextOrdinalCounts ==
  ASSUME NEW f, NEW n \in Ordinals,
         \A m \in Ordinals : m < n <=> f[m] # "none"
  PROVE  Cardinality({m \in Ordinals : f[m] # "none"}) = n
<1>1. {m \in Ordinals : f[m] # "none"} = 0 .. n - 1
  BY CountAssumption DEF Ordinals
<1>2. Cardinality(0 .. n - 1) = n
  BY FS_Interval, CountAssumption DEF Ordinals
<1> QED BY <1>1, <1>2

\* A step that leaves the attempts of a job leaves what they are mapped to.
LEMMA SameAttempts ==
  ASSUME NEW j \in Jobs, attempt'[j] = attempt[j]
  PROVE  StartedOf(j)' = StartedOf(j) /\ ActiveOf(j)' = ActiveOf(j)
  BY DEF StartedOf, ActiveOf

\* A step that touches the attempts of one job changes the map at that job only.
LEMMA OneJobMoves ==
  ASSUME NEW j \in Jobs, \A i \in Jobs \ {j} : attempt'[i] = attempt[i]
  PROVE  /\ Started' = [Started EXCEPT ![j] = StartedOf(j)']
         /\ Active'  = [Active  EXCEPT ![j] = ActiveOf(j)']
<1>1. \A i \in Jobs \ {j} : StartedOf(i)' = StartedOf(i) /\ ActiveOf(i)' = ActiveOf(i)
  BY SameAttempts
<1>2. Started' = [i \in Jobs |-> StartedOf(i)'] /\ Active' = [i \in Jobs |-> ActiveOf(i)']
  BY DEF Started, Active
<1> HIDE DEF StartedOf, ActiveOf
<1> QED BY <1>1, <1>2 DEF Started, Active

\* A step that starts no attempt of a job and leaves none of its attempts running.
LEMMA AttemptEnds ==
  ASSUME NEW j \in Jobs,
         \A i \in Jobs \ {j} : attempt'[i] = attempt[i],
         \A m \in Ordinals : attempt'[j][m] = "none" <=> attempt[j][m] = "none",
         \A m \in Ordinals : attempt'[j][m] # "running"
  PROVE  /\ Started' = Started
         /\ Active'  = [Active EXCEPT ![j] = NoAttempt]
<1>1. StartedOf(j)' = StartedOf(j)
  <2>1. {n \in Ordinals : attempt[j][n] # "none"}' =
        {n \in Ordinals : attempt[j][n] # "none"}
    BY DEF Ordinals
  <2> QED BY <2>1 DEF StartedOf
<1>2. ActiveOf(j)' = NoAttempt
  BY DEF ActiveOf, Ordinals
<1>3. Started' = [Started EXCEPT ![j] = StartedOf(j)]
  BY <1>1, OneJobMoves
<1>4. [Started EXCEPT ![j] = StartedOf(j)] = Started
  BY DEF Started
<1> QED BY <1>2, <1>3, <1>4, OneJobMoves

-----------------------------------------------------------------------------
(* The initial states *)

LEMMA MappedInit == Init => Lifecycle!Init
<1> SUFFICES ASSUME Init PROVE Lifecycle!Init
  OBVIOUS
<1>1. \A j \in Jobs : {n \in Ordinals : attempt[j][n] # "none"} = {}
  BY DEF Init
<1>2. \A j \in Jobs : StartedOf(j) = 0
  BY <1>1, FS_EmptySet DEF StartedOf
<1>3. \A j \in Jobs : ActiveOf(j) = NoAttempt
  BY DEF Init, ActiveOf
<1>4. Started = [j \in Jobs |-> 0] /\ Active = [j \in Jobs |-> NoAttempt]
  BY <1>2, <1>3 DEF Started, Active
<1>5. job = [j \in Jobs |-> "absent"] /\ result = [j \in Jobs |-> NoAttempt]
  BY DEF Init
<1> QED BY <1>4, <1>5 DEF Lifecycle!Init, Started, StartedOf, Active, ActiveOf

-----------------------------------------------------------------------------
(* Each step of the rows is a step of AnalysisLifecycle *)

\* A step that leaves the attempts of every job.
LEMMA AttemptsUnchanged ==
  ASSUME attempt' = attempt PROVE Started' = Started /\ Active' = Active
  BY SameAttempts DEF Started, Active

\* Steps that touch none of the mapped rows.
LEMMA RowsUnchanged ==
  ASSUME UNCHANGED <<job, attempt, result>>
  PROVE  UNCHANGED Lifecycle!vars
  BY AttemptsUnchanged
     DEF Lifecycle!vars, Started, StartedOf, Active, ActiveOf

\* requestAnalysis, and the replacement of a dead letter.
LEMMA RequestQueues ==
  ASSUME NEW j \in Jobs, job[j] = "absent",
         job' = [job EXCEPT ![j] = "queued"], UNCHANGED <<attempt, result>>
  PROVE  Lifecycle!Queue(j)
  BY AttemptsUnchanged
     DEF Lifecycle!Queue, Started, StartedOf, Active, ActiveOf

\* claim starts the attempt whose ordinal is the number of attempts so far.
LEMMA ClaimStarts ==
  ASSUME IInv, NEW w \in Workers, NEW n \in Ordinals, ClaimQueued(w, n),
         NEW j \in Jobs, JobOf(w) = j
  PROVE  Lifecycle!Start(j)
<1>1. /\ job[j] = "queued" /\ job' = [job EXCEPT ![j] = "running"]
      /\ attempt' = [attempt EXCEPT ![j][n] = "running"]
      /\ NextOrdinal(j, n) /\ UNCHANGED result
  BY DEF ClaimQueued
<1>2. \A m \in Ordinals : m < n <=> attempt[j][m] # "none"
  BY <1>1, CountAssumption DEF NextOrdinal, Ordinals
<1>3. /\ \A i \in Jobs \ {j} : attempt'[i] = attempt[i]
      /\ \A m \in Ordinals :
           attempt'[j][m] = IF m = n THEN "running" ELSE attempt[j][m]
  BY <1>1 DEF IInv, TypeOK
<1>4. StartedOf(j) = n
  BY <1>2, NextOrdinalCounts DEF StartedOf
<1>5. StartedOf(j)' = n + 1
  <2> DEFINE S == {m \in Ordinals : attempt[j][m] # "none"}
  <2>1. {m \in Ordinals : attempt'[j][m] # "none"} = S \union {n}
    BY <1>3
  <2>2. S \in SUBSET Ordinals /\ n \notin S
    BY <1>2, CountAssumption DEF Ordinals
  <2>3. IsFiniteSet(Ordinals)
    BY FS_Interval, CountAssumption DEF Ordinals
  <2>4. Cardinality(S) = n
    BY <1>4 DEF StartedOf
  <2> HIDE DEF S
  <2>5. IsFiniteSet(S)
    BY <2>2, <2>3, FS_Subset
  <2>6. Cardinality(S \union {n}) = n + 1
    BY <2>2, <2>4, <2>5, FS_AddElement
  <2> QED BY <2>1, <2>6 DEF StartedOf
<1>6. ActiveOf(j)' = n
  <2>1. \A m \in Ordinals : attempt[j][m] # "running"
    BY <1>1 DEF IInv, Decisions, OneActiveAttempt
  <2>2. /\ attempt'[j][n] = "running"
        /\ \A m \in Ordinals : attempt'[j][m] = "running" => m = n
    BY <1>3, <2>1
  <2> QED BY <2>2 DEF ActiveOf, Ordinals
<1>7. Started' = [Started EXCEPT ![j] = n + 1] /\ Active' = [Active EXCEPT ![j] = n]
  BY <1>3, <1>5, <1>6, OneJobMoves
<1>8. Started[j] = n
  BY <1>4 DEF Started
<1>9. n < MaxAttempts
  BY CountAssumption DEF Ordinals
<1> QED BY <1>1, <1>7, <1>8, <1>9
           DEF Lifecycle!Start, Started, StartedOf, Active, ActiveOf

\* complete decides the job by the attempt at work.
LEMMA CompleteFinishes ==
  ASSUME IInv, NEW j \in Jobs, NEW n \in Ordinals, CompletionCommitted(j, n)
  PROVE  Lifecycle!Finish(j, "completed")
<1>1. /\ job[j] = "running" /\ job' = [job EXCEPT ![j] = "completed"]
      /\ attempt[j][n] = "running"
      /\ attempt' = [attempt EXCEPT ![j][n] = "succeeded"]
      /\ result' = [result EXCEPT ![j] = n]
  BY DEF CompletionCommitted
<1>2. OneActiveAttempt /\ TypeOK
  BY DEF IInv, Decisions
<1>3. Active[j] = n
  BY <1>1, <1>2, ActiveIsRunning DEF Active
<1>4. Started' = Started /\ Active' = [Active EXCEPT ![j] = NoAttempt]
  <2>1. \A m \in Ordinals : attempt[j][m] = "running" => m = n
    BY <1>1, <1>2, RunningIsUnique
  <2>2. /\ \A i \in Jobs \ {j} : attempt'[i] = attempt[i]
        /\ \A m \in Ordinals :
             attempt'[j][m] = IF m = n THEN "succeeded" ELSE attempt[j][m]
    BY <1>1, <1>2 DEF TypeOK
  <2> QED BY <1>1, <2>1, <2>2, AttemptEnds
<1> QED BY <1>1, <1>3, <1>4
           DEF Lifecycle!Finish, Started, StartedOf, Active, ActiveOf

\* fail ends the job with its attempt, or finds the attempt ended and does nothing.
LEMMA FailFinishes ==
  ASSUME IInv, NEW w \in Workers, Fail(w)
  PROVE  Lifecycle!Next \/ UNCHANGED Lifecycle!vars
<1>1. PICK j \in Jobs, n \in Ordinals : JobOf(w) = j /\ worker[w].ordinal = n
  BY BusyWorkerHasJob DEF Fail, IInv, Dispatch, WorkersHoldCommands
<1>2. OneActiveAttempt /\ TypeOK
  BY DEF IInv, Decisions
<1>3. CASE attempt[j][n] # "running"
  <2>1. UNCHANGED <<job, attempt, result>>
    BY <1>1, <1>3 DEF Fail
  <2>2. UNCHANGED Lifecycle!vars
    BY <2>1, RowsUnchanged
  <2> QED BY <2>2
<1>4. CASE attempt[j][n] = "running"
  <2>1. job[j] = "running"
    BY <1>1, <1>2, <1>4 DEF OneActiveAttempt
  <2>2. PICK outcome \in {"failed", "cancelled"} :
          /\ attempt' = [attempt EXCEPT ![j][n] = outcome]
          /\ job' = [job EXCEPT ![j] = outcome]
    BY <1>1, <1>4, <2>1 DEF Fail, Outcomes
  <2>3. result' = result
    BY DEF Fail
  <2>4. \A m \in Ordinals : attempt[j][m] = "running" => m = n
    BY <1>1, <1>2, <1>4, RunningIsUnique
  <2>5. /\ \A i \in Jobs \ {j} : attempt'[i] = attempt[i]
        /\ \A m \in Ordinals :
             attempt'[j][m] = IF m = n THEN outcome ELSE attempt[j][m]
    BY <1>1, <1>2, <2>2 DEF TypeOK
  <2>6. Started' = Started /\ Active' = [Active EXCEPT ![j] = NoAttempt]
    BY <1>1, <1>4, <2>4, <2>5, AttemptEnds
  <2>7. Lifecycle!Finish(j, outcome)
    BY <2>1, <2>2, <2>3, <2>6
       DEF Lifecycle!Finish, Started, StartedOf, Active, ActiveOf
  <2> QED BY <2>7 DEF Lifecycle!Next
<1> QED BY <1>3, <1>4

\* cancel ends the attempt at work, if there is one, with the job.
LEMMA CancelFinishes ==
  ASSUME IInv, NEW j \in Jobs, CancelOperationalJob(j)
  PROVE  Lifecycle!CancelQueued(j) \/ Lifecycle!Finish(j, "cancelled")
<1>1. /\ job[j] \in {"queued", "running"} /\ job' = [job EXCEPT ![j] = "cancelled"]
      /\ UNCHANGED result
  BY DEF CancelOperationalJob
<1>2. /\ \A i \in Jobs \ {j} : attempt'[i] = attempt[i]
      /\ \A m \in Ordinals :
           attempt'[j][m] = IF attempt[j][m] = "running"
                            THEN "cancelled" ELSE attempt[j][m]
  BY DEF CancelOperationalJob, IInv, TypeOK
<1>3. Started' = Started /\ Active' = [Active EXCEPT ![j] = NoAttempt]
  BY <1>2, AttemptEnds
<1>4. CASE job[j] = "running"
  BY <1>1, <1>3, <1>4 DEF Lifecycle!Finish, Started, StartedOf, Active, ActiveOf
<1>5. CASE job[j] = "queued"
  <2>1. \A m \in Ordinals : attempt[j][m] # "running"
    BY <1>5 DEF IInv, Decisions, OneActiveAttempt
  <2>2. Active[j] = NoAttempt
    BY <2>1 DEF Active, ActiveOf
  <2>3. Active' = Active
    BY <1>3, <2>2 DEF Active
  <2> QED BY <1>1, <1>3, <1>5, <2>3
             DEF Lifecycle!CancelQueued, Started, StartedOf, Active, ActiveOf
<1> QED BY <1>1, <1>4, <1>5

\* recoverExpiredJob fails the lapsed attempt, the only one at work, and queues.
LEMMA RecoverRecovers ==
  ASSUME IInv, NEW j \in Jobs, NEW c \in Commands, RecoverExpiredJob(j, c)
  PROVE  Lifecycle!Recover(j)
<1>1. /\ job[j] = "running" /\ job' = [job EXCEPT ![j] = "queued"]
      /\ Recoverable(j) # {} /\ UNCHANGED result
  BY DEF RecoverExpiredJob
<1>2. /\ \A i \in Jobs \ {j} : attempt'[i] = attempt[i]
      /\ \A m \in Ordinals :
           attempt'[j][m] = IF m \in Recoverable(j) THEN "failed" ELSE attempt[j][m]
  BY DEF RecoverExpiredJob, IInv, TypeOK
<1>3. PICK n \in Ordinals : n \in Recoverable(j) /\ attempt[j][n] = "running"
  BY <1>1 DEF Recoverable
<1>4. \A m \in Ordinals : attempt[j][m] = "running" => m = n
  BY <1>3, RunningIsUnique DEF IInv, Decisions
<1>5. \A m \in Recoverable(j) : attempt[j][m] = "running"
  BY DEF Recoverable
<1>6. Started' = Started /\ Active' = [Active EXCEPT ![j] = NoAttempt]
  BY <1>2, <1>3, <1>4, <1>5, AttemptEnds
<1> QED BY <1>1, <1>6 DEF Lifecycle!Recover, Started, StartedOf, Active, ActiveOf

LEMMA EveryStepMaps ==
  ASSUME IInv, [Next]_vars
  PROVE  Lifecycle!Next \/ UNCHANGED Lifecycle!vars
<1>1. CASE UNCHANGED vars
  BY <1>1, RowsUnchanged DEF vars, rows
<1>2. CASE Deliver
  BY <1>2, RowsUnchanged
     DEF Deliver, Relay, ExpireDelivery, Fetch, Acknowledge, Reject, Crash, rows
<1>3. ASSUME NEW w \in Workers, Execute(w)
      PROVE  Lifecycle!Next \/ UNCHANGED Lifecycle!vars
  <2>1. ASSUME NEW n \in Ordinals, ClaimQueued(w, n) PROVE Lifecycle!Next
    <3>1. PICK j \in Jobs : JobOf(w) = j
      BY <2>1, BusyWorkerHasJob DEF IInv, ClaimQueued
    <3>2. Lifecycle!Start(j)
      BY <2>1, <3>1, ClaimStarts
    <3> QED BY <3>2 DEF Lifecycle!Next
  <2>2. CASE Complete(w) \/ CompleteAnswerLost(w)
    <3>1. PICK j \in Jobs, n \in Ordinals : JobOf(w) = j /\ worker[w].ordinal = n
      BY <2>2, BusyWorkerHasJob
         DEF IInv, Dispatch, WorkersHoldCommands, Complete, CompleteAnswerLost
    <3>2. CompletionCommitted(j, n)
      BY <2>2, <3>1 DEF Complete, CompleteAnswerLost
    <3>3. Lifecycle!Finish(j, "completed")
      BY <3>2, CompleteFinishes
    <3> QED BY <3>3 DEF Lifecycle!Next
  <2>3. CASE ClaimNothing(w) \/ ClaimThrows(w) \/ AnalysisThrows(w) \/ FailThrows(w)
    BY <2>3, RowsUnchanged
       DEF ClaimNothing, ClaimThrows, AnalysisThrows, FailThrows, rows
  <2> QED BY <1>3, <2>1, <2>2, <2>3, FailFinishes DEF Execute
<1>4. ASSUME NEW j \in Jobs, Operate(j)
      PROVE  Lifecycle!Next \/ UNCHANGED Lifecycle!vars
  <2>1. CASE CancelOperationalJob(j)
    BY <2>1, CancelFinishes DEF Lifecycle!Next
  <2>2. CASE RecoverTooEarly(j)
    BY <2>2, RowsUnchanged DEF RecoverTooEarly, rows
  <2>3. ASSUME NEW c \in Commands, RequestAnalysis(j, c) PROVE Lifecycle!Next
    BY <2>3, RequestQueues DEF RequestAnalysis, Lifecycle!Next
  <2>4. ASSUME NEW c \in Commands, RecoverExpiredJob(j, c) PROVE Lifecycle!Next
    BY <2>4, RecoverRecovers DEF Lifecycle!Next
  <2>5. ASSUME NEW c \in Commands, NEW r \in Jobs, RetryDeadLetter(j, r, c)
        PROVE  Lifecycle!Next
    BY <2>5, RequestQueues DEF RetryDeadLetter, Lifecycle!Next
  <2> QED BY <1>4, <2>1, <2>2, <2>3, <2>4, <2>5 DEF Operate
<1>5. ASSUME NEW j \in Jobs, LeasesExpire(j) PROVE UNCHANGED Lifecycle!vars
  BY <1>5, RowsUnchanged
     DEF LeasesExpire, RecoveryLeaseExpires, AttemptLeaseExpires, rows
<1> QED BY <1>1, <1>2, <1>3, <1>4, <1>5 DEF Next

\* The SQL of claim, complete, fail, cancel, recover and retry does to each job what
\* the state machine of packages/domain/src/analysis.ts allows, and nothing else.
THEOREM JobsImplementLifecycle == Spec => ImplementsLifecycle
<1>1. IInv /\ [Next]_vars => [Lifecycle!Next]_(Lifecycle!vars)
  BY EveryStepMaps
<1> QED BY <1>1, MappedInit, Invariance, PTL
           DEF Spec, ImplementsLifecycle, Lifecycle!Spec
=============================================================================
