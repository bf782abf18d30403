---------------------------- MODULE AnalysisJobs ----------------------------
(***************************************************************************)
(* The life of analysis jobs: the durable job, attempt and result rows,    *)
(* the analysis.execute.v1 commands that travel from the outbox through    *)
(* pg-boss to the workers, and the operator's cancel, recover and retry.   *)
(*                                                                         *)
(* Every store method is one PostgreSQL transaction that holds the job row *)
(* (FOR UPDATE) or the attempt row while it decides, so it is one action.  *)
(* What is not atomic is everything between the transactions: fetching,    *)
(* claiming, running, completing, recording a failure, acknowledging.  A   *)
(* worker may crash or outlive its delivery and its lease at each of these *)
(* points.                                                                 *)
(*                                                                         *)
(* Time is abstract: the 15 minute attempt lease, the 60 second recovery   *)
(* lease and the 900 second delivery expiry run out at any moment.  The    *)
(* relay's own protocol is in OutboxRelay; here it is one step.            *)
(***************************************************************************)
EXTENDS Integers, FiniteSets

CONSTANTS
  Jobs,         \* ids of analysis jobs, replacements included
  Requested,    \* BOUND: the jobs that a request may create
  Commands,     \* ids of analysis.execute.v1 envelopes
  Workers,      \* handlers in flight over all worker processes
  MaxAttempts,  \* BOUND: attempts of one job
  RetryLimit,   \* pg-boss retryLimit: redeliveries of one command
  MaxFaults,    \* BOUND: faults (crash, early expiry, failing transaction)
  MaxTroubles,  \* BOUND: jobs and faults together
  NoJob, NoCommand, NoAttempt

Ordinals == 0 .. MaxAttempts - 1

ASSUME CountAssumption ==
  /\ MaxAttempts \in Nat \ {0}
  /\ RetryLimit \in Nat
  /\ MaxFaults \in Nat /\ MaxTroubles \in Nat

ASSUME MarkerAssumption ==
  /\ NoJob \notin Jobs
  /\ NoCommand \notin Commands
  /\ NoAttempt \notin Ordinals

VARIABLES
  job,       \* job[j]: analysis_jobs.state, "absent" before the row exists
  attempt,   \* attempt[j][n]: analysis_attempts.state of ordinal n, or "none"
  lapsed,    \* <<j, n>>: lease_expires_at of that attempt has passed
  result,    \* result[j]: the ordinal whose result row is stored
  completed, \* <<j, n>>: analysis.completed.v1 appended for that result
  recovery,  \* recovery[j]: the 'analysis-recovery' resource lease
  stage,     \* stage[c]: where the command is
  target,    \* target[c]: payload.analysisJobId
  retries,   \* retries[c]: redeliveries pg-boss has used up
  worker,    \* worker[w]: what the consumer is doing
  faults     \* faults so far, up to MaxFaults

rows     == <<job, attempt, lapsed, result, completed>>
queue    == <<stage, target, retries>>
vars     == <<rows, recovery, queue, worker, faults>>

Terminal      == {"completed", "failed", "cancelled"}
JobStates     == {"absent", "queued", "running"} \union Terminal
AttemptStates == {"none", "running", "succeeded", "failed", "cancelled"}
Stages        == {"unused", "outbox", "ready", "active", "done", "dead"}

Idle == [pc |-> "idle", command |-> NoCommand,
         ordinal |-> NoAttempt, expired |-> FALSE]

WorkerStates ==
  [pc : {"idle", "claiming", "running", "failing", "acking", "nacking"},
   command : Commands \union {NoCommand},
   ordinal : Ordinals \union {NoAttempt},
   expired : BOOLEAN]

Init ==
  /\ job       = [j \in Jobs |-> "absent"]
  /\ attempt   = [j \in Jobs |-> [n \in Ordinals |-> "none"]]
  /\ lapsed    = {}
  /\ result    = [j \in Jobs |-> NoAttempt]
  /\ completed = {}
  /\ recovery  = [j \in Jobs |-> "free"]
  /\ stage     = [c \in Commands |-> "unused"]
  /\ target    = [c \in Commands |-> NoJob]
  /\ retries   = [c \in Commands |-> 0]
  /\ worker    = [w \in Workers |-> Idle]
  /\ faults    = 0

-----------------------------------------------------------------------------
(* Helpers *)

\* Either more jobs or more faults: a command for each of them is enough.
Room == Cardinality({j \in Jobs : job[j] # "absent"}) + faults < MaxTroubles

\* A fault is taken from the bounded budget.
Fault == faults < MaxFaults /\ Room /\ faults' = faults + 1

\* The worker moves on within the same delivery.
Goto(w, pc) == worker' = [worker EXCEPT ![w].pc = pc]

JobOf(w) == target[worker[w].command]

\* The consumer w still has attempt n of job j in its hands.
Holds(w, j, n) ==
  /\ worker[w].pc \in {"running", "failing"}
  /\ JobOf(w) = j
  /\ worker[w].ordinal = n

\* COALESCE(MAX(attempt_ordinal), -1) + 1: rows are never deleted.
NextOrdinal(j, n) ==
  /\ \A m \in Ordinals : m >= n => attempt[j][m] = "none"
  /\ \A m \in Ordinals : m < n => attempt[j][m] # "none"

AppendCommand(c, j) ==
  /\ stage[c] = "unused"
  /\ stage'  = [stage EXCEPT ![c] = "outbox"]
  /\ target' = [target EXCEPT ![c] = j]
  /\ UNCHANGED retries

\* Mutant of Redeliver: one redelivery too many.
RedeliverOnceMore(c) ==
  IF retries[c] <= RetryLimit
  THEN /\ stage'   = [stage EXCEPT ![c] = "ready"]
       /\ retries' = [retries EXCEPT ![c] = @ + 1]
  ELSE stage' = [stage EXCEPT ![c] = "dead"] /\ UNCHANGED retries

\* pg-boss fails a delivery: it is retried until the limit, then dead.
Redeliver(c) ==
  IF retries[c] < RetryLimit
  THEN /\ stage'   = [stage EXCEPT ![c] = "ready"]
       /\ retries' = [retries EXCEPT ![c] = @ + 1]
  ELSE /\ stage'   = [stage EXCEPT ![c] = "dead"]
       /\ UNCHANGED retries

-----------------------------------------------------------------------------
(* Requests and transport *)

\* A new identity: job row and command row in one transaction.
RequestAnalysis(j, c) ==
  /\ job[j] = "absent" /\ j \in Requested /\ Room
  /\ job' = [job EXCEPT ![j] = "queued"]
  /\ AppendCommand(c, j)
  /\ UNCHANGED <<attempt, lapsed, result, completed, recovery, worker, faults>>

\* OutboxRelay hands the envelope to pg-boss (module OutboxRelay).
Relay(c) ==
  /\ stage[c] = "outbox"
  /\ stage' = [stage EXCEPT ![c] = "ready"]
  /\ UNCHANGED <<rows, recovery, target, retries, worker, faults>>

Fetch(w, c) ==
  /\ worker[w].pc = "idle"
  /\ stage[c] = "ready"
  /\ stage'  = [stage EXCEPT ![c] = "active"]
  /\ worker' = [worker EXCEPT ![w] = [Idle EXCEPT !.pc = "claiming",
                                                  !.command = c]]
  /\ UNCHANGED <<rows, recovery, target, retries, faults>>

\* The handler returned: pg-boss completes the delivery.  If that delivery has
\* expired meanwhile, pg-boss may ignore the late answer or apply it to the
\* delivery that is active now.
Acknowledge(w) ==
  /\ worker[w].pc = "acking"
  /\ LET c == worker[w].command IN
     \E counts \in (IF worker[w].expired THEN BOOLEAN ELSE {TRUE}) :
        stage' = IF counts /\ stage[c] = "active"
                 THEN [stage EXCEPT ![c] = "done"] ELSE stage
  /\ worker' = [worker EXCEPT ![w] = Idle]
  /\ UNCHANGED <<rows, recovery, target, retries, faults>>

\* The handler threw: pg-boss fails the delivery, unless it is over already.
Reject(w) ==
  /\ worker[w].pc = "nacking"
  /\ IF ~worker[w].expired /\ stage[worker[w].command] = "active"
     THEN Redeliver(worker[w].command)
     ELSE UNCHANGED <<stage, retries>>
  /\ worker' = [worker EXCEPT ![w] = Idle]
  /\ UNCHANGED <<rows, recovery, target, faults>>

\* The delivery runs out (900 s) or the queue is stopped; its consumer, if it
\* still lives, carries on with an aborted signal.
ExpireDelivery(c) ==
  LET alive == {w \in Workers : /\ worker[w].command = c
                                /\ ~worker[w].expired}
  IN /\ stage[c] = "active"
     /\ IF alive = {} THEN UNCHANGED faults ELSE Fault
     /\ Redeliver(c)
     /\ worker' = [w \in Workers |->
                     IF w \in alive
                     THEN [worker[w] EXCEPT !.expired = TRUE] ELSE worker[w]]
     /\ UNCHANGED <<rows, recovery, target>>

\* The worker process dies; nothing durable changes.
Crash(w) ==
  /\ worker[w].pc # "idle"
  /\ Fault
  /\ worker' = [worker EXCEPT ![w] = Idle]
  /\ UNCHANGED <<rows, recovery, queue>>

-----------------------------------------------------------------------------
(* Claim, complete, fail: one transaction each, the job row locked *)

\* Mutant of ClaimQueued: a running job is claimed again.
ClaimRunning(w, n) ==
  LET j == JobOf(w) IN
  /\ worker[w].pc = "claiming"
  /\ result[j] = NoAttempt
  /\ job[j] \in {"queued", "running"}
  /\ NextOrdinal(j, n)
  /\ job'     = [job EXCEPT ![j] = "running"]
  /\ attempt' = [attempt EXCEPT ![j][n] = "running"]
  /\ worker'  = [worker EXCEPT ![w].pc = "running", ![w].ordinal = n]
  /\ UNCHANGED <<lapsed, result, completed, recovery, queue, faults>>

ClaimQueued(w, n) ==
  LET j == JobOf(w) IN
  /\ worker[w].pc = "claiming"
  /\ result[j] = NoAttempt
  /\ job[j] = "queued"
  /\ NextOrdinal(j, n)
  /\ job'     = [job EXCEPT ![j] = "running"]
  /\ attempt' = [attempt EXCEPT ![j][n] = "running"]
  /\ worker'  = [worker EXCEPT ![w].pc = "running", ![w].ordinal = n]
  /\ UNCHANGED <<lapsed, result, completed, recovery, queue, faults>>

\* "completed", "alreadyRunning" or "notFound": the handler returns normally.
ClaimNothing(w) ==
  LET j == JobOf(w) IN
  /\ worker[w].pc = "claiming"
  /\ result[j] # NoAttempt \/ job[j] # "queued"
  /\ Goto(w, "acking")
  /\ UNCHANGED <<rows, recovery, queue, faults>>

\* The retained attachment preparation is unusable, the signal is aborted or the
\* transaction fails: rolled back, the handler throws.
ClaimThrows(w) ==
  /\ worker[w].pc = "claiming"
  /\ IF worker[w].expired THEN UNCHANGED faults ELSE Fault
  /\ Goto(w, "nacking")
  /\ UNCHANGED <<rows, recovery, queue>>

\* Mutant of CompletionCommitted: it forgets to check its own attempt.
CompletionUnfenced(j, n) ==
  /\ result[j] = NoAttempt
  /\ job[j] = "running"
  /\ result'    = [result EXCEPT ![j] = n]
  /\ attempt'   = [attempt EXCEPT ![j][n] = "succeeded"]
  /\ job'       = [job EXCEPT ![j] = "completed"]
  /\ completed' = completed \union {<<j, n>>}
  /\ UNCHANGED lapsed

\* The rows written by complete(): result, attempt, job, outbox event.
CompletionCommitted(j, n) ==
  /\ result[j] = NoAttempt
  /\ job[j] = "running"
  /\ attempt[j][n] = "running"
  /\ result'    = [result EXCEPT ![j] = n]
  /\ attempt'   = [attempt EXCEPT ![j][n] = "succeeded"]
  /\ job'       = [job EXCEPT ![j] = "completed"]
  /\ completed' = completed \union {<<j, n>>}
  /\ UNCHANGED lapsed

Complete(w) ==
  /\ worker[w].pc = "running"
  /\ CompletionCommitted(JobOf(w), worker[w].ordinal)
  /\ Goto(w, "acking")
  /\ UNCHANGED <<recovery, queue, faults>>

\* The commit succeeds and its answer is lost: complete() throws all the same.
CompleteAnswerLost(w) ==
  /\ worker[w].pc = "running"
  /\ CompletionCommitted(JobOf(w), worker[w].ordinal)
  /\ Goto(w, "failing")
  /\ Fault
  /\ UNCHANGED <<recovery, queue>>

\* A stage throws, the signal is aborted, or complete() throws and rolls back:
\* always possible, and all that complete() can do once it has lost the job.
AnalysisThrows(w) ==
  /\ worker[w].pc = "running"
  /\ Goto(w, "failing")
  /\ UNCHANGED <<rows, recovery, queue, faults>>

\* The outcomes runClaimed may ask fail() to record.
Outcomes(w) == IF worker[w].expired THEN {"failed", "cancelled"} ELSE {"failed"}

\* Mutant of Fail: the attempt is overwritten whatever its state.
FailOverwrites(w) ==
  LET j == JobOf(w)
      n == worker[w].ordinal
  IN /\ worker[w].pc = "failing"
     /\ attempt' = [attempt EXCEPT ![j][n] = "failed"]
     /\ job' = IF attempt[j][n] = "running" /\ job[j] = "running"
               THEN [job EXCEPT ![j] = "failed"] ELSE job
     /\ Goto(w, "nacking")
     /\ UNCHANGED <<lapsed, result, completed, recovery, queue, faults>>

\* Mutant of Fail: the job fails although the attempt is not its current one.
FailJobRegardless(w) ==
  LET j == JobOf(w)
      n == worker[w].ordinal
  IN /\ worker[w].pc = "failing"
     /\ attempt' = IF attempt[j][n] = "running"
                   THEN [attempt EXCEPT ![j][n] = "failed"] ELSE attempt
     /\ job' = IF job[j] = "running"
               THEN [job EXCEPT ![j] = "failed"] ELSE job
     /\ Goto(w, "nacking")
     /\ UNCHANGED <<lapsed, result, completed, recovery, queue, faults>>

\* fail() records the attempt, and the job if it is still running; the error is
\* then thrown again.
Fail(w) ==
  LET j == JobOf(w)
      n == worker[w].ordinal
  IN /\ worker[w].pc = "failing"
     /\ \E asked \in Outcomes(w) :
          LET outcome == IF job[j] = "cancelled" THEN "cancelled" ELSE asked
              current == attempt[j][n] = "running"
          IN /\ attempt' = IF current
                           THEN [attempt EXCEPT ![j][n] = outcome]
                           ELSE attempt
             /\ job' = IF current /\ job[j] = "running"
                       THEN [job EXCEPT ![j] = outcome] ELSE job
     /\ Goto(w, "nacking")
     /\ UNCHANGED <<lapsed, result, completed, recovery, queue, faults>>

FailThrows(w) ==
  /\ worker[w].pc = "failing"
  /\ Fault
  /\ Goto(w, "nacking")
  /\ UNCHANGED <<rows, recovery, queue>>

-----------------------------------------------------------------------------
(* Leases and the operator.  Each call carries a fresh idempotency key; a      *)
(* replayed key changes nothing.                                              *)

\* A live holder losing its lease is a fault; an orphan's lease just runs out.
AttemptLeaseExpires(j, n) ==
  /\ attempt[j][n] = "running"
  /\ <<j, n>> \notin lapsed
  /\ IF \E w \in Workers : Holds(w, j, n) THEN Fault ELSE UNCHANGED faults
  /\ lapsed' = lapsed \union {<<j, n>>}
  /\ UNCHANGED <<job, attempt, result, completed, recovery, queue, worker>>

\* Mutant of CancelOperationalJob: a terminal job is cancelled too.
CancelAnyJob(j) ==
  /\ job[j] # "absent"
  /\ attempt' = [attempt EXCEPT ![j] =
                   [n \in Ordinals |-> IF @[n] = "running"
                                       THEN "cancelled" ELSE @[n]]]
  /\ job' = [job EXCEPT ![j] = "cancelled"]
  /\ UNCHANGED <<lapsed, result, completed, recovery, queue, worker, faults>>

CancelOperationalJob(j) ==
  /\ job[j] \in {"queued", "running"}
  /\ attempt' = [attempt EXCEPT ![j] =
                   [n \in Ordinals |-> IF @[n] = "running"
                                       THEN "cancelled" ELSE @[n]]]
  /\ job' = [job EXCEPT ![j] = "cancelled"]
  /\ UNCHANGED <<lapsed, result, completed, recovery, queue, worker, faults>>

\* The attempts recoverExpiredJob takes.  The fencing token it compares is at
\* least 1 once the recovery lease is acquired, and 0 in a running attempt.
Recoverable(j) == {n \in Ordinals : /\ attempt[j][n] = "running"
                                    /\ <<j, n>> \in lapsed}

\* Mutant of RecoverExpiredJob: the job is queued again without a new command.
RecoverWithoutCommand(j, c) ==
  /\ recovery[j] = "free"
  /\ recovery' = [recovery EXCEPT ![j] = "held"]
  /\ Recoverable(j) # {}
  /\ job[j] = "running"
  /\ stage[c] = "unused"
  /\ attempt' = [attempt EXCEPT ![j] =
                   [n \in Ordinals |-> IF n \in Recoverable(j)
                                       THEN "failed" ELSE @[n]]]
  /\ job' = [job EXCEPT ![j] = "queued"]
  /\ UNCHANGED <<lapsed, result, completed, queue, worker, faults>>

RecoverExpiredJob(j, c) ==
  /\ recovery[j] = "free"
  /\ recovery' = [recovery EXCEPT ![j] = "held"]
  /\ Recoverable(j) # {}
  /\ job[j] = "running"
  /\ attempt' = [attempt EXCEPT ![j] =
                   [n \in Ordinals |-> IF n \in Recoverable(j)
                                       THEN "failed" ELSE @[n]]]
  /\ job' = [job EXCEPT ![j] = "queued"]
  /\ AppendCommand(c, j)
  /\ UNCHANGED <<lapsed, result, completed, worker, faults>>

\* Nothing to recover yet, and the recovery lease is held for 60 s regardless.
RecoverTooEarly(j) ==
  /\ recovery[j] = "free"
  /\ Recoverable(j) = {}
  /\ recovery' = [recovery EXCEPT ![j] = "held"]
  /\ UNCHANGED <<rows, queue, worker, faults>>

RecoveryLeaseExpires(j) ==
  /\ recovery[j] = "held"
  /\ recovery' = [recovery EXCEPT ![j] = "free"]
  /\ UNCHANGED <<rows, queue, worker, faults>>

\* A dead letter is replaced by a new job of the same identity.
RetryDeadLetter(j, replacement, c) ==
  /\ job[j] = "failed"
  /\ \E n \in Ordinals : attempt[j][n] = "failed"
  /\ job[replacement] = "absent" /\ Room
  /\ job' = [job EXCEPT ![replacement] = "queued"]
  /\ AppendCommand(c, replacement)
  /\ UNCHANGED <<attempt, lapsed, result, completed, recovery, worker, faults>>

-----------------------------------------------------------------------------
Deliver ==
  \/ \E c \in Commands : Relay(c) \/ ExpireDelivery(c)
  \/ \E w \in Workers : \/ \E c \in Commands : Fetch(w, c)
                        \/ Acknowledge(w) \/ Reject(w) \/ Crash(w)

Execute(w) ==
  \/ \E n \in Ordinals : ClaimQueued(w, n)
  \/ ClaimNothing(w) \/ ClaimThrows(w)
  \/ Complete(w) \/ CompleteAnswerLost(w) \/ AnalysisThrows(w)
  \/ Fail(w) \/ FailThrows(w)

Operate(j) ==
  \/ CancelOperationalJob(j)
  \/ RecoverTooEarly(j)
  \/ \E c \in Commands : \/ RequestAnalysis(j, c)
                         \/ RecoverExpiredJob(j, c)
                         \/ \E r \in Jobs : RetryDeadLetter(j, r, c)

LeasesExpire(j) ==
  RecoveryLeaseExpires(j) \/ \E n \in Ordinals : AttemptLeaseExpires(j, n)

Next ==
  \/ Deliver
  \/ \E w \in Workers : Execute(w)
  \/ \E j \in Jobs : Operate(j) \/ LeasesExpire(j)

Spec == Init /\ [][Next]_vars

(* Fairness.  The relay timer, the pg-boss workers and the handlers keep        *)
(* running, pg-boss expires the deliveries of dead workers, and leases run out. *)
(* Nothing in the code recovers a job by itself: RecoverExpiredJob is an API    *)
(* call, and an operator who keeps calling it is an assumption of its own.      *)
HandlerSteps(w) ==
  \/ \E n \in Ordinals : ClaimQueued(w, n)
  \/ ClaimNothing(w)
  \/ AnalysisThrows(w) \/ Complete(w)
  \/ Fail(w)
  \/ Acknowledge(w) \/ Reject(w)

Orphaned(c) == \A w \in Workers : worker[w].command = c => worker[w].expired

Fairness ==
  /\ \A c \in Commands : /\ WF_vars(Relay(c))
                         /\ WF_vars(\E w \in Workers : Fetch(w, c))
                         /\ WF_vars(Orphaned(c) /\ ExpireDelivery(c))
  /\ \A w \in Workers : WF_vars(HandlerSteps(w))
  /\ \A j \in Jobs :
       /\ WF_vars(RecoveryLeaseExpires(j))
       /\ \A n \in Ordinals :
            WF_vars(/\ \A w \in Workers : ~Holds(w, j, n)
                    /\ AttemptLeaseExpires(j, n))

OperatorAttends ==
  \A j \in Jobs : SF_vars(\E c \in Commands : RecoverExpiredJob(j, c))

FairSpec == Spec /\ Fairness /\ OperatorAttends

-----------------------------------------------------------------------------
(* Properties *)

TypeOK ==
  /\ job       \in [Jobs -> JobStates]
  /\ attempt   \in [Jobs -> [Ordinals -> AttemptStates]]
  /\ lapsed    \subseteq Jobs \X Ordinals
  /\ result    \in [Jobs -> Ordinals \union {NoAttempt}]
  /\ completed \subseteq Jobs \X Ordinals
  /\ recovery  \in [Jobs -> {"free", "held"}]
  /\ stage     \in [Commands -> Stages]
  /\ target    \in [Commands -> Jobs \union {NoJob}]
  /\ retries   \in [Commands -> 0 .. RetryLimit]
  /\ worker    \in [Workers -> WorkerStates]
  /\ faults    \in 0 .. MaxFaults

\* A job is running exactly while one attempt of it is, and that attempt is its
\* newest: duplicate deliveries, recoveries and consumers that outlive their
\* lease never put two attempts to work on one job (claim, recoverExpiredJob).
RunningAttempt(j, n) ==
  /\ attempt[j][n] = "running"
  /\ \A m \in Ordinals : m > n => attempt[j][m] = "none"

OneActiveAttempt ==
  \A j \in Jobs :
    /\ job[j] = "running" => \E n \in Ordinals : attempt[j][n] = "running"
    /\ \A n \in Ordinals : attempt[j][n] = "running" =>
         job[j] = "running" /\ RunningAttempt(j, n)

\* Completion is one decision: the completed job, its single result row, the
\* attempt that succeeded and the single analysis.completed.v1 all name the same
\* attempt, and no other job has a trace of one (complete).
DecidedByOneAttempt ==
  \A j \in Jobs :
    /\ (job[j] = "completed") <=> (result[j] # NoAttempt)
    /\ \A n \in Ordinals : /\ (attempt[j][n] = "succeeded") <=> (result[j] = n)
                           /\ (<<j, n>> \in completed) <=> (result[j] = n)

\* A failed job can always be retried from the dead letters: its newest attempt
\* is a failed one, which inspectDeadLetters and retryDeadLetter both require.
DeadLetterRetryable ==
  \A j \in Jobs : job[j] = "failed" =>
    \E n \in Ordinals : /\ attempt[j][n] = "failed"
                        /\ \A m \in Ordinals : m > n => attempt[j][m] = "none"

\* A queued job never loses its last command: one that no handler has answered
\* yet is in the outbox or in pg-boss, or pg-boss has given up on it and kept it
\* as dead.  A handler that found "alreadyRunning" may acknowledge its command
\* long after the job was queued again, and must not take the new one with it.
Unanswered(c) ==
  /\ stage[c] \in {"outbox", "ready", "active", "dead"}
  /\ \A w \in Workers : worker[w].command = c => worker[w].pc # "acking"

QueuedHasCommand ==
  \A j \in Jobs : job[j] = "queued" =>
    \E c \in Commands : target[c] = j /\ Unanswered(c)

\* A consumer whose attempt was recovered, cancelled or finished by another step
\* changes no row of the job any more, however late it comes back.
FencedConsumerIsInert ==
  [][\A w \in Workers, j \in Jobs, n \in Ordinals :
       /\ Holds(w, j, n)
       /\ attempt[j][n] # "running"
       /\ worker'[w].pc # worker[w].pc
       => UNCHANGED rows]_vars

\* The rows implement the domain's state machines (module AnalysisLifecycle).
Lifecycle == INSTANCE AnalysisLifecycle WITH
  state   <- job,
  started <- [j \in Jobs |-> Cardinality({n \in Ordinals :
                                            attempt[j][n] # "none"})],
  active  <- [j \in Jobs |->
                IF \E n \in Ordinals : attempt[j][n] = "running"
                THEN CHOOSE n \in Ordinals : attempt[j][n] = "running"
                ELSE NoAttempt],
  winner  <- result

ImplementsLifecycle == Lifecycle!Spec

\* Every job that is queued or running is settled in the end, or its command is
\* dead: the operator's recoveries included, no schedule of crashes, expiries and
\* late consumers leaves a job waiting for nobody.
EveryJobSettles ==
  \A j \in Jobs :
    (job[j] \in {"queued", "running"}) ~>
      \/ job[j] \in Terminal
      \/ \E c \in Commands : target[c] = j /\ stage[c] = "dead"
=============================================================================
