# CaseWeaver in TLA+

Specifications of the parts of CaseWeaver that decide things concurrently and
durably: the schedules that fire, the discovery of cases, the trigger requests and
the jobs that analyse them, the transactional outbox that carries their commands to
pg-boss, the publication of a result as a comment on the case, the budgets that AI
operations draw on, the cache of attachment derivatives with its retention, and
the synchronization of knowledge sources. TLC checks them on small instances; TLAPS
proves every safety property of these runs for every instance. Liveness is
model-checked only.
Paths below are relative to the repository.

- [The system](#the-system): inventory, state, interactions, what is hard
- [The modules](#the-modules) and how they correspond to the code
- [The runs](#the-runs): bounds, fairness, what each one shows
- [The proofs](#the-proofs)
- [Findings](#findings) and observations
- [Abstractions](#abstractions) and [what is not modelled](#not-modelled)
- [Plan](#plan)

## The system

CaseWeaver is a TypeScript monorepo of four kinds of process over one PostgreSQL
database: an API, a webhook receiver, schedulers and workers. They share no
memory. Everything they tell each other is a row, and everything that happens
"later" is an envelope in `outbox_envelopes` that a relay moves into pg-boss.
Hence the three sources of difficulty: transactions that read one row and write
another, deliveries that happen again, and leases that run out under a process
that is still alive.

| Component | State it keeps | Operations | Hard part |
| --- | --- | --- | --- |
| Analysis jobs (`packages/analysis`, `infrastructure/postgres/src/analysis`, `.../operations`) | `analysis_jobs`, `analysis_attempts`, `analysis_results` | claim, complete, fail; operator's cancel, recover, retry | a consumer that outlives its delivery or its lease |
| Analysis requests (`packages/application/src/use-cases.ts`) | identities, idempotency records | request, force rerun, cancel | concurrent requests with one key or identity |
| Outbox and relay (`use-cases.ts`, `infrastructure/postgres/src/index.ts`, `infrastructure/queue-postgres`) | `outbox_envelopes` with claim token and lease | append, claim, publish, acknowledge | crash between publish and acknowledge; ids pg-boss refuses |
| Publication (`packages/publication`, `publication-use-cases.ts`, `connectors/jitbit`) | `publication_intents`, the remote comment | request, approve, schedule, execute, reconcile | a write whose answer is lost; request, approval and completion in any order |
| Resource leases (`infrastructure/postgres/src/index.ts`) | `resource_leases` | acquire, complete | tokens start again at 1 once a row is deleted |
| Worker runtime (`apps/worker`) | relay timer, pg-boss subscription | start, stop, dispatch | at-least-once dispatch |
| AI gateway and budgets (`packages/ai-execution`, `infrastructure/postgres/src/ai`) | operations, reservations, balances | start, reserve, reconcile, finalize | overlapping scopes; a crash with money reserved |
| Schedulers (`packages/scheduling`, `infrastructure/postgres/src/scheduling`, `apps/scheduler`) | schedules, schedule leases, occurrences, discovery cursors | findDue, acquireLease, enqueueOccurrence; transitions; discovery of cases page by page | a due schedule read before its lease; a listing that moves between pages |
| Triggers and webhooks (`analysis-trigger-use-cases.ts`, `triggers/index.ts`, `apps/webhook`) | webhook inbox, trigger requests with capture leases, snapshots, links to jobs | receive, capture, prepare, hand over | redelivery during a capture that died; two requests for one content |
| Attachments (`packages/attachments`, `infrastructure/postgres/src/attachments`, `infrastructure/object-storage`) | `attachment_derivatives`, their sources, stored objects | claim, write, complete, fail, clean up, record a source | an object written outside the transaction that names it |
| Retention (`operational-use-cases.ts`, `operations/index.ts`) | tombstones, work items with fencing tokens | reap, claim, purge, release; privacy purge of a case | an external delete between two transactions |
| Knowledge synchronization (`packages/knowledge`, `infrastructure/postgres/src/knowledge`, `connectors/git-markdown`) | source lease and cursor, documents, revisions | claim, discover by snapshot or delta, compare, commit, release | what a worker compared may be replaced before it commits |
| Repository changes (`repository-changes/store.ts`) | change rows, commands | draft pull request after completion | duplicate pull requests |
| Retrieval, prompts, other connectors, providers, runtimes, administration, security, observability, UI | files, versions, text | I/O and pure computation | outside this model |

What makes each modelled component correct:

- *Analysis jobs*: attempts of one job exclude each other; completion is one
  decision on which job, attempt, result and event agree; a late consumer changes
  nothing; a queued job always has a command; a failed one can be retried; nothing
  waits for ever.
- *Outbox*: what is marked delivered is in the queue; an envelope becomes one job;
  only the current claimant takes a row out; every envelope gets there.
- *Publication*: one executor at a time between preparing and recording; no second
  comment after a lost answer; nothing before approval; nothing forgotten after it.
- *Budgets*: the balances are what the reservations add up to; concurrent operations
  never share one allowance; money is given back only for calls that were not made;
  each reservation is settled once, however often its finalization is repeated;
  transactions never wait for each other for ever.
- *Schedules*: one command for each occurrence, however many replicas poll; none
  passed over; each one runs.
- *Discovery*: every change of a case is requested, whatever moves between the pages
  of a listing, and whoever continues a pass that another worker began.
- *Triggers*: one job for each content of a case; a capture is final; every request
  ends in a job.
- *Derivatives and retention*: the cache offers nothing that is not stored, nothing is
  stored that nobody answers for, and expired text is deleted.
- *Knowledge*: the active content is that of one commit, and in the end that of the
  branch.

Where the code falls short of these, the sections on findings and observations say how.

The interactions: a schedule's occurrence is a command. For cases it is
`analysis.discover.v1`, whose worker turns the listing of the source into trigger
requests; a webhook makes such a request too. The request's command
`analysis.trigger.v2` captures the case and hands it over: that writes the job and
`analysis.execute.v1`. The relay publishes it; a worker claims and completes the job
and appends `analysis.completed.v1`; its consumer binds and schedules the publication
intents; their `publication.execute.v1` goes the same way to the publication
executor. An analysis prepares the attachments of its snapshot through the derivative
cache, which retention purges, and calls the AI gateway, whose ledger and budget
transactions are its own. For knowledge an occurrence is
`knowledge.synchronize.v2`, whose worker reads the repository and commits the
documents that retrieval searches.

## The modules

| Module | Models | In terms of |
| --- | --- | --- |
| `AnalysisLifecycle` | what `packages/domain/src/analysis.ts` promises of a job, with no queue, worker or lease | abstract |
| `AnalysisJobs` | job, attempt and result rows, the commands, the consumers, the operator | implements `AnalysisLifecycle` |
| `OutboxDelivery` | an envelope committed with a business transaction enters the queue once | abstract |
| `OutboxRelay` | outbox rows, claims, relays, pg-boss as a store of job ids | implements `OutboxDelivery` |
| `Publication` | the intents of one analysis job, executors, leases, the remote comments | |
| `AiBudget` | AI operations from reservation to reconciliation, the budget balances and their row locks | |
| `OccurrenceClock` | each schedule sends its commands in the order of its occurrences, each once | abstract |
| `Schedules` | schedules, their leases and occurrences, the pollers, administration's transitions | implements `OccurrenceClock` |
| `CaseDiscovery` | the cursor of a discovery schedule, its workers, the listing at the source | |
| `AnalysisTriggers` | trigger requests, capture leases, snapshots, jobs and their links | |
| `Derivatives` | one derivative row, its objects, the workers that produce it, its expiry and deletion | |
| `KnowledgeSync` | the documents and the cursor of one source, its workers, the repository | |
| `AnalysisJobsProofs`, `AiBudgetProofs`, `OutboxRelayProofs`, `PublicationProofs`, `SchedulesProofs`, `AnalysisTriggersProofs`, `DerivativesProofs`, `KnowledgeSyncProofs` | theorems about these modules | |
| `MC*` | instances for TLC: symmetry, bounds, a repository | |

**One action is one transaction.** Each store method of the modelled code runs in
one PostgreSQL transaction which takes the row it decides on `FOR UPDATE` (or
updates it under a guard), so its outcome is that of an atomic step. The exceptions
read without a lock and write later, and are several actions:
`RequestAnalysisWithPublication` (`RequestReadsJob`, `RequestReadsResult`,
`RequestCommits`) and the transition of a knowledge schedule (`ReadForTransition`,
`WriteTransition`). `AiBudget` is finer (see below). Everything *between*
transactions is a point where a process may die, lose its lease or be overtaken; the
program counters `worker[w].pc`, `relay[r].pc`, `executor[x].pc`, `op[o].pc` and
`purger[p].pc` name these points.

**AnalysisJobs.** `ClaimQueued`/`ClaimNothing`/`ClaimThrows` are the outcomes of
`claim`; `CompletionCommitted` is `complete`, which the orchestrator may see succeed
(`Complete`) or whose answer may be lost (`CompleteAnswerLost`); `Fail` is `fail`,
called from the orchestrator's catch block, which throws on, so that pg-boss fails
the delivery (`Reject`, `Redeliver`). `ExpireDelivery` is pg-boss's 900 s expiry:
the consumer lives on, with `expired` set, while the command is delivered again. A
late acknowledgement may be ignored or may count for the delivery that is active
now; the model allows both. `RecoverExpiredJob` acquires the `analysis-recovery`
lease and, in the same transaction, fails the lapsed attempt, queues the job and
appends a new command; `RecoverTooEarly` is the same call when nothing has lapsed.

**OutboxRelay.** `Claim` takes the oldest `Limit` rows that nobody holds;
`Publish`, `PublishRefused` and `PublishFails` are the calls to pg-boss, and
`Acknowledge`/`ClaimLost` the second transaction. `holder[e] = r` stands for "the
row's `claim_token` is that of `r`'s current run". The first error ends the run and
leaves the batch claimed until its lease runs out, as `runOnce` does.

**Publication.** `SchedulePublication` is the consumer of `analysis.completed.v1`,
which may also throw until the event is dead (`CompletionDeadLettered`: a profile
without its destination, or an intent bound to another result, throws at each delivery).
`PrepareThrows` and `PrepareAnswerLost` are the two ways in which the transaction of
`prepare`, which is outside the executor's `try`, fails: rolled back, or committed with
its answer lost. `Prepare` acquires the `publication` lease and moves the intent to `publishing`;
`Look`, `PostWritten` and `PostUnknown` are the Jitbit calls, one comment per write
that reaches the server, now or late (`LateWriteArrives`); `Record`/`RecordThrows`
are `recordPublished`, `recordOutcomeUnknown` and `recordFailure`, guarded by the
intent's state alone, as in the code; `Release` deletes the lease row, so that the
next token is 1 again.

**AiBudget.** `op[o]` is one call of `execute`. Its two transactions, reserve and
reconcile, lock several balance rows, in different orders: each lock is a step
(`LockRow`), the writes become visible at the commit (`Reserve`, `Finalize`), and
locks end with the transaction (`EndTransaction`). Two operations may wait for each
other; `InWaitCycle` is PostgreSQL's detection, and the victim is the one that takes
`ReserveThrows` or `FinalizeThrows`. The advisory locks of reserve are taken in the
same order as its row locks and are merged with them, which only leaves more
interleavings. The provider answers at a known cost or not, throws, or is never
called (`NotDispatched`). `execute` finalizes again, as failed, after any error of
the first finalization, including a lost answer to its COMMIT
(`FinalizeAnswerLost`, `Rethrow`); an error of that second one is thrown. A policy
is a row of one currency that stays active; a price that is unknown is `Unpriced`.

**Schedules.** `FindDue` reads the due schedules without a lock; `AcquireLease` is
the one statement that inserts or takes over the lease row, `LeaseIsTaken` the one
that finds it live; `EnqueueOccurrence`, `EnqueueDuplicate` and `EnqueueThrows` are
the outcomes of `enqueueOccurrence`. The first two delete the lease row, so that the
token starts again at 1 and an old holder can pass the fence of a new one. A pinned
schedule is one of cases, whose enqueue compares the pinned versions; the others are
of knowledge. Time is counted in occurrences.

**CaseDiscovery.** `QueryAccepted` says whether PostgreSQL accepts the query of `claim`.
It does not (third finding): with the constant false every claim is `ClaimThrows`. With
it true, `Claim`, `ClaimAlreadyRunning` and `ClaimThrows` (a schedule that is not
available any more) are the outcomes of `claim` as it is meant, and `NothingMissed` is
about the code behind it: the cursor, the pages and the requests.
`Fetch` is one page of `JitbitCaseSource`, with the cursor it yields;
`CreateRequest` one `RequestAnalysisTrigger`, in a transaction of its own;
`AdvanceCursor` saves the cursor after each page, `Complete` and `fail` (`RowFailed`) end
the execution. `Opened` is `parseCursor`, which moves the start of a pass back by
the overlap; `NextWatermark` is the day. The listing at the source is external: each
ticket has a `place` in it, the one changed last the first, and a change puts its
ticket there and moves those in front of it back by one. The tickets `Listed` since a
day keep that order; `Before` is the offset of a ticket among them and `At` the ticket
at an offset. The module's general names are its own (`DiscoveryInit`,
`DiscoveryNext`, `Discovery` and so on), so that it can be extended beside `Schedules`.

**AnalysisTriggers.** `ClaimCapture`, `ClaimCaptured`, `ClaimAlreadyCapturing` and
`ClaimRefused` are the outcomes of `claimCapture` as the handler treats them;
`LoadCase` reads the source; `PersistCapture`/`PersistLost` is the fenced
transaction, `CaptureFailed` is `failCapture`; `Submit`, `SubmitFindsLinkedJob`,
`SubmittedBefore` and `SnapshotIsPurged` are the outcomes of the submission, with the
job found or created under the lock of its identity, which is one step here. A purged
snapshot is rejected, or, for a trigger with a recipe, acknowledged.

**Derivatives.** `Claim` is `claimDerivative`; `Write`, `Complete`,
`RecordFailure`, `Cleanup` and `RecordSource` are `processAttachment`, its catch and
its finally block, in their order. `ScheduleRetention` is `scheduleDerivativeRetention`,
which the repository has and tests
(`infrastructure/postgres/src/attachments/postgres-attachments.integration.test.ts`) and no
application calls yet; `QueueExpired` is the reaper, which finds the expired row and
queues its work item; `ClaimWork`, `DeleteObject`, `CompleteWork` and `PurgeThrows` are
`PurgeRetentionWorkItem`. An output key is the number of the claim that made it. The
privacy purge of a case is not an action here: its query finds no attachment of a case,
so it changes no derivative (observation 15).

**KnowledgeSync.** `Claim` takes the source under a fence and reads its cursor;
`Discover` resolves the branch once; `CursorNotInClone` is the delta whose clone lacks
the cursor's commit, which is possible as soon as the branch has left it (`History` says
what a commit contains): a clone has one branch and is its worker's own, on a `tmpfs` in
`deploy/docker/compose.production.yml`. `Process` compares and loads
(`MutationOf`), `Commit` writes everything under the fence; `Release` is the finally
block, `HeartbeatAborts` the renewal that finds the fence lost. The tree of each
commit is a constant; the branch may be moved to any commit at any time.

The other modules use `OutboxDelivery` as one step: `Relay` in `AnalysisJobs`, and
the commands of the others, which are `ready` or `created` at once (a delayed relay
is a command not fetched yet). `CaseDiscovery` uses `OccurrenceClock` in the same way:
its `Enqueue` is the next occurrence, once.

## The runs

| Run | Shows | Expected |
| --- | --- | --- |
| `AnalysisJobs` | `OneActiveAttempt`, `DecidedByOneAttempt`, `DeadLetterRetryable`, `QueuedHasCommand`, `FencedConsumerIsInert`, the refinement of the life cycle, and `EveryJobSettles` | pass |
| `OutboxRelay` | `NothingLost`, `OnlyHolderAcknowledges`, the refinement of `OutboxDelivery`, and delivery as long as no id is refused | pass |
| `OutboxRelay_refused` | `EveryEnvelopeQueued`: an id that is no UUID never reaches the queue | violation |
| `Publication` | `OneWriterPerIntent`, `PublishedOnce`, `NothingWithoutApproval`, `NoneForgotten` | pass |
| `AiBudget` | `BalancesAddUp`, `HardLimit`, `SettledOnce`, `EveryCallEnds` | pass |
| `AiBudget_deadlock` | `SuccessfulCallsReconciled` without any fault | violation |
| `Schedules` | `OneCommandPerOccurrence`, `NothingSkipped`, `EveryOccurrenceRuns` | pass |
| `CaseDiscovery` | `NothingMissed`, if the claim's query were accepted | pass |
| `CaseDiscovery_refused` | `EveryChangeRequested`: with the query as it is, no change is ever requested | violation |
| `AnalysisTriggers` | `OneJobPerSnapshot`, `CapturedForGood`, `EveryRequestSubmitted` | pass |
| `Derivatives` | `OutputsAccountedFor`, `ExpiredOutputLeaves` | pass |
| `KnowledgeSync` | `ContentFollowsCursor`, `EveryCommitArrives` | pass |

Each passing run also checks the type invariant of its module. Where a property has an
exception, the exception is a named part of it and is what the code really does: an
operator (`LateRequest`, `GivenUp`, `BreaksOff`, `JobIsLinked`, `CursorLeft`), or a
history variable that records that it has happened and that no step reads
(`overwritten`, `longPass`, `abandoned`, `disowned`, `left`, `unqueued`, `overlooked`,
`follows`).

Bounds, and why they are enough for the cases they must reach:

- `AnalysisJobs` (313,460 states): one job with two faults, or a job and the one that
  replaces it from the dead letters with one fault (`MaxTroubles`); two consumers (an
  expired one and its successor); three commands and three attempts, enough for each job
  and a recovery after each fault, so that no bound is what stops a job; one redelivery.
  A fault is a crash, a delivery or lease lost by a live holder, or a failing
  transaction; orphaned deliveries and leases run out for free. Two faults are what it
  takes for a consumer to outlive both its delivery and its lease. A second requested
  job would share nothing with the first but the workers (the `analysis-recovery` lease
  is one for each job); the theorems are for any number of requests.
- `OutboxRelay`: three envelopes with batches of two, so that a relay holds a rest
  of a batch while another one claims; one of the three may have a refused id; one
  fault. After everything is delivered the system stops: deadlock is not checked
  in the two runs of this module.
- `Publication` (587,292 states): one intent, two executors, one redelivery, and the
  mixes `FaultsOrLookups`: three faults in the system as it is wired, in which nothing
  reconciles, or one fault with two reconciliations. One request may arrive late.
  The exclusion does not hold for every mix (observation 3); the theorems
  say for which it does.
- `AiBudget` (81,520 states): two operations on the two balances of a day's and a
  workspace's policy, whose ids sort the other way round, so that the two lock orders
  cross; limits of two units, estimates and costs of one or two, so that costs above
  and below the estimate, refusals and exact fits all happen; two faults (a lost
  answer and a failure of the second finalization, or a fault of each operation). When
  both calls have ended the system stops: deadlock is not checked in this module, and
  `EveryCallEnds` is what says that nobody is stuck on a lock.
- `Schedules` (62,442 states): a knowledge schedule and a pinned one of cases; two
  pollers that compete for the knowledge schedule and one for the cases; a clock of
  two occurrences, so that a run which read the first is overtaken by one which reads
  the second; two transitions; one fault, which is a lease that lapses under its
  holder or a crash.
- `CaseDiscovery` (306,408 states): two tickets, listed in either order at first, in
  pages of one, the smallest listing in which a ticket moves between two pages; two
  workers, one to take over a pass of the other; two commands, so that one occurrence
  meets another that is still running; three days with an overlap of one, so that a
  pass may be longer than the overlap; one change, one fault. `CaseDiscovery_refused` is
  the same instance with fairness, and the query refused.
- `AnalysisTriggers` (176,894 states): two requests for one case with two versions, so
  that they may or may not capture the same content; two workers; two redeliveries and
  two faults, which is what it takes to meet the lease of a capture that could not
  record its failure.
- `Derivatives` (208,846 states): two workers, two purgers, three claims of the row (a
  later one takes over an earlier one, retries a failure, or produces the output again
  after a deletion), one redelivery, two faults. Each exception of the two properties
  is necessary: without it the run fails.
- `KnowledgeSync` (311,925 states): two files in three commits: one file is changed
  while the other is removed, and in the third commit a document cannot be loaded; the
  branch moves freely, so that a removed file returns with the same fingerprint; a
  filter that is narrowed to one file; two workers; one fault, which is a lease lost by
  a live holder, an exception or a crash.

`Schedules`, `CaseDiscovery`, `AnalysisTriggers` and `Derivatives` stop when their
clock, their faults and their claims are used up, so deadlock is not checked there;
their liveness properties say that nothing else stops them. It is checked in
`AnalysisJobs`, `Publication` and `KnowledgeSync`.

Fairness. The relay timer fires every second in each worker process, pg-boss keeps
fetching for its subscribers, handlers end, pg-boss expires the deliveries of dead
workers, and the database clock makes leases run out: weak fairness of these
steps, never of a fault, a request, an approval, a change or a transition.

- A handler is fair as a whole (`HandlerSteps`, `Handle`, `Work`, `Purge`): nothing
  says that an analysis, a capture or a load succeeds.
- Leases are fair only when their holder is gone. In `AnalysisTriggers` and
  `Derivatives` not even that: what a redelivery needs of the clock happens with the
  expiry of the delivery, and nothing else comes back for the row.
- Recovery of a job is an API call that nothing in the code makes by itself; that an
  operator keeps making it is the separate assumption `OperatorAttends`, without which
  a crashed worker's job stays running. It is strong fairness, because an early call
  blocks recovery for 60 s (`RecoverTooEarly`).
- A call of `execute` that has begun goes on: requests have deadlines and PostgreSQL
  ends one transaction of each cycle; which of its steps happens is not said, and
  nobody is obliged to begin a call.
- `Schedules` has the clock and the poll timer; `CaseDiscovery` the occurrences of its
  schedule, which goes on for ever; `KnowledgeSync` the incremental commands of a
  schedule, of some version, but no full rescan, which only an operator asks for.
- `CaseDiscovery_refused` assumes the same of its violation: commands are delivered,
  handlers go on, and still nothing is requested.
- `Publication` has no liveness property and no fairness: an intent may stay
  `publishing` for ever (observation 1). `NoneForgotten` says instead which steps may
  leave it so.

Every property has a mutant in `PROJECT.json`: a plausible bug of the code (a
dropped guard, a retry too many, a recovery without a command) which breaks it.

## The proofs

All theorems hold for every set of jobs, commands, workers, envelopes, intents,
requests, files and so on, every retry limit and every bound, from the named
assumptions on the constants alone (of the sets, only the operations of `AiBudget` and
the tickets of `CaseDiscovery` have to be finite: their properties add up and count).
Each module has one inductive invariant, `IInv` (`DiscoveryInv` for discovery); each action preserves each of its parts
in a lemma or step of its own.

`AnalysisJobsProofs`:

| Theorem | Property |
| --- | --- |
| `TypeCorrect` | `TypeOK` |
| `AttemptsExclusive` | `OneActiveAttempt` |
| `CompletionDecidedOnce` | `DecidedByOneAttempt` |
| `FailedJobsRetryable` | `DeadLetterRetryable` |
| `QueuedJobsKeepCommand` | `QueuedHasCommand` |
| `FencedConsumersInert` | `FencedConsumerIsInert` |
| `JobsImplementLifecycle` | `ImplementsLifecycle` |

The inductive invariant is `IInv == TypeOK /\ Dispatch /\ Decisions /\
QueuedHasCommand`. None of the properties is inductive alone:

- `Dispatch` says that a command that exists names a job and that a busy worker
  holds such a command and, once it has claimed, an attempt of it. Without it
  `JobOf(w)` might be no job at all.
- `OneActiveAttempt`, `DecidedByOneAttempt` and `DeadLetterRetryable` need each
  other (`Decisions`): a completion is one decision because the attempt it checks
  is the only running one; a failed job has a failed *newest* attempt because the
  running one is always the newest.
- `QueuedHasCommand` rests on `OneActiveAttempt` where a handler acknowledges: it
  found the job not queued, and the command that was appended with the job's return
  to the queue is another one, because `AppendCommand` takes an unused id.

`FencedConsumersInert` follows from the invariant and the guards of the consumer's
steps. `JobsImplementLifecycle` maps every action to one step of `AnalysisLifecycle`
or to a stutter, one lemma per kind of step. It needs the invariant twice: the attempt
at work is the running one (`ActiveIsRunning`, from `OneActiveAttempt`), and the
ordinal that `claim` takes is the number of attempts so far (`NextOrdinalCounts`),
because ordinals are taken in order and rows are never deleted.

`OutboxRelayProofs`:

| Theorem | Property |
| --- | --- |
| `TypeCorrect` | `TypeOK` |
| `DeliveredRowsAreQueued` | `NothingLost` |
| `TokensBelongToRuns` | `BatchIsHeld` |
| `AcknowledgedByHolder` | `OnlyHolderAcknowledges` |
| `RelayImplementsDelivery` | `ImplementsDelivery` |

`NothingLost` is not inductive: an acknowledgement marks a row delivered without
looking at pg-boss. The invariant adds that what a run is about to acknowledge has
been published (`RunsHoldRows`), and that pg-boss has created one job for the ids it
knows and none for the others (`OneJobEach`), which is what the refinement rests on.
The set of envelopes may be infinite; the rows of the table are finitely many
(`Appended`), so an age is a number. `BatchIsHeld` is only proved: no bug of a single
method breaks it without breaking `OnlyHolderAcknowledges`.

`PublicationProofs`:

| Theorem | Property |
| --- | --- |
| `TypeCorrect` | `TypeOK` |
| `ApprovalFirst` | `NothingWithoutApproval` |
| `OneWriter` (assuming `Wired`) | `OneWriterPerIntent` |
| `CommentedOnce` (assuming `Wired`) | `PublishedOnce` |
| `IntentsKeptInSight` | `NoneForgotten` |

`Wired` says that nothing reconciles, which is the system as it is: no code appends
`publication.reconcile.v1`. It cannot be dropped, see the observations. The lease
plays no part in the exclusion. It comes from the state of the intent: preparing takes
one that is `pending` or `failed`, under the lock of its row, and leaves it
`publishing`, which only the recording ends (`Delivers`, `Alone`). `PublishedOnce`
rests on what the executor has seen when it writes (`Looked`): a lookup that found
nothing, and no write since but those that arrive late. `NothingWithoutApproval` rests
on `Awaiting` and `Untouched`: without an approval the intent stays where it was
created, and until it leaves nothing has been done for it. `NoneForgotten` needs
`ReadsInOrder`: a request that saw the job completed sees its result. What the theorem
excludes is every other way to lose an intent, in any order of request, approval,
completion and redelivery; the ways that are left are in its statement: a late request,
an event or a command that is dead after its retries, an executor that dies, that cannot
record its failure, or that does not learn that it has taken the intent.

`AiBudgetProofs`:

| Theorem | Property |
| --- | --- |
| `TypeCorrect` | `TypeOK` |
| `ReservationsSettledOnce` | `SettledOnce` |
| `BalancesBooked` | `BalancesAddUp` |
| `LimitsKept` | `HardLimit` |

*One reservation.* The reservations of an operation are its own rows, so no sum over
operations enters the argument for `SettledOnce`. `Fits` relates the point a call has
reached to its rows and to what its finalization plans: the transaction that reserves
finds no row of its operation, the one that settles changes only those that are still
reserved, and `released` is planned only while the provider has not been called and
never by a finalization that is repeated (`RethrowMoves`), so a second one cannot undo
the first. Fences and crashes play no part: an operation has one process.

*The balances.* `IInv == CallInv /\ TypeOK /\ Priced /\ Guarded /\ BalancesAddUp /\
HardLimit`. Every step books on each balance exactly what the reservations of its own
operation come to stand for there (`Booked`, one case per step), and the two sums over
the operations differ only at that operation (`SumsFollow`), so they move together.
That a balance never becomes negative, which `TypeOK` asks for, needs the sum: what a
settlement frees is one of the summands. `HardLimit` is kept because nothing but a
reservation makes more count against a limit (`Booked`), and because the answer of the
query for exceeded policies is still true when it is acted upon: an admitted operation
has kept the locks of all its policies since, and nobody books on a balance without its
lock (`Guarded`, `GuardKept`, `LocksHeld`). `Priced` says that a checked operation has a
price.

*Sums.* The library gives a sum over a finite set as a recursive function of its
subsets, and its induction theorems take an operator, which the provers cannot
instantiate. What is needed is proved from that definition instead, with a set in the
place of the predicate (`SetInduction`, from the well-foundedness of `<` on the
naturals): that the recursion has a solution (`SumsExist`), its equation, and from it
how a sum depends on one summand (`SumOneDiffers`), that it is monotone and additive.

`SchedulesProofs`:

| Theorem | Property |
| --- | --- |
| `TypeCorrect` | `TypeOK` |
| `OccurrencesUnique` | `OneCommandPerOccurrence` |
| `OccurrencesComplete` | `NothingSkipped` |
| `SchedulesImplementClock` | `ImplementsClock` |
| `DiscoveryTypeCorrect` | `DiscoveryTypeOK` |
| `PassesComplete` | `NothingMissed` |

*Schedules.* The fencing token plays no part here either: an occurrence is unique by
its key, and the advance is safe although it uses a next run that was read long ago,
because whatever somebody has read, a poller or an administrator, lies behind occurrences that
are all recorded (`ReadBehind`; with `HeldIsFound` and `OnlyKnowledge`). For the same
reason what an enqueue sends is always the next occurrence (`EnqueueFires`), and no
other step sends anything, which is the refinement of `OccurrenceClock`. It is only
proved, in no run: what breaks it breaks one of the two invariants.

*Discovery*, whose module `SchedulesProofs` extends beside `Schedules`. The inductive
invariant `DiscoveryInv` says of the cursor, and of each delivery at work, that its
pass leaves nothing out. A ticket is `Safe` at a
cursor if it has been captured as it is, if it changed on or after the day on which the
pass began, or if it is listed at the offset of the cursor or behind it; in the middle
of a page it may also be on the page (`Reached`). Five facts make this inductive:

- The offsets of a listing are the numbers from 0 to its length less one, one for each
  ticket (`Offsets`, by counting), so a page has exactly the tickets at its offsets and
  nothing lies between two pages (`FetchSafe`).
- A change gives its own ticket the day, and moves nobody else forward
  (`ChangeMovesBack`): a stale offset may meet a ticket twice and may pass over the one
  that changed, never over another one.
- A replayed key has been captured with the fingerprint of the key, and what the ticket
  has become since it became in this pass (`RequestSafe`).
- When a pass ends, a ticket that changed during it is left; the overlap takes the next
  pass back to the day on which this one began, unless it took longer (`AdvanceSafe`).
- A claim that starts again from the saved cursor, mid-pass or not, starts from a cursor
  of which all this is true (`ClaimSafe`).

The invariant says this of every delivery, fenced out or not: no argument asks who holds
the fence. It is what keeps two passes from alternating, not what keeps them complete.

`AnalysisTriggersProofs`:

| Theorem | Property |
| --- | --- |
| `TypeCorrect` | `TypeOK` |
| `JobsUnique` | `OneJobPerSnapshot` |
| `CapturesFinal` | `CapturedForGood` |

A captured row is never written again, because every update asks for `capturing` and
its own fence, or for a state in which the row can be claimed (`CapturedRows`). So
what a submission reads is what was captured (`HandlersHaveRequests`), and the job it
finds or creates is the one of that snapshot (`JobsOfSnapshots`).

`DerivativesProofs`:

| Theorem | Property |
| --- | --- |
| `TypeCorrect` | `TypeOK` |
| `OutputsSafe` | `OutputsAccountedFor` |

The argument is about keys. A claim takes a key nobody has had (`KeysHandedOut`), and
until the completion only its worker knows it, so that neither the cleanup of another
worker nor a purge can hit it (`OutputsOfWorkers`). The only work item has the key that
the row names, and until it is completed the row stays as it is; afterwards its object
is gone and the row never has that key again (`RowNames`, `ItemFollowsRow`). An item
that was queued for a row without an output has no key: it deletes nothing, and what it
takes from the row is `overlooked`. This is
why a purger may delete as late as it likes: no fence protects the object store.

`KnowledgeSyncProofs`:

| Theorem | Property |
| --- | --- |
| `TypeCorrect` | `TypeOK` |
| `ContentCorrect` | `ContentFollowsCursor` |

Three other facts hold at every commit: a fingerprint names the text it was activated
with (`FingerprintTells`), an epoch is written only on documents that its commit has
(`SeenThere`), and the plan of the worker that holds the fence was made from rows and a
cursor that are still the same (`PlansFresh`). The last one is what the fence is for.

Only model-checked: liveness (`EveryJobSettles`,
`EveryEnvelopeQueuedUnlessRefused`, `EveryCallEnds`, `EveryOccurrenceRuns`,
`EveryRequestSubmitted`, `ExpiredOutputLeaves`, `EveryCommitArrives`), which is beyond the proof system; and the exclusion of
publication where something reconciles, which does not hold for every mix of faults.

## Findings

1. **Ids that pg-boss refuses** (`OutboxRelay_refused`). The webhook inbox, the
   case schedulers and the repository-change store derive envelope ids from
   digests or prefix them; `PgBossDurableMessageQueue.publish` throws for every id
   that is not a UUID, which aborts the relay's run each time it claims that envelope.
   The envelope never arrives, although `infrastructure/queue-postgres/README.md:26`
   asks for UUIDs and `.features/19-scheduler-and-webhook-guide.md:73` says that
   the relay recovers a persisted inbox.
2. **Balances locked in two orders** (`AiBudget_deadlock`). `reserve` locks the
   balances by scope, `reconcile` updates them by id, and the id begins with the
   policy's. Two operations under the same two policies can wait for each other; if
   PostgreSQL ends the reconciling one, `execute` finalizes a successful call as
   failed, keeps its reservation as uncertain and throws the answer away, where
   `.features/05-ai-models-and-pricing.md:177-178` has every reservation "reconciled
   or released" and `packages/ai-execution/src/gateway.test.ts:244` says that the
   gateway reconciles successful calls.
3. **Discovery does not run** (`CaseDiscovery_refused`). Its claim asks for `FOR UPDATE OF
   schedule, cursor`, where the cursor is reached by a `LEFT JOIN`
   (`infrastructure/postgres/src/triggers/case-discovery-state-store.ts:108-121`);
   PostgreSQL refuses to lock the nullable side of an outer join, so every claim throws,
   and the command is redelivered until it is dead. Behind that, line 163 reads
   `actor_principal_id` where line 58 selects `automated_principal_id`, and the ids of
   the commands are those of the first finding. Yet
   `apps/worker/src/feature-handlers/analysis-discovery.ts:126-127` says that it "turns
   discovered opaque targets into existing PBI-012 version-pinned trigger requests", and
   `website/docs/operator-console-reference.md:192-193` offers "**Polling** for connector
   scans".

Observations beside these. Most are exceptions that a property names, so that the run
shows them to be the only ones.

Publication and budgets:

1. *Publishing for ever.* An executor that dies between preparing and recording, or
   that cannot record its failure, leaves the intent `publishing`, which neither the
   redelivered command nor reconciliation takes, against "Expired work is recoverable"
   (`.features/02-domain-and-workflows.md:98-99`). So does a live one that does not learn
   that its `prepare` has committed: the call is outside the `try`
   (`packages/publication/src/use-cases.ts:83-93`), no failure is recorded, and the
   redelivery declines the intent. `NoneForgotten` names these steps.
2. *A stranded intent.* A request that read the job before it completed, and commits
   after `analysis.completed.v1` is over, leaves a pending intent that nobody
   schedules. `.features/02-domain-and-workflows.md:79-82` speaks of a reconciliation
   job for this case; there is none. An event whose consumer throws at each delivery, or
   a command whose handler does, is dead in the end and leaves its intents too.
   `NoneForgotten` says that there is no other gap. A failed intent is outside it: its
   redelivery may meet the lease of the failed attempt, is declined and acknowledged, and
   the attempt is not repeated.
3. *Recording for somebody else's attempt.* `recordFailure` compares the intent's state
   and neither attempt nor token. With reconciliation and two faults or more it can end
   the attempt of the executor's successor and let a third one write. Latent, because
   nothing reconciles today; this is why `OneWriter` and `CommentedOnce` assume `Wired`.
4. *Money reserved for ever.* A process that dies after `reserve` has committed, or
   whose answer to that COMMIT is lost, leaves its amount reserved, because nothing
   looks for operations that stay `started`.

Schedules and discovery:

5. *A transition sets a schedule back.* It writes the next run that it read before an
   enqueue advanced it; from then on every poll finds a duplicate, which does not
   advance the schedule (`overwritten`).
6. *A pass longer than the overlap misses changes.* The discovery cursor is saved after
   every page, and a pass that continues from a saved offset never sees what moved in
   front of it; the watermark is the day of its last page (`longPass`).
   `connectors/jitbit/README.md:51-55` has the host save it after a completed scan.
Triggers:

7. *A second request for the same content* finds the job of the first one and cannot be
   linked to it, because a job has one link: its command is redelivered until it is dead
   (`JobIsLinked`; `.features/02-domain-and-workflows.md:57-58` deduplicates requests
   by revision and profile).
8. *alreadyCapturing.* A redelivery after 10 s that meets the 60 s lease of a worker
   which could not record its failure is acknowledged; the request waits for ever
   (`abandoned`).
9. *A snapshot that was purged before its submission* ends the command of a plain
   trigger after its retries, and that of a trigger with a recipe at once, because one
   query answers `unavailable` and the other `notCaptured`
   (`infrastructure/postgres/src/triggers/index.ts:1036`, `:1096`).

Derivatives and retention:

10. *A completion whose answer is lost*: the worker's cleanup deletes the object of a row
    that goes on offering it (`disowned`).
11. *A work item is used once.* Its key is unique and its row stays, so that a derivative
    which is produced again after its deletion, and which keeps its past expiry, is found
    by every later batch and never queued (`unqueued`), against
    `.features/09-data-observability-and-cost.md:76-81` and
    `infrastructure/postgres/README.md:176-178`.
12. *A work item without a key.* The reaper takes an expired row whatever its status. For
    a failed one, or one that is being retried, it queues an item without a key. If the
    retry completes first, the item takes the new key from the row and deletes nothing
    (`overlooked`); if the item is done first, the row is marked deleted, the table's
    CHECK refuses the completion of the retry, and the derivative fails although its
    processing succeeded.
13. *A purge that is redelivered while its dead predecessor's 15 min claim is live* is
    acknowledged, and nobody comes back for the item (`abandoned`).
14. A released item whose command is dead may leave a row that offers an object that is
    gone, which `OutputsAccountedFor` excepts as a deletion on its way.
15. *The privacy purge of a case finds no attachments.* `purgeCaseSnapshot` joins them on
    the external reference of the case's snapshot
    (`infrastructure/postgres/src/operations/index.ts:587-610`, `:644-657`), while an
    attachment of a case has a reference of its own
    (`connectors/jitbit/src/attachment-identity.ts:32-48`,
    `infrastructure/postgres/src/attachments/index.ts:449-481`). No work item is queued
    for its text and no attachment is marked, against
    `.features/09-data-observability-and-cost.md:79-81`. No property states this,
    because the purge changes nothing that the model of derivatives has.

Knowledge:

16. *A rescan at the commit of an earlier one*, under a narrower filter, keeps the
    documents that are excluded now: the epoch does not tell the two apart
    (`follows = 0`; against `.features/14` (68) and `packages/knowledge/README.md:11-14`).
17. *Commands pinned to an older filter* move the cursor past files that the current
    filter includes; the next delta does not see them (`follows = 0`).
18. *A cursor that is not in the clone.* A delta first verifies the cursor's commit in the
    worker's clone (`infrastructure/git-repository-runtime/src/index.ts:490-495`). Once the
    branch has left that commit, a clone that was made since does not have it, and every
    incremental synchronization throws until an operator asks for a full rescan
    (`CursorLeft`).
19. *One document that cannot be loaded* stops the whole source (`EveryCommitArrives`).
20. A manual full rescan that meets a running synchronization is acknowledged and does
    not happen. A full rescan of a Jitbit source always throws, because that source
    always answers with a delta; a re-opened ticket is never tombstoned there. A source
    with a policy for attachments activates every document each time, because the row's
    policy is never read back. These three are outside the model of a git source.

## Abstractions

- Time: leases (15 min for attempts and derivatives, 60 s for recovery, publication,
  captures and discovery, 30 s for the outbox) and expiries (900 s) run out at any
  moment, bounded by the faults. The order that the code's numbers do imply is kept
  where it matters: a capture lease has run out when a delivery expires.
- An analysis is its outcome: prompts, providers, evidence and attachments decide
  only whether it throws. A profile is whether it asks for approval.
- Attempt rows of a publication decide nothing in the code and are left out, as is
  the read of the candidate before `prepare`, which only carries immutable fields.
- Identities and hashes of an intent are immutable and unique; an intent is one
  value per profile and target of a job.
- Idempotency keys of operator calls: each call has a fresh key; a replayed key
  changes nothing. Audit records decide nothing.
- `CancelAnalysisJob` and `ForceRerunAnalysis` have no caller in any process.
- Of an AI operation, the estimate, the actual cost and the outcome are kept; prices,
  usage, currencies and the child operations of agents' turns, which reserve nothing,
  are left out. All policies are hard; a soft one is booked in the same way and limits
  nothing. Replacing a policy gives it a new id, hence a new balance; it is left out.
- A cadence is a step of one: the arithmetic of cron expressions and of jitter is left
  out. An edit that gives a schedule a new cadence computes a new next run and is left
  out with it.
- A case is its version, a snapshot the version it was taken from. Fencing tokens that
  only grow are the process that claimed last; those that start again at 1 are numbers.
- A derivative is its key; what a processor makes of an attachment, its quotas and its
  warnings are left out. So are answers that change nothing (a claim in progress, a
  terminal failure).
- A document is its blob; chunks, embeddings and indexes follow its active revision in
  the same transaction. A configuration is its path filter. A command is seen when it
  is claimed, because what it asks for does not depend on when it was written.
- pg-boss is external: a job per id, kept after it is finished; redelivery up to
  the retry limit; expiry. So are the destination of comments and the listing of
  tickets, as the connectors use them.

## Not modelled

Presentation, packaging, authentication, rendering, ranking and remote I/O decide
nothing about the order of durable steps. Of the repository's lines most are of these
kinds: the admin UI and its API, configuration and its versions, providers, processors
of attachments, process isolation, tests. What has state and is left out:

- *Repository changes.* The executor of draft pull requests never runs: the id of its
  command is `repository-change-outbox-<uuid>`, which pg-boss refuses (the first
  finding). A model of it would be of code whose behaviour nobody can observe.
- *The webhook inbox*, beyond its command, for the same reason.
- *Force reruns and cancellation of analyses*, which no process wires.
- *Work items for blobs and attachment references*: claimed, fenced and completed like
  those of a derivative.
- *Preparation attempts of attachments, chunks, embeddings and their cache*: written
  once, under keys of their content.
- *Administration*: versioned configuration with optimistic revisions; what the modelled
  components see of it are the transitions of `Schedules` and the versions of
  `KnowledgeSync`.

`PROJECT.json` lists each component with its status, and each hazard with the
properties that cover it.

## Plan

Modelled first, because everything else depends on it: the outbox, the jobs, and the
publication that follows them; then the budgets every analysis draws on; then what
leads to a job (schedules, discovery, triggers), what it uses (derivatives, knowledge)
and what is taken away again (retention). What is left, in order:

1. `RepositoryChanges`, once the ids of its commands are UUIDs: one draft pull request
   per completed analysis, claimed under a fence around a write at a remote host.
2. Force reruns and cancellations in `AnalysisJobs`, once a process wires them.

No module that is proved about declares a recursive operator.
