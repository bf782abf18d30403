---------------------------- MODULE Publication ----------------------------
(***************************************************************************)
(* Publishing the result of one analysis job: intents that are requested,  *)
(* approved and scheduled, the publication.execute.v1 commands, and the    *)
(* executor that looks a comment up at the destination before writing it.  *)
(*                                                                         *)
(* Each store method is one READ COMMITTED transaction.  Those that lock   *)
(* the intent row first (FOR UPDATE) are one action.  The request does not *)
(* lock the job: it reads the job's state, later the result row, and       *)
(* commits later still, and the job may complete in between.               *)
(***************************************************************************)
EXTENDS Integers, FiniteSets

CONSTANTS
  Intents,       \* publication intents of the job: one per profile and target
  Executors,     \* handlers in flight over all worker processes
  RetryLimit,    \* pg-boss retryLimit
  Bounds,        \* BOUND: the mixes explored, records with
                 \*   faults: crashes, failed transactions, early expiries
                 \*   lookups: calls of the reconciliation
  MaxLate,       \* BOUND: writes that arrive after their client gave up
  NoIntent

ASSUME PublicationAssumption ==
  /\ RetryLimit \in Nat
  /\ Bounds \subseteq [faults : Nat, lookups : Nat]
  /\ MaxLate \in Nat
  /\ NoIntent \notin Intents

VARIABLES
  done,      \* the analysis job is completed and its result row stored
  event,     \* analysis.completed.v1: "none", "pending", "consumed" or "dead"
  request,   \* request[i]: the transaction that creates or finds intent i
  intent,    \* intent[i]: publication_intents.state, "absent" before the row
  policy,    \* policy[i]: whether its profile asks for approval
  bound,     \* bound[i]: analysis_result_id and marker are set
  approved,  \* approved[i]: approved_by_principal_id is set
  command,   \* command[i]: the one envelope publication-command:<i>
  retries,   \* retries[i]: redeliveries used up
  lease,     \* lease[i]: the 'publication' resource lease; token 0: no row
  executor,  \* executor[x]: what the handler is doing
  comments,  \* comments[i]: comments with the marker at the destination
  late,      \* late[i]: writes under way whose client has given up
  arrived,   \* arrived[i]: how many of those have arrived
  lookups,   \* reconciliations so far
  faults

analysis == <<done, event>>
record   == <<intent, policy, bound, approved>>
queue    == <<command, retries>>
remote   == <<comments, late, arrived>>
counters == <<lookups, faults>>
vars     == <<analysis, request, record, queue, lease, executor, remote, counters>>

Decided == {"published", "outcomeUnknown", "failed"}

IntentStates == {"absent", "awaitingApproval", "pending", "publishing"}
                  \union Decided

Idle == [pc |-> "idle", intent |-> NoIntent, token |-> 0, threw |-> FALSE,
         delivery |-> FALSE, expired |-> FALSE]

ExecutorStates ==
  [pc : {"idle", "preparing", "looking", "posting", "recordPublished",
         "recordUnknown", "recordFailure", "releasing", "answering"},
   intent : Intents \union {NoIntent},
   token : Nat,          \* fencing token it got with the lease
   threw : BOOLEAN,      \* the handler will throw
   delivery : BOOLEAN,   \* it runs a queue delivery, not a reconciliation
   expired : BOOLEAN]    \* that delivery has expired

NoRequest == [pc |-> "idle", sawCompleted |-> FALSE, sawResult |-> FALSE]

Init ==
  /\ done     = FALSE
  /\ event    = "none"
  /\ request  = [i \in Intents |-> NoRequest]
  /\ intent   = [i \in Intents |-> "absent"]
  /\ policy   = [i \in Intents |-> "none"]
  /\ bound    = [i \in Intents |-> FALSE]
  /\ approved = [i \in Intents |-> FALSE]
  /\ command  = [i \in Intents |-> "none"]
  /\ retries  = [i \in Intents |-> 0]
  /\ lease    = [i \in Intents |-> [token |-> 0, live |-> FALSE]]
  /\ executor = [x \in Executors |-> Idle]
  /\ comments = [i \in Intents |-> 0]
  /\ late     = [i \in Intents |-> 0]
  /\ arrived  = [i \in Intents |-> 0]
  /\ lookups  = 0
  /\ faults   = 0

Within(f, l) == \E b \in Bounds : f <= b.faults /\ l <= b.lookups

Fault == Within(faults + 1, lookups) /\ faults' = faults + 1

\* enqueuePublication: ON CONFLICT (id) DO NOTHING.
Enqueue(ready) ==
  command' = [i \in Intents |-> IF i \in ready /\ command[i] = "none"
                                THEN "ready" ELSE command[i]]

Goto(x, pc) == executor' = [executor EXCEPT ![x].pc = pc]

Throw(x, pc) == executor' = [executor EXCEPT ![x].pc = pc, ![x].threw = TRUE]

-----------------------------------------------------------------------------
(* The analysis, the requests and the approvals *)

\* complete() stores the result, completes the job and appends the event.
AnalysisCompletes ==
  /\ ~done
  /\ done'  = TRUE
  /\ event' = "pending"
  /\ UNCHANGED <<request, record, queue, lease, executor, remote, counters>>

\* RequestAnalysisWithPublication reads the job row without locking it ...
RequestReadsJob(i) ==
  /\ request[i].pc = "idle"
  /\ request' = [request EXCEPT ![i] = [pc |-> "read", sawCompleted |-> done,
                                        sawResult |-> FALSE]]
  /\ UNCHANGED <<analysis, record, queue, lease, executor, remote, counters>>

\* ... then, under the intent's advisory lock, the result row ...
RequestReadsResult(i) ==
  /\ request[i].pc = "read"
  /\ request' = [request EXCEPT ![i].pc = "write", ![i].sawResult = done]
  /\ UNCHANGED <<analysis, record, queue, lease, executor, remote, counters>>

\* ... and commits: a new intent is inserted in the initial state of its profile,
\* an existing one is bound to the result; the command is enqueued if the job it
\* read was completed.
RequestCommits(i) ==
  /\ request[i].pc = "write"
  /\ IF intent[i] = "absent"
     THEN \E p \in {"approval", "automatic"} :
            /\ policy' = [policy EXCEPT ![i] = p]
            /\ intent' = [intent EXCEPT ![i] = IF p = "approval"
                                               THEN "awaitingApproval"
                                               ELSE "pending"]
     ELSE UNCHANGED <<policy, intent>>
  /\ bound'  = [bound EXCEPT ![i] = @ \/ request[i].sawResult]
  /\ Enqueue({k \in {i} : request[i].sawCompleted /\ intent'[i] = "pending"})
  /\ request' = [request EXCEPT ![i] = NoRequest]
  /\ UNCHANGED <<analysis, approved, retries, lease, executor, remote, counters>>

\* Mutant of Ready: an intent that awaits approval is scheduled as well.
ReadyOrAwaiting(states, bindings) ==
  {i \in Intents : /\ done
                   /\ states[i] \in {"pending", "awaitingApproval"}
                   /\ bindings[i]}

\* findReadyIntentIds, over the intents and bindings of the transaction.
Ready(states, bindings) ==
  {i \in Intents : done /\ states[i] = "pending" /\ bindings[i]}

\* ApprovePublication: the row is locked, approved, and scheduled if ready.
ApprovePublication(i) ==
  /\ intent[i] = "awaitingApproval"
  /\ intent'   = [intent EXCEPT ![i] = "pending"]
  /\ approved' = [approved EXCEPT ![i] = TRUE]
  /\ Enqueue(Ready(intent', bound) \intersect {i})
  /\ UNCHANGED <<analysis, request, policy, bound, retries, lease, executor, remote, counters>>

\* Mutant of SchedulePublication: it does not bind the intents to the result.
ScheduleUnbound ==
  /\ event = "pending"
  /\ Enqueue(Ready(intent, bound))
  /\ event' \in {"pending", "consumed"}
  /\ UNCHANGED <<done, request, record, retries, lease, executor, remote, counters>>

\* SchedulePublicationForCompletedAnalysis: binds every intent of the job, then
\* enqueues the ready ones.  The event is redelivered until it is acknowledged.
SchedulePublication ==
  /\ event = "pending"
  /\ bound' = [i \in Intents |-> bound[i] \/ intent[i] # "absent"]
  /\ Enqueue(Ready(intent, bound'))
  /\ event' \in {"pending", "consumed"}
  /\ UNCHANGED <<done, request, intent, policy, approved, retries, lease, executor, remote, counters>>

\* No delivery of the event succeeds: bindAnalysisResult throws on one intent of
\* the job, or the transaction fails each time, until pg-boss gives the event up.
CompletionDeadLettered ==
  /\ event = "pending"
  /\ Fault
  /\ event' = "dead"
  /\ UNCHANGED <<done, request, record, queue, lease, executor, remote, lookups>>

-----------------------------------------------------------------------------
(* Delivery of the commands *)

Fetch(x, i) ==
  /\ executor[x].pc = "idle"
  /\ command[i] = "ready"
  /\ command'  = [command EXCEPT ![i] = "active"]
  /\ executor' = [executor EXCEPT ![x] = [Idle EXCEPT !.pc = "preparing",
                                          !.intent = i, !.delivery = TRUE]]
  /\ UNCHANGED <<analysis, request, record, retries, lease, remote, counters>>

\* PublicationExecutor.reconcile takes an intent whose outcome is unknown.  The
\* worker would run it for a publication.reconcile.v1 envelope, but nothing in
\* the repository appends one: lookups = 0 is the system as it is wired.
Reconcile(x, i) ==
  /\ executor[x].pc = "idle"
  /\ intent[i] = "outcomeUnknown"
  /\ Within(faults, lookups + 1)
  /\ lookups'  = lookups + 1
  /\ executor' = [executor EXCEPT ![x] = [Idle EXCEPT !.pc = "preparing",
                                                      !.intent = i]]
  /\ UNCHANGED <<analysis, request, record, queue, lease, remote, faults>>

\* Mutant of Redeliver: one redelivery too many.
RedeliverOnceMore(i) ==
  IF retries[i] <= RetryLimit
  THEN /\ command' = [command EXCEPT ![i] = "ready"]
       /\ retries' = [retries EXCEPT ![i] = @ + 1]
  ELSE command' = [command EXCEPT ![i] = "dead"] /\ UNCHANGED retries

Redeliver(i) ==
  IF retries[i] < RetryLimit
  THEN /\ command' = [command EXCEPT ![i] = "ready"]
       /\ retries' = [retries EXCEPT ![i] = @ + 1]
  ELSE /\ command' = [command EXCEPT ![i] = "dead"]
       /\ UNCHANGED retries

\* The handler returns or throws; an expired delivery no longer listens.
Answer(x) ==
  LET i == executor[x].intent IN
  /\ executor[x].pc = "answering"
  /\ IF ~executor[x].delivery \/ executor[x].expired
     THEN UNCHANGED queue
     ELSE IF executor[x].threw
          THEN Redeliver(i)
          ELSE /\ command' = [command EXCEPT ![i] = "done"]
               /\ UNCHANGED retries
  /\ executor' = [executor EXCEPT ![x] = Idle]
  /\ UNCHANGED <<analysis, request, record, lease, remote, counters>>

Delivering(x, i) == /\ executor[x].intent = i
                    /\ executor[x].delivery
                    /\ ~executor[x].expired

ExpireDelivery(i) ==
  /\ command[i] = "active"
  /\ IF \E x \in Executors : Delivering(x, i) THEN Fault ELSE UNCHANGED faults
  /\ Redeliver(i)
  /\ executor' = [x \in Executors |->
                    IF Delivering(x, i)
                    THEN [executor[x] EXCEPT !.expired = TRUE] ELSE executor[x]]
  /\ UNCHANGED <<analysis, request, record, lease, remote, lookups>>

Crash(x) ==
  /\ executor[x].pc # "idle"
  /\ Fault
  /\ executor' = [executor EXCEPT ![x] = Idle]
  /\ UNCHANGED <<analysis, request, record, queue, lease, remote, lookups>>

-----------------------------------------------------------------------------
(* The executor *)

\* One transaction: the lease, then the intent.  A lease row that is absent starts
\* again at token 1, because complete() deletes the row.
Acquired(i) ==
  /\ ~lease[i].live
  /\ lease' = [lease EXCEPT ![i] = [token |-> @.token + 1, live |-> TRUE]]

\* Mutant of Preparable: an intent that is being published is taken over.
PreparablePublishing(x, i) ==
  /\ intent[i] \in {"pending", "failed", "publishing"}
  /\ bound[i]

Preparable(x, i) ==
  /\ \/ intent[i] \in {"pending", "failed"}
     \/ intent[i] = "outcomeUnknown" /\ ~executor[x].delivery
  /\ bound[i]

Prepare(x) ==
  LET i == executor[x].intent IN
  /\ executor[x].pc = "preparing"
  /\ Acquired(i)
  /\ Preparable(x, i)
  /\ intent'   = [intent EXCEPT ![i] = "publishing"]
  /\ executor' = [executor EXCEPT ![x].pc = "looking",
                                  ![x].token = lease[i].token + 1]
  /\ UNCHANGED <<analysis, request, policy, bound, approved, queue, remote, counters>>

\* The lease is taken, or the intent is not to be published: the handler returns.
\* In the second case the lease it acquired is deleted again.
PrepareDeclines(x) ==
  LET i == executor[x].intent IN
  /\ executor[x].pc = "preparing"
  /\ lease[i].live \/ ~Preparable(x, i)
  /\ lease' = IF lease[i].live THEN lease
              ELSE [lease EXCEPT ![i] = [token |-> 0, live |-> FALSE]]
  /\ Goto(x, "answering")
  /\ UNCHANGED <<analysis, request, record, queue, remote, counters>>

\* The transaction is outside the try block: whatever it throws, no attempt is made
\* to record a failure.  It has failed; or it has declined and deleted the lease,
\* and the answer to its COMMIT is lost ...
PrepareThrows(x) ==
  LET i == executor[x].intent IN
  /\ executor[x].pc = "preparing"
  /\ Fault
  /\ \/ UNCHANGED lease
     \/ /\ ~lease[i].live /\ ~Preparable(x, i)
        /\ lease' = [lease EXCEPT ![i] = [token |-> 0, live |-> FALSE]]
  /\ Throw(x, "answering")
  /\ UNCHANGED <<analysis, request, record, queue, remote, lookups>>

\* ... or it has taken the lease and the intent, which stays publishing.
PrepareAnswerLost(x) ==
  LET i == executor[x].intent IN
  /\ executor[x].pc = "preparing"
  /\ Fault
  /\ Acquired(i)
  /\ Preparable(x, i)
  /\ intent' = [intent EXCEPT ![i] = "publishing"]
  /\ Throw(x, "answering")
  /\ UNCHANGED <<analysis, request, policy, bound, approved, queue, remote, lookups>>

\* Mutant of Look: the comment is written without a lookup.
LookSkipped(x) ==
  /\ executor[x].pc = "looking"
  /\ Goto(x, "posting")
  /\ UNCHANGED <<analysis, request, record, queue, lease, remote, counters>>

\* destination.findPublication, which publish() of the Jitbit connector repeats.
Look(x) ==
  LET i == executor[x].intent IN
  /\ executor[x].pc = "looking"
  /\ Goto(x, IF comments[i] > 0 THEN "recordPublished" ELSE "posting")
  /\ UNCHANGED <<analysis, request, record, queue, lease, remote, counters>>

\* Destination unavailable, signal aborted, a connector error that is neither a
\* timeout nor a network error: nothing has been written.
DestinationThrows(x) ==
  /\ executor[x].pc \in {"looking", "posting"}
  /\ Throw(x, "recordFailure")
  /\ UNCHANGED <<analysis, request, record, queue, lease, remote, counters>>

\* The comment is written.  The answer arrives; or it is lost and the connector
\* says outcome_unknown (timeout, network) or throws (aborted, server error).
PostWritten(x) ==
  LET i == executor[x].intent IN
  /\ executor[x].pc = "posting"
  /\ comments' = [comments EXCEPT ![i] = @ + 1]
  /\ \/ Goto(x, "recordPublished")
     \/ Goto(x, "recordUnknown")
     \/ Throw(x, "recordFailure")
  /\ UNCHANGED <<analysis, request, record, queue, lease, late, arrived, counters>>

\* The request times out on its way: it is lost, or it is late.
PostUnknown(x) ==
  LET i == executor[x].intent IN
  /\ executor[x].pc = "posting"
  /\ \/ UNCHANGED late
     \/ /\ late[i] + arrived[i] < MaxLate
        /\ late' = [late EXCEPT ![i] = @ + 1]
  /\ Goto(x, "recordUnknown") \/ Throw(x, "recordFailure")
  /\ UNCHANGED <<analysis, request, record, queue, lease, comments, arrived, counters>>

LateWriteArrives(i) ==
  /\ late[i] > 0
  /\ late'     = [late EXCEPT ![i] = @ - 1]
  /\ arrived'  = [arrived EXCEPT ![i] = @ + 1]
  /\ comments' = [comments EXCEPT ![i] = @ + 1]
  /\ UNCHANGED <<analysis, request, record, queue, lease, executor, counters>>

\* The state each recording transaction writes and where the executor goes next
\* when it succeeds; it fails unless the intent is publishing.
Recording == [recordPublished |-> "published",
              recordUnknown   |-> "outcomeUnknown",
              recordFailure   |-> "failed"]

Record(x) ==
  LET i == executor[x].intent IN
  /\ executor[x].pc \in DOMAIN Recording
  /\ intent[i] = "publishing"
  /\ intent' = [intent EXCEPT ![i] = Recording[executor[x].pc]]
  /\ Goto(x, "releasing")
  /\ UNCHANGED <<analysis, request, policy, bound, approved, queue, lease, remote, counters>>

\* The transaction throws: refused, failed, or committed with its answer lost.  A
\* failure in the try block is recorded; one in the catch block goes straight on.
RecordThrows(x) ==
  LET i == executor[x].intent IN
  /\ executor[x].pc \in DOMAIN Recording
  /\ IF intent[i] = "publishing"
     THEN /\ Fault
          /\ \/ UNCHANGED intent
             \/ intent' = [intent EXCEPT ![i] = Recording[executor[x].pc]]
     ELSE UNCHANGED <<intent, faults>>
  /\ Throw(x, IF executor[x].pc = "recordFailure"
              THEN "releasing" ELSE "recordFailure")
  /\ UNCHANGED <<analysis, request, policy, bound, approved, queue, lease, remote, lookups>>

\* finally: leases.complete deletes the row that carries the executor's token.
Release(x) ==
  LET i == executor[x].intent IN
  /\ executor[x].pc = "releasing"
  /\ lease' = IF lease[i].token = executor[x].token
              THEN [lease EXCEPT ![i] = [token |-> 0, live |-> FALSE]] ELSE lease
  /\ Goto(x, "answering")
  /\ UNCHANGED <<analysis, request, record, queue, remote, counters>>

ReleaseThrows(x) ==
  /\ executor[x].pc = "releasing"
  /\ Fault
  /\ Throw(x, "answering")
  /\ UNCHANGED <<analysis, request, record, queue, lease, remote, lookups>>

\* The lease is for 60 s, however long the executor takes.
LeaseExpires(i) ==
  /\ lease[i].live
  /\ IF \E x \in Executors : /\ executor[x].intent = i
                             /\ executor[x].token = lease[i].token
     THEN Fault ELSE UNCHANGED faults
  /\ lease' = [lease EXCEPT ![i].live = FALSE]
  /\ UNCHANGED <<analysis, request, record, queue, executor, remote, lookups>>

-----------------------------------------------------------------------------
Request(i) == RequestReadsJob(i) \/ RequestReadsResult(i) \/ RequestCommits(i)

Execute(x) ==
  \/ Prepare(x) \/ PrepareDeclines(x)
  \/ Look(x) \/ DestinationThrows(x) \/ PostWritten(x) \/ PostUnknown(x)
  \/ Record(x) \/ RecordThrows(x) \/ Release(x) \/ Answer(x)

Next ==
  \/ AnalysisCompletes \/ SchedulePublication \/ CompletionDeadLettered
  \/ \E i \in Intents : \/ Request(i) \/ ApprovePublication(i)
                        \/ ExpireDelivery(i) \/ LeaseExpires(i)
                        \/ LateWriteArrives(i)
                        \/ \E x \in Executors : Fetch(x, i) \/ Reconcile(x, i)
  \/ \E x \in Executors : \/ Execute(x) \/ Crash(x)
                          \/ PrepareThrows(x) \/ PrepareAnswerLost(x)
                          \/ ReleaseThrows(x)

Spec == Init /\ [][Next]_vars

-----------------------------------------------------------------------------
(* Properties *)

TypeOK ==
  /\ done \in BOOLEAN
  /\ event \in {"none", "pending", "consumed", "dead"}
  /\ request \in [Intents -> [pc : {"idle", "read", "write"},
                              sawCompleted : BOOLEAN, sawResult : BOOLEAN]]
  /\ intent \in [Intents -> IntentStates]
  /\ policy \in [Intents -> {"none", "approval", "automatic"}]
  /\ bound \in [Intents -> BOOLEAN]
  /\ approved \in [Intents -> BOOLEAN]
  /\ command \in [Intents -> {"none", "ready", "active", "done", "dead"}]
  /\ retries \in [Intents -> 0 .. RetryLimit]
  /\ lease \in [Intents -> [token : Nat, live : BOOLEAN]]
  /\ executor \in [Executors -> ExecutorStates]
  /\ comments \in [Intents -> Nat]
  /\ late \in [Intents -> 0 .. MaxLate]
  /\ arrived \in [Intents -> 0 .. MaxLate]
  /\ lookups \in Nat
  /\ faults \in Nat

\* The executors that may still write to the destination for intent i.
Writers(i) == {x \in Executors : /\ executor[x].intent = i
                                 /\ executor[x].pc \in {"looking", "posting"}}

\* At most one executor is between preparing and recording an intent, and the
\* intent is publishing meanwhile: leases that expire, tokens that start again at
\* 1 and redelivered commands never let two of them write.
OneWriterPerIntent ==
  \A i \in Intents : /\ Cardinality(Writers(i)) <= 1
                     /\ Writers(i) # {} => intent[i] = "publishing"

\* What is recorded as published is on the case, and nothing is there twice: a
\* write whose answer was lost is not repeated.  A case gets a second comment only
\* if a request arrives after its client had given up on it, which neither the
\* lookup nor the state of the intent can see.
PublishedOnce ==
  \A i \in Intents : /\ comments[i] <= 1 + arrived[i]
                     /\ intent[i] = "published" => comments[i] > 0

\* Nothing is sent or written for an intent whose profile asks for approval before
\* it is approved, whatever order request, approval and completion come in.
NothingWithoutApproval ==
  \A i \in Intents :
    policy[i] = "approval" /\ (command[i] # "none" \/ comments[i] > 0) => approved[i]

\* The intent waits for a command that nobody enqueues by himself any more, or
\* that has been used up.
Stranded(i) ==
  \/ intent[i] = "pending" /\ command[i] \in {"done", "dead"}
  \/ /\ event \in {"consumed", "dead"}
     /\ command[i] = "none"
     /\ intent[i] = "pending" \/ (intent[i] = "awaitingApproval" /\ ~bound[i])

\* A request that read the job before it completed creates the intent.
LateRequest(i) == /\ request[i].pc = "write"
                  /\ ~request[i].sawCompleted
                  /\ intent[i] = "absent"

\* pg-boss gives up the event or the command, whose deliveries all failed.
GivenUp(i) == \/ event = "pending" /\ event' = "dead"
              \/ command[i] # "dead" /\ command'[i] = "dead"

\* x is publishing i or is about to record what came of it.
Publishing(x, i) == /\ executor[x].intent = i
                    /\ executor[x].pc \in {"looking", "posting"} \union DOMAIN Recording

\* No redelivery and no reconciliation takes up an intent that stays publishing.
Abandoned(i) == intent[i] = "publishing" /\ ~\E x \in Executors : Publishing(x, i)

\* x dies while it publishes i, cannot record its failure, or does not learn that
\* it has taken the intent.
BreaksOff(x, i) ==
  \/ /\ Publishing(x, i)
     /\ executor'[x].pc = "idle" \/ executor[x].pc = "recordFailure"
  \/ /\ executor[x].pc = "preparing" /\ executor[x].intent = i
     /\ executor'[x].threw

\* An intent is not lost sight of.  Binding, approval and scheduling leave no gap
\* between them, and a command is not acknowledged while its intent is pending: an
\* intent is stranded only by a request that read the job before it completed and
\* commits after the event is over, or when the event or its command is given up
\* after all its retries.  It stays publishing only when its executor dies, when
\* not even the failure can be recorded, or when the transaction that takes the
\* intent commits and its answer is lost.
NoneForgotten ==
  [][\A i \in Intents :
       /\ ~Stranded(i) /\ Stranded(i)' => LateRequest(i) \/ GivenUp(i)
       /\ ~Abandoned(i) /\ Abandoned(i)' => \E x \in Executors : BreaksOff(x, i)]_vars
=============================================================================
