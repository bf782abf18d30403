--------------------------- MODULE AnalysisTriggers ---------------------------
(***************************************************************************)
(* From a trigger request to an analysis job.  A request comes with the    *)
(* command analysis.trigger.v2.  Its handler claims the capture of the     *)
(* case under a lease of 60 s with a fence, loads the case from its source *)
(* and persists it as a snapshot, named by its content; then, in a         *)
(* transaction that locks the request and the identity of the analysis, it *)
(* creates the job of this identity or finds it, and links the request: a  *)
(* job can be linked to one request only.                                  *)
(*                                                                         *)
(* All requests are for one case, the hardest instance: a schedule and a   *)
(* webhook may ask for it at the same time.  pg-boss sends a rejected      *)
(* command again after 10 s and an unanswered one after 900 s.             *)
(***************************************************************************)
EXTENDS Integers, FiniteSets

CONSTANTS
  Requests,
  Workers,
  RetryLimit,   \* pg-boss's retryLimit
  MaxVersion,   \* BOUND: versions of the case
  MaxFaults,    \* BOUND: failures, crashes, expired deliveries, lapsed leases
  None

ASSUME TriggerAssumption ==
  /\ RetryLimit \in Nat /\ MaxVersion \in Nat \ {0} /\ MaxFaults \in Nat
  /\ None \notin Workers \union Requests

VARIABLES
  remote,     \* the version of the case at its source
  request,    \* request[r]: the row.  Its capture_fencing_token only grows: it
              \* is the token of the worker that claimed last
  purged,     \* the versions whose snapshot is tombstoned
  jobs,       \* analysis jobs, of run ordinal 0
  link,       \* link[r]: the row of analysis_trigger_request_analyses
  stage,      \* stage[r]: the request's command in pg-boss
  retries,
  worker,     \* worker[w]: what the handler works on
  abandoned,  \* history: acknowledged as alreadyCapturing
  faults

vars == <<remote, request, purged, jobs, link, stage, retries, worker, abandoned,
          faults>>

Versions == 1 .. MaxVersion

RequestStates == {"none", "pending", "capturing", "captured", "failed"}

Stages == {"none", "created", "active", "acknowledged", "dead"}

NoRow == [state |-> "none", fence |-> None, leased |-> FALSE, snapshot |-> 0,
          retryable |-> FALSE]

Idle == [request |-> None, pc |-> "idle", version |-> 0, live |-> FALSE]

Init ==
  /\ remote = 1
  /\ request = [r \in Requests |-> NoRow]
  /\ purged = {}
  /\ jobs = {}
  /\ link = [r \in Requests |-> None]
  /\ stage = [r \in Requests |-> "none"]
  /\ retries = [r \in Requests |-> 0]
  /\ worker = [w \in Workers |-> Idle]
  /\ abandoned = {}
  /\ faults = 0

Fault == faults < MaxFaults /\ faults' = faults + 1

-----------------------------------------------------------------------------
(* The case, the requests and the operator                                   *)

Change ==
  /\ remote < MaxVersion
  /\ remote' = remote + 1
  /\ UNCHANGED <<request, purged, jobs, link, stage, retries, worker, abandoned,
                 faults>>

\* RequestAnalysisTrigger: request, idempotency record and command.  A repeated
\* call with the same key finds the request and appends nothing.
RequestTrigger(r) ==
  /\ request[r].state = "none"
  /\ request' = [request EXCEPT ![r].state = "pending"]
  /\ stage' = [stage EXCEPT ![r] = "created"]
  /\ UNCHANGED <<remote, purged, jobs, link, retries, worker, abandoned, faults>>

Captured == {v \in Versions : \E r \in Requests : request[r].snapshot = v}

\* PurgeCaseSnapshot, as far as a submission sees it.
PurgeSnapshot(v) ==
  /\ v \in Captured \ purged
  /\ purged' = purged \union {v}
  /\ UNCHANGED <<remote, request, jobs, link, stage, retries, worker, abandoned,
                 faults>>

-----------------------------------------------------------------------------
(* Deliveries                                                                *)

\* Mutant of Redelivered: one delivery more than pg-boss makes.
RedeliveredOnceMore(r) ==
  /\ stage' = [stage EXCEPT ![r] = IF retries[r] <= RetryLimit THEN "created"
                                   ELSE "dead"]
  /\ retries' = [retries EXCEPT ![r] = @ + 1]

\* The command comes again while its retries last.
Redelivered(r) ==
  /\ stage' = [stage EXCEPT ![r] = IF retries[r] < RetryLimit THEN "created"
                                   ELSE "dead"]
  /\ retries' = [retries EXCEPT ![r] = IF @ < RetryLimit THEN @ + 1 ELSE @]

\* The answer of a handler whose delivery has expired reaches nobody.
Reject(w) ==
  /\ IF worker[w].live THEN Redelivered(worker[w].request)
     ELSE UNCHANGED <<stage, retries>>
  /\ worker' = [worker EXCEPT ![w] = Idle]

Acknowledge(w) ==
  /\ IF worker[w].live
     THEN stage' = [stage EXCEPT ![worker[w].request] = "acknowledged"]
     ELSE UNCHANGED stage
  /\ worker' = [worker EXCEPT ![w] = Idle]

Fetched(w, r) == worker[w] = Idle /\ stage[r] = "created"

CaptureIsLeased(r) == request[r].state = "capturing" /\ request[r].leased

Refused(r) == request[r].state = "failed" /\ ~request[r].retryable

\* Mutant of Claimable: only a request nobody has claimed is captured.
ClaimableOnce(r) == request[r].state = "pending"

Claimable(r) ==
  /\ request[r].state \in {"pending", "capturing", "failed"}
  /\ ~CaptureIsLeased(r) /\ ~Refused(r)

ClaimCapture(w, r) ==
  /\ Fetched(w, r) /\ Claimable(r)
  /\ request' = [request EXCEPT
       ![r] = [@ EXCEPT !.state = "capturing", !.fence = w, !.leased = TRUE]]
  /\ stage' = [stage EXCEPT ![r] = "active"]
  /\ worker' = [worker EXCEPT
       ![w] = [Idle EXCEPT !.request = r, !.pc = "load", !.live = TRUE]]
  /\ UNCHANGED <<remote, purged, jobs, link, retries, abandoned, faults>>

\* A retry after the capture goes on with the snapshot as it was taken.
ClaimCaptured(w, r) ==
  /\ Fetched(w, r) /\ request[r].state = "captured"
  /\ stage' = [stage EXCEPT ![r] = "active"]
  /\ worker' = [worker EXCEPT
       ![w] = [Idle EXCEPT !.request = r, !.pc = "submit", !.live = TRUE]]
  /\ UNCHANGED <<remote, request, purged, jobs, link, retries, abandoned, faults>>

\* alreadyCapturing: the handler returns, and the command is acknowledged.
ClaimAlreadyCapturing(w, r) ==
  /\ Fetched(w, r) /\ CaptureIsLeased(r)
  /\ stage' = [stage EXCEPT ![r] = "acknowledged"]
  /\ abandoned' = abandoned \union {r}
  /\ UNCHANGED <<remote, request, purged, jobs, link, retries, worker, faults>>

\* unavailable: the handler throws; its error is not retryable, the queue retries.
ClaimRefused(w, r) ==
  /\ Fetched(w, r) /\ Refused(r)
  /\ Redelivered(r)
  /\ UNCHANGED <<remote, request, purged, jobs, link, worker, abandoned, faults>>

-----------------------------------------------------------------------------
(* CaptureAnalysisTriggerCase                                                *)

LoadCase(w) ==
  /\ worker[w].pc = "load"
  /\ worker' = [worker EXCEPT ![w].version = remote, ![w].pc = "persist"]
  /\ UNCHANGED <<remote, request, purged, jobs, link, stage, retries, abandoned,
                 faults>>

HoldsCapture(w) ==
  LET row == request[worker[w].request] IN
  row.state = "capturing" /\ row.fence = w

Persisted(w) ==
  request' = [request EXCEPT
    ![worker[w].request] = [@ EXCEPT !.state = "captured", !.leased = FALSE,
                                     !.snapshot = worker[w].version]]

\* Mutant of PersistCapture: the update asks for no fence.
PersistUnfenced(w) ==
  /\ worker[w].pc = "persist"
  /\ Persisted(w)
  /\ worker' = [worker EXCEPT ![w].pc = "submit"]
  /\ UNCHANGED <<remote, purged, jobs, link, stage, retries, abandoned, faults>>

\* INSERT the snapshot or find the one with the same content; then the request,
\* WHERE state = 'capturing' AND fencing token AND lease_expires_at > NOW().
PersistCapture(w) ==
  /\ worker[w].pc = "persist"
  /\ HoldsCapture(w) /\ request[worker[w].request].leased
  /\ Persisted(w)
  /\ worker' = [worker EXCEPT ![w].pc = "submit"]
  /\ UNCHANGED <<remote, purged, jobs, link, stage, retries, abandoned, faults>>

\* failCapture: fenced, whether the lease still lasts or not.
CaptureFailed(w, retryable) ==
  request' = IF HoldsCapture(w)
             THEN [request EXCEPT ![worker[w].request] =
                    [@ EXCEPT !.state = "failed", !.leased = FALSE,
                              !.retryable = retryable]]
             ELSE request

\* captureLost, which is retryable.
PersistLost(w) ==
  /\ worker[w].pc = "persist"
  /\ ~(HoldsCapture(w) /\ request[worker[w].request].leased)
  /\ CaptureFailed(w, TRUE)
  /\ Reject(w)
  /\ UNCHANGED <<remote, purged, jobs, link, abandoned, faults>>

\* The source, the projection or the transaction throws.  The database may be
\* away for failCapture too: then the request stays as it is, leased.
CaptureThrows(w) ==
  /\ worker[w].pc \in {"load", "persist"} /\ Fault
  /\ \/ \E retryable \in BOOLEAN : CaptureFailed(w, retryable)
     \/ UNCHANGED request
  /\ Reject(w)
  /\ UNCHANGED <<remote, purged, jobs, link, abandoned>>

-----------------------------------------------------------------------------
(* SubmitCapturedAnalysisTrigger                                             *)

\* Mutant of Identity: the request is part of the identity.
IdentityOfRequest(r) == [snapshot |-> request[r].snapshot, request |-> r]

\* createAnalysisRequestIdentity: the snapshot and the profile, not the request.
Identity(r) == [snapshot |-> request[r].snapshot, request |-> None]

Submittable(r) == link[r] = None /\ request[r].snapshot \notin purged

\* UNIQUE (workspace_id, analysis_job_id)
JobIsLinked(r) == \E q \in Requests \ {r} : link[q] = Identity(r)

\* requestAnalysisInTransaction and bindAnalysisJob: the job of the identity is
\* found, or created with its command, under the identity's advisory lock.
Submit(w) ==
  LET r == worker[w].request IN
  /\ worker[w].pc = "submit"
  /\ Submittable(r) /\ ~JobIsLinked(r)
  /\ jobs' = jobs \union {Identity(r)}
  /\ link' = [link EXCEPT ![r] = Identity(r)]
  /\ Acknowledge(w)
  /\ UNCHANGED <<remote, request, purged, retries, abandoned, faults>>

\* The job is found, and belongs to another request: the insert of the link
\* fails, and so will the one of every later delivery.
SubmitFindsLinkedJob(w) ==
  LET r == worker[w].request IN
  /\ worker[w].pc = "submit"
  /\ Submittable(r) /\ JobIsLinked(r)
  /\ Reject(w)
  /\ UNCHANGED <<remote, request, purged, jobs, link, abandoned, faults>>

\* Another delivery of the same command has submitted the request.
SubmittedBefore(w) ==
  /\ worker[w].pc = "submit" /\ link[worker[w].request] # None
  /\ Acknowledge(w)
  /\ UNCHANGED <<remote, request, purged, jobs, link, retries, abandoned, faults>>

\* prepareAnalysisSubmission joins the active snapshot and finds none: unavailable,
\* which throws, or notCaptured for a trigger with a recipe, which is acknowledged.
SnapshotIsPurged(w) ==
  /\ worker[w].pc = "submit"
  /\ link[worker[w].request] = None /\ request[worker[w].request].snapshot \in purged
  /\ Reject(w) \/ (Acknowledge(w) /\ UNCHANGED retries)
  /\ UNCHANGED <<remote, request, purged, jobs, link, abandoned, faults>>

\* The preparation of the repository run or the transaction throws.
SubmitThrows(w) ==
  /\ worker[w].pc = "submit" /\ Fault
  /\ Reject(w)
  /\ UNCHANGED <<remote, request, purged, jobs, link, abandoned>>

-----------------------------------------------------------------------------
(* Time                                                                      *)

LeaseLapses(r) ==
  /\ request[r].leased
  /\ IF \E w \in Workers : worker[w].request = r /\ HoldsCapture(w)
     THEN Fault ELSE UNCHANGED faults
  /\ request' = [request EXCEPT ![r].leased = FALSE]
  /\ UNCHANGED <<remote, purged, jobs, link, stage, retries, worker, abandoned>>

\* 900 s without an answer, which is longer than the lease.  The handler, if it
\* is still there, goes on.
ExpireDelivery(w) ==
  LET r == worker[w].request IN
  /\ worker[w].live /\ Fault
  /\ Redelivered(r)
  /\ request' = [request EXCEPT ![r].leased = FALSE]
  /\ worker' = [worker EXCEPT ![w].live = FALSE]
  /\ UNCHANGED <<remote, purged, jobs, link, abandoned>>

\* The process is gone, and its delivery expires.
Crash(w) ==
  LET r == worker[w].request IN
  /\ worker[w] # Idle /\ Fault
  /\ IF worker[w].live
     THEN /\ Redelivered(r)
          /\ request' = [request EXCEPT ![r].leased = FALSE]
     ELSE UNCHANGED <<stage, retries, request>>
  /\ worker' = [worker EXCEPT ![w] = Idle]
  /\ UNCHANGED <<remote, purged, jobs, link, abandoned>>

Deliver(w) ==
  \E r \in Requests : \/ ClaimCapture(w, r) \/ ClaimCaptured(w, r)
                      \/ ClaimAlreadyCapturing(w, r) \/ ClaimRefused(w, r)

Handle(w) ==
  \/ LoadCase(w) \/ PersistCapture(w) \/ PersistLost(w)
  \/ Submit(w) \/ SubmitFindsLinkedJob(w)
  \/ SubmittedBefore(w) \/ SnapshotIsPurged(w)

Next ==
  \/ Change
  \/ \E r \in Requests : RequestTrigger(r) \/ LeaseLapses(r)
  \/ \E v \in Versions : PurgeSnapshot(v)
  \/ \E w \in Workers : \/ Deliver(w) \/ Handle(w) \/ CaptureThrows(w)
                        \/ SubmitThrows(w) \/ ExpireDelivery(w) \/ Crash(w)

Spec == Init /\ [][Next]_vars

\* Workers that run: commands are delivered and handled.
FairSpec ==
  /\ Spec
  /\ \A w \in Workers : WF_vars(Deliver(w)) /\ WF_vars(Handle(w))

-----------------------------------------------------------------------------
(* Properties                                                                *)

Identities == [snapshot : Versions, request : Requests \union {None}]

TypeOK ==
  /\ remote \in Versions
  /\ request \in [Requests -> [state : RequestStates, leased : BOOLEAN,
                               fence : Workers \union {None},
                               snapshot : 0 .. MaxVersion, retryable : BOOLEAN]]
  /\ purged \subseteq Versions
  /\ jobs \subseteq Identities
  /\ link \in [Requests -> Identities \union {None}]
  /\ stage \in [Requests -> Stages]
  /\ retries \in [Requests -> 0 .. RetryLimit]
  /\ worker \in [Workers -> [request : Requests \union {None}, live : BOOLEAN,
                             pc : {"idle", "load", "persist", "submit"},
                             version : 0 .. MaxVersion]]
  /\ abandoned \subseteq Requests
  /\ faults \in 0 .. MaxFaults

\* However many requests ask for a case, and whoever submits them, however often:
\* one job per content of the case, and each request is linked to the job of the
\* snapshot that was captured for it.
OneJobPerSnapshot ==
  /\ \A j, k \in jobs : j.snapshot = k.snapshot => j = k
  /\ \A r \in Requests : link[r] # None =>
       link[r] \in jobs /\ link[r].snapshot = request[r].snapshot

\* What was captured for a request is captured for good: a worker that is late
\* can neither replace the snapshot nor declare the capture failed.
CapturedForGood ==
  [][\A r \in Requests : request[r].snapshot # 0 => request'[r] = request[r]]_vars

\* Every request is linked to a job, through failures, crashes and deliveries
\* that expire - unless its command is dead, its snapshot was purged before, or
\* its job belongs to another request, or it was acknowledged although nobody was
\* capturing any more: the redelivery after 10 s met the lease of a worker that
\* could not record its failure.
EveryRequestSubmitted ==
  \A r \in Requests :
    (request[r].state # "none") ~>
      \/ link[r] # None \/ JobIsLinked(r)
      \/ stage[r] = "dead" \/ request[r].snapshot \in purged \/ r \in abandoned
=============================================================================
