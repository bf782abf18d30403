----------------------------- MODULE Derivatives -----------------------------
(***************************************************************************)
(* One attachment derivative: its row in the cache, the object that holds  *)
(* the normalized text, the workers that produce it for cases with the     *)
(* same attachment, and the work that deletes it once its retention ends.  *)
(*                                                                         *)
(* The row is claimed under a lease of 15 min; the object is written under *)
(* a fresh key, and only then the row names it.  A worker that cannot      *)
(* complete the row deletes its object.  The reaper queues one work item   *)
(* for an expired row, claimed under a lease with a fence, around a delete *)
(* in the object store that is no part of any transaction.                 *)
(*                                                                         *)
(* Answers that change nothing (a cached output, inProgress, a terminal    *)
(* failure) are left out, and so are the rows of                           *)
(* attachment_derivative_sources: only listings read them, and the purge   *)
(* of a case, whose join on the case's reference matches no attachment of  *)
(* a case and so queues nothing for a derivative (the README says more).   *)
(***************************************************************************)
EXTENDS Integers, FiniteSets

CONSTANTS
  Workers,
  Purgers,
  RetryLimit,   \* pg-boss's retryLimit for retention.purge.v1
  MaxClaims,    \* BOUND: claims of the row
  MaxFaults,    \* BOUND: crashes, failures, lost answers, leases lost when held
  None

ASSUME DerivativeAssumption ==
  /\ RetryLimit \in Nat /\ MaxClaims \in Nat /\ MaxFaults \in Nat
  /\ None \notin Workers \union Purgers

VARIABLES
  row,        \* the row of attachment_derivatives: owner is who has the current
              \* claim_id, output is the key of its object, 0 without one;
              \* expires: retention_expires_at is set and has passed
  objects,    \* the keys of the objects that are stored
  claims,     \* claims so far: each has a new claim_id and a new output key
  worker,     \* worker[w]: processAttachment, in prepareClaimedOccurrences
  item,       \* the row of retention_work_items, one for each target
  stage,      \* the command retention.purge.v1 in pg-boss
  retries,
  purger,     \* purger[p]: PurgeRetentionWorkItem
  disowned,   \* history: outputs of completions whose answer was lost
  left,       \* history: outputs whose worker could not delete them
  doomed,     \* history: outputs that the reaper found on an expired row
  unqueued,   \* history: of these, those that no work item was queued for
  overlooked, \* history: outputs the row named when work without a key was done
  abandoned,  \* history: the purge was acknowledged while it was claimed
  faults

row_vars == <<row, claims, worker, disowned, left>>
purge_vars == <<item, stage, retries, purger, doomed, unqueued, overlooked, abandoned>>
vars == <<row_vars, purge_vars, objects, faults>>

NoRow == [status |-> "none", owner |-> None, leased |-> FALSE, output |-> 0,
          retryable |-> FALSE, deleted |-> FALSE, expires |-> FALSE]

NoItem == [state |-> "none", key |-> 0, owner |-> None, leased |-> FALSE]

Idle == [pc |-> "idle", output |-> 0, retryable |-> FALSE]

IdlePurger == [pc |-> "idle", live |-> FALSE]

Init ==
  /\ row = NoRow /\ objects = {} /\ claims = 0
  /\ worker = [w \in Workers |-> Idle]
  /\ item = NoItem /\ stage = "none" /\ retries = 0
  /\ purger = [p \in Purgers |-> IdlePurger]
  /\ disowned = {} /\ left = {} /\ doomed = {} /\ unqueued = {}
  /\ overlooked = {}
  /\ abandoned = FALSE /\ faults = 0

Fault == faults < MaxFaults /\ faults' = faults + 1

-----------------------------------------------------------------------------
(* processAttachment                                                         *)

Cached == row.status = "completed" /\ ~row.deleted

\* claimDerivative: insert, take over, retry or reclaim.
Claimable ==
  \/ row.status = "none"
  \/ row.status = "pending" /\ ~row.leased
  \/ row.status = "failed" /\ row.retryable /\ ~row.deleted
  \/ row.status = "completed" /\ row.deleted

\* Mutant of NewOutput: the key is derived from the identity.
OutputOfIdentity == 1

\* createOutput: a random key.
NewOutput == claims + 1

\* Only an insertion clears the expiry.
Claim(w) ==
  /\ worker[w] = Idle /\ claims < MaxClaims
  /\ Claimable
  /\ row' = [NoRow EXCEPT !.status = "pending", !.owner = w, !.leased = TRUE,
                          !.deleted = row.deleted /\ row.status # "completed",
                          !.expires = row.expires]
  /\ claims' = claims + 1
  /\ worker' = [worker EXCEPT ![w] = [pc |-> "write", output |-> NewOutput,
                                      retryable |-> FALSE]]
  /\ UNCHANGED <<objects, disowned, left, purge_vars, faults>>

Goto(w, pc) == worker' = [worker EXCEPT ![w].pc = pc]

\* The processor writes the object and its length and hash are verified.
Write(w) ==
  /\ worker[w].pc = "write"
  /\ objects' = objects \union {worker[w].output}
  /\ Goto(w, "complete")
  /\ UNCHANGED <<row, claims, disowned, left, purge_vars, faults>>

\* A processor, a quota, the timeout of the runtime, a cancellation: with the
\* object written or not.
ProcessingThrows(w) ==
  /\ worker[w].pc \in {"write", "complete"}
  /\ \E retryable \in BOOLEAN :
       worker' = [worker EXCEPT ![w].pc = "fail", ![w].retryable = retryable]
  /\ UNCHANGED <<row, objects, claims, disowned, left, purge_vars, faults>>

\* WHERE status = 'pending' AND claim_id = ..: no lease is asked for.
Owns(w) == row.status = "pending" /\ row.owner = w

\* A CHECK of the table refuses an output on a row that is marked deleted, which a
\* pending one can be: the update throws.
Completable(w) == Owns(w) /\ ~row.deleted

Completed(w) ==
  row' = [NoRow EXCEPT !.status = "completed", !.output = worker[w].output,
                       !.expires = row.expires]

Complete(w) ==
  /\ worker[w].pc = "complete" /\ Completable(w)
  /\ Completed(w)
  /\ Goto(w, "record")
  /\ UNCHANGED <<objects, claims, disowned, left, purge_vars, faults>>

\* The update commits and the worker sees an error, as if it had not.
CompleteAnswerLost(w) ==
  /\ worker[w].pc = "complete" /\ Completable(w) /\ Fault
  /\ Completed(w)
  /\ disowned' = disowned \union {worker[w].output}
  /\ Goto(w, "fail")
  /\ UNCHANGED <<objects, claims, left, purge_vars>>

CompleteRefused(w) ==
  /\ worker[w].pc = "complete" /\ ~Completable(w)
  /\ Goto(w, "fail")
  /\ UNCHANGED <<row, objects, claims, disowned, left, purge_vars, faults>>

\* catch: failDerivative, which throws when the claim is another's or the database
\* is away.  The finally block comes in any case.
RecordFailure(w) ==
  /\ worker[w].pc = "fail"
  /\ \/ /\ Owns(w)
        /\ row' = [row EXCEPT !.status = "failed", !.owner = None, !.leased = FALSE,
                              !.retryable = worker[w].retryable]
        /\ UNCHANGED faults
     \/ ~Owns(w) /\ UNCHANGED <<row, faults>>
     \/ Owns(w) /\ Fault /\ UNCHANGED row
  /\ Goto(w, "cleanup")
  /\ UNCHANGED <<objects, claims, disowned, left, purge_vars>>

\* finally: the output of a claim that was not completed is deleted.
Cleanup(w) ==
  /\ worker[w].pc = "cleanup"
  /\ objects' = objects \ {worker[w].output}
  /\ worker' = [worker EXCEPT ![w] = Idle]
  /\ UNCHANGED <<row, claims, disowned, left, purge_vars, faults>>

\* recordDerivativeSource, and the worker is done with a new output.
RecordSource(w) ==
  /\ worker[w].pc = "record"
  /\ worker' = [worker EXCEPT ![w] = Idle]
  /\ UNCHANGED <<row, objects, claims, disowned, left, purge_vars, faults>>

\* The process dies, or the object store is away for the cleanup.
Crash(w) ==
  /\ worker[w] # Idle /\ Fault
  /\ worker' = [worker EXCEPT ![w] = Idle]
  /\ left' = left \union {worker[w].output}
  /\ UNCHANGED <<row, objects, claims, disowned, purge_vars>>

ClaimLapses ==
  /\ row.status = "pending" /\ row.leased
  /\ IF \E w \in Workers : Owns(w) /\ worker[w] # Idle THEN Fault
     ELSE UNCHANGED faults
  /\ row' = [row EXCEPT !.leased = FALSE]
  /\ UNCHANGED <<objects, claims, worker, disowned, left, purge_vars>>

-----------------------------------------------------------------------------
(* Retention                                                                 *)

\* scheduleDerivativeRetention, and the time it sets comes.  The repository has it
\* and tests it; nothing in the applications calls it yet.
ScheduleRetention ==
  /\ row.status \in {"completed", "failed"} /\ ~row.deleted
  /\ row' = [row EXCEPT !.expires = TRUE]
  /\ UNCHANGED <<objects, claims, worker, disowned, left, purge_vars, faults>>

\* ReapExpiredRetentionWork: queueExpiredRetention takes an expired row whatever its
\* status, and so also one that names no output: a failed one, or one that is being
\* retried or reclaimed.  The key of an item is unique and its row stays: ON CONFLICT
\* DO NOTHING leaves every later batch without one.
QueueExpired ==
  LET found == {row.output} \ {0} IN
  /\ row.expires /\ ~row.deleted
  /\ doomed' = doomed \union found
  /\ IF item.state = "none"
     THEN /\ item' = [item EXCEPT !.state = "queued", !.key = row.output]
          /\ stage' = "created"
          /\ UNCHANGED unqueued
     ELSE /\ unqueued' = unqueued \union (found \ {item.key})
          /\ UNCHANGED <<item, stage>>
  /\ UNCHANGED <<row_vars, objects, retries, purger, overlooked, abandoned, faults>>

\* Mutant of Redelivered: one delivery more than pg-boss makes.
RedeliveredOnceMore ==
  /\ stage' = IF retries <= RetryLimit THEN "created" ELSE "dead"
  /\ retries' = retries + 1

Redelivered ==
  /\ stage' = IF retries < RetryLimit THEN "created" ELSE "dead"
  /\ retries' = IF retries < RetryLimit THEN retries + 1 ELSE retries

Answered(p) == purger' = [purger EXCEPT ![p] = IdlePurger]

\* The answer of a handler whose delivery has expired reaches nobody.
Acknowledge(p) ==
  /\ Answered(p)
  /\ stage' = IF purger[p].live THEN "acknowledged" ELSE stage

Reject(p) ==
  /\ Answered(p)
  /\ IF purger[p].live THEN Redelivered ELSE UNCHANGED <<stage, retries>>

\* Mutant of WorkClaimable: work that was left running is never taken over.
WorkQueued == item.state = "queued"

WorkClaimable == item.state = "queued" \/ (item.state = "running" /\ ~item.leased)

ClaimWork(p) ==
  /\ purger[p] = IdlePurger /\ stage = "created" /\ WorkClaimable
  /\ item' = [item EXCEPT !.state = "running", !.owner = p, !.leased = TRUE]
  /\ stage' = "active"
  /\ purger' = [purger EXCEPT ![p] = [pc |-> "delete", live |-> TRUE]]
  /\ UNCHANGED <<row_vars, objects, retries, doomed, unqueued, overlooked,
                 abandoned, faults>>

\* Nothing to claim: the handler returns, and the command is acknowledged.
ClaimNothing(p) ==
  /\ purger[p] = IdlePurger /\ stage = "created" /\ ~WorkClaimable
  /\ stage' = "acknowledged"
  /\ abandoned' = (item.state = "running" /\ item.leased)
  /\ UNCHANGED <<row_vars, objects, item, retries, purger, doomed, unqueued, overlooked,
                 faults>>

DeleteObject(p) ==
  /\ purger[p].pc = "delete"
  /\ objects' = objects \ {item.key}
  /\ purger' = [purger EXCEPT ![p].pc = "complete"]
  /\ UNCHANGED <<row_vars, item, stage, retries, doomed, unqueued, overlooked,
                 abandoned, faults>>

HoldsWork(p) == item.state = "running" /\ item.owner = p

\* completeRetentionWork marks the target deleted, whatever its status.
WorkCompleted ==
  /\ item' = [item EXCEPT !.state = "completed", !.leased = FALSE]
  /\ row' = [row EXCEPT !.output = 0, !.deleted = TRUE]
  /\ overlooked' = overlooked \union IF item.key = 0 THEN {row.output} \ {0} ELSE {}

CompleteWork(p) ==
  /\ purger[p].pc = "complete"
  /\ IF HoldsWork(p) THEN WorkCompleted ELSE UNCHANGED <<item, row, overlooked>>
  /\ Acknowledge(p)
  /\ UNCHANGED <<objects, claims, worker, disowned, left, retries, doomed, unqueued,
                 abandoned, faults>>

\* The object store or the database throws; the work is released, if it can be.
PurgeThrows(p) ==
  /\ purger[p].pc \in {"delete", "complete"} /\ Fault
  /\ item' \in {item, IF HoldsWork(p)
                      THEN [item EXCEPT !.state = "queued", !.leased = FALSE]
                      ELSE item}
  /\ Reject(p)
  /\ UNCHANGED <<row_vars, objects, doomed, unqueued, overlooked, abandoned>>

\* 900 s without an answer; the handler, if it is still there, goes on.
ExpireDelivery(p) ==
  /\ purger[p].live /\ Fault
  /\ Redelivered
  /\ purger' = [purger EXCEPT ![p].live = FALSE]
  /\ UNCHANGED <<row_vars, objects, item, doomed, unqueued, overlooked, abandoned>>

CrashPurger(p) ==
  /\ purger[p] # IdlePurger /\ Fault
  /\ Reject(p)
  /\ UNCHANGED <<row_vars, objects, item, doomed, unqueued, overlooked, abandoned>>

WorkLapses ==
  /\ item.state = "running" /\ item.leased
  /\ IF \E p \in Purgers : HoldsWork(p) /\ purger[p] # IdlePurger THEN Fault
     ELSE UNCHANGED faults
  /\ item' = [item EXCEPT !.leased = FALSE]
  /\ UNCHANGED <<row_vars, objects, stage, retries, purger, doomed, unqueued, overlooked,
                 abandoned>>

-----------------------------------------------------------------------------

Process(w) ==
  \/ Write(w) \/ ProcessingThrows(w) \/ Complete(w) \/ CompleteRefused(w)
  \/ RecordFailure(w) \/ Cleanup(w) \/ RecordSource(w)

Deliver(p) == ClaimWork(p) \/ ClaimNothing(p)

Purge(p) == DeleteObject(p) \/ CompleteWork(p)

Next ==
  \/ \E w \in Workers : Claim(w) \/ Process(w) \/ CompleteAnswerLost(w) \/ Crash(w)
  \/ ClaimLapses
  \/ ScheduleRetention
  \/ QueueExpired
  \/ \E p \in Purgers : \/ Deliver(p) \/ Purge(p) \/ PurgeThrows(p)
                        \/ ExpireDelivery(p) \/ CrashPurger(p)
  \/ WorkLapses

Spec == Init /\ [][Next]_vars

\* Commands are delivered and handled.  Leases need not run out: nothing comes
\* back for a work item whose command is acknowledged.
FairSpec ==
  /\ Spec
  /\ \A p \in Purgers : WF_vars(Deliver(p)) /\ WF_vars(Purge(p))

-----------------------------------------------------------------------------
(* Properties                                                                *)

Outputs == 0 .. MaxClaims

TypeOK ==
  /\ row \in [status : {"none", "pending", "completed", "failed"},
              owner : Workers \union {None}, leased : BOOLEAN, output : Outputs,
              retryable : BOOLEAN, deleted : BOOLEAN, expires : BOOLEAN]
  /\ objects \subseteq Outputs /\ claims \in Outputs
  /\ worker \in [Workers -> [pc : {"idle", "write", "complete", "record", "fail",
                                   "cleanup"},
                             output : Outputs, retryable : BOOLEAN]]
  /\ item \in [state : {"none", "queued", "running", "completed"}, key : Outputs,
               owner : Purgers \union {None}, leased : BOOLEAN]
  /\ stage \in {"none", "created", "active", "acknowledged", "dead"}
  /\ retries \in 0 .. RetryLimit
  /\ purger \in [Purgers -> [pc : {"idle", "delete", "complete"}, live : BOOLEAN]]
  /\ disowned \union left \union doomed \union unqueued \union overlooked \subseteq Outputs
  /\ abandoned \in BOOLEAN /\ faults \in 0 .. MaxFaults

\* What the cache offers is stored, unless its deletion is on its way: the cleanup
\* of a claim that was taken over, and a delete that comes late, hit no output but
\* their own.  The exception is a completion whose answer was lost: its worker
\* deletes the object under a row that offers it from then on.
CachedOutputIsThere ==
  Cached => \/ row.output \in objects
            \/ item.key = row.output /\ item.state # "completed"
            \/ row.output \in disowned

\* Every object is the row's, or its worker will still delete it or name it, or its
\* worker could not: a late purge never takes a newer output from the row.  The
\* exception is an output that the row came to name when its only work item had been
\* queued without a key: that work deletes nothing and takes the key from the row.
NoOrphanedOutput ==
  \A o \in objects :
    \/ o = row.output \/ o \in left \union overlooked
    \/ \E w \in Workers : worker[w].output = o

OutputsAccountedFor == CachedOutputIsThere /\ NoOrphanedOutput

\* An output that the reaper has found expired leaves the object store, through
\* crashes, failures and late purgers - unless the command is dead, or was
\* acknowledged while the work was claimed by a purger that is gone, or the row's
\* only work item was for another output or for none.
ExpiredOutputLeaves ==
  \A o \in Outputs :
    (o \in doomed) ~>
      (o \notin objects \/ o \in unqueued \/ stage = "dead" \/ abandoned)
=============================================================================
