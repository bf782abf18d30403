----------------------------- MODULE OutboxRelay -----------------------------
(***************************************************************************)
(* The transactional outbox and the relays that empty it into pg-boss.     *)
(*                                                                         *)
(* Each worker process runs at most one OutboxRelay.runOnce at a time: one *)
(* transaction claims a batch under a fresh token for 30 s, then envelope  *)
(* by envelope the relay publishes to pg-boss and acknowledges in a second *)
(* transaction.  The first error aborts the rest of the batch, which stays *)
(* claimed until the lease runs out.                                       *)
(*                                                                         *)
(* A run's claim token is abstracted to the relay: holder[e] = r as long   *)
(* as the row's token is that of r's current run.  Runs that are over, or  *)
(* whose process died, leave the row with the token of nobody.             *)
(***************************************************************************)
EXTENDS Integers, FiniteSets

CONSTANTS
  Envelopes,   \* outbox envelope ids
  Relays,      \* worker processes
  Limit,       \* batch size of one claim
  Digests,     \* envelopes whose writer may give them an id that is no UUID
  MaxFaults,   \* BOUND: crashes, failed calls and leases lost during a run
  Nobody

ASSUME RelayAssumption ==
  /\ Limit \in Nat \ {0}
  /\ MaxFaults \in Nat
  /\ Digests \subseteq Envelopes
  /\ Nobody \notin Relays

VARIABLES
  outbox,   \* outbox[e]: "absent", "undelivered" or "delivered" (delivered_at)
  refused,  \* the appended envelopes whose id pg-boss refuses
  age,      \* age[e]: occurred_at, as the position in the order of appending
  leased,   \* leased[e]: claimed_until is not yet past
  holder,   \* holder[e]: the relay whose current run holds claim_token
  queue,    \* queue[e]: "absent", "created" or "finished" in pg-boss
  sends,    \* sends[e]: jobs pg-boss has created for e
  relay,    \* relay[r]: what the process is doing
  faults

vars == <<outbox, refused, age, leased, holder, queue, sends, relay, faults>>

Idle == [pc |-> "idle", batch |-> {}, current |-> Nobody]

RelayStates == [pc : {"idle", "publish", "acknowledge"},
                batch : SUBSET Envelopes,
                current : Envelopes \union {Nobody}]

Init ==
  /\ outbox = [e \in Envelopes |-> "absent"]
  /\ refused = {}
  /\ age    = [e \in Envelopes |-> 0]
  /\ leased = [e \in Envelopes |-> FALSE]
  /\ holder = [e \in Envelopes |-> Nobody]
  /\ queue  = [e \in Envelopes |-> "absent"]
  /\ sends  = [e \in Envelopes |-> 0]
  /\ relay  = [r \in Relays |-> Idle]
  /\ faults = 0

Fault == faults < MaxFaults /\ faults' = faults + 1

\* The run of r is over: its token is on no row that anyone could acknowledge.
EndRun(r) ==
  /\ relay'  = [relay EXCEPT ![r] = Idle]
  /\ holder' = [e \in Envelopes |-> IF holder[e] = r THEN Nobody ELSE holder[e]]

\* Mutant of Append: every writer derives ids from digests.
AppendAnyId(e) ==
  /\ outbox[e] = "absent"
  /\ refused' = refused \union {e}
  /\ outbox'  = [outbox EXCEPT ![e] = "undelivered"]
  /\ age'     = [age EXCEPT ![e] = Cardinality({d \in Envelopes :
                                                  outbox[d] # "absent"})]
  /\ UNCHANGED <<leased, holder, queue, sends, relay, faults>>

\* A business transaction appends an envelope.  Most writers take a UUID for its
\* id; the webhook inbox, the case schedulers and the repository-change store
\* derive the id from a digest.
Append(e) ==
  /\ outbox[e] = "absent"
  /\ \/ UNCHANGED refused
     \/ e \in Digests /\ refused' = refused \union {e}
  /\ outbox' = [outbox EXCEPT ![e] = "undelivered"]
  /\ age'    = [age EXCEPT ![e] = Cardinality({d \in Envelopes :
                                                 outbox[d] # "absent"})]
  /\ UNCHANGED <<leased, holder, queue, sends, relay, faults>>

Claimable == {e \in Envelopes : outbox[e] = "undelivered" /\ ~leased[e]}

\* ORDER BY occurred_at, id LIMIT limit FOR UPDATE SKIP LOCKED
Oldest(batch) ==
  /\ batch \subseteq Claimable
  /\ Cardinality(batch) = Limit \/ (batch = Claimable /\ Cardinality(batch) < Limit)
  /\ \A e \in batch, d \in Claimable \ batch : age[e] < age[d]

\* The claim transaction.  RETURNING lists the rows in no particular order.
Claim(r) ==
  /\ relay[r].pc = "idle"
  /\ Claimable # {}
  /\ \E batch \in SUBSET Envelopes :
       /\ Oldest(batch)
       /\ relay'  = [relay EXCEPT ![r] = [pc |-> "publish", batch |-> batch,
                                          current |-> Nobody]]
       /\ leased' = [e \in Envelopes |-> leased[e] \/ e \in batch]
       /\ holder' = [e \in Envelopes |-> IF e \in batch THEN r ELSE holder[e]]
  /\ UNCHANGED <<outbox, refused, age, queue, sends, faults>>

\* Mutant of Send: the envelope id is not the id of the job.
SendAgain(e) ==
  /\ queue' = [queue EXCEPT ![e] = "created"]
  /\ sends' = [sends EXCEPT ![e] = @ + 1]

\* pg-boss creates the job unless one with that id exists, finished or not.
Send(e) ==
  IF queue[e] = "absent"
  THEN /\ queue' = [queue EXCEPT ![e] = "created"]
       /\ sends' = [sends EXCEPT ![e] = @ + 1]
  ELSE UNCHANGED <<queue, sends>>

Publish(r, e) ==
  /\ relay[r].pc = "publish"
  /\ e \in relay[r].batch
  /\ e \notin refused
  /\ Send(e)
  /\ relay' = [relay EXCEPT ![r].pc = "acknowledge", ![r].current = e]
  /\ UNCHANGED <<outbox, refused, age, leased, holder, faults>>

\* publish() throws for an id that is not a UUID: the run is aborted.
PublishRefused(r, e) ==
  /\ relay[r].pc = "publish"
  /\ e \in relay[r].batch \intersect refused
  /\ EndRun(r)
  /\ UNCHANGED <<outbox, refused, age, leased, queue, sends, faults>>

\* Mutant of PublishFails: the error is swallowed and the envelope acknowledged.
PublishSwallowsError(r, e) ==
  /\ relay[r].pc = "publish"
  /\ e \in relay[r].batch \ refused
  /\ Fault
  /\ relay' = [relay EXCEPT ![r].pc = "acknowledge", ![r].current = e]
  /\ UNCHANGED <<outbox, refused, age, leased, holder, queue, sends>>

\* The send fails, or succeeds and its answer is lost: the run is aborted.
PublishFails(r, e) ==
  /\ relay[r].pc = "publish"
  /\ e \in relay[r].batch \ refused
  /\ Fault
  /\ Send(e) \/ UNCHANGED <<queue, sends>>
  /\ EndRun(r)
  /\ UNCHANGED <<outbox, refused, age, leased>>

\* Mutant of Acknowledge: the token is not compared.
AcknowledgeAnyToken(r) ==
  LET e == relay[r].current IN
  /\ relay[r].pc = "acknowledge"
  /\ outbox[e] = "undelivered"
  /\ outbox' = [outbox EXCEPT ![e] = "delivered"]
  /\ leased' = [leased EXCEPT ![e] = FALSE]
  /\ LET rest == relay[r].batch \ {e} IN
     IF rest = {}
     THEN EndRun(r)
     ELSE /\ relay'  = [relay EXCEPT ![r] = [pc |-> "publish", batch |-> rest,
                                             current |-> Nobody]]
          /\ holder' = [holder EXCEPT ![e] = Nobody]
  /\ UNCHANGED <<refused, age, queue, sends, faults>>

\* The acknowledgement finds its own token on an undelivered row.
Acknowledge(r) ==
  LET e == relay[r].current IN
  /\ relay[r].pc = "acknowledge"
  /\ holder[e] = r
  /\ outbox[e] = "undelivered"
  /\ outbox' = [outbox EXCEPT ![e] = "delivered"]
  /\ leased' = [leased EXCEPT ![e] = FALSE]
  /\ LET rest == relay[r].batch \ {e} IN
     IF rest = {}
     THEN EndRun(r)
     ELSE /\ relay'  = [relay EXCEPT ![r] = [pc |-> "publish", batch |-> rest,
                                             current |-> Nobody]]
          /\ holder' = [holder EXCEPT ![e] = Nobody]
  /\ UNCHANGED <<refused, age, queue, sends, faults>>

\* "Outbox claim is no longer active.": another relay claimed the row meanwhile.
ClaimLost(r) ==
  LET e == relay[r].current IN
  /\ relay[r].pc = "acknowledge"
  /\ holder[e] # r \/ outbox[e] # "undelivered"
  /\ EndRun(r)
  /\ UNCHANGED <<outbox, refused, age, leased, queue, sends, faults>>

\* The process dies, or the acknowledging transaction fails.
Crash(r) ==
  /\ relay[r].pc # "idle"
  /\ Fault
  /\ EndRun(r)
  /\ UNCHANGED <<outbox, refused, age, leased, queue, sends>>

\* Mutant of LeaseExpires: a row once claimed is never claimed again.
LeaseIsForever(e) ==
  /\ leased[e] /\ outbox[e] = "delivered"
  /\ leased' = [leased EXCEPT ![e] = FALSE]
  /\ UNCHANGED <<outbox, refused, age, holder, queue, sends, relay, faults>>

\* claimed_until passes.  It counts as a fault while a run still holds the row.
LeaseExpires(e) ==
  /\ leased[e]
  /\ leased' = [leased EXCEPT ![e] = FALSE]
  /\ IF holder[e] = Nobody THEN UNCHANGED faults ELSE Fault
  /\ UNCHANGED <<outbox, refused, age, holder, queue, sends, relay>>

\* A worker consumes the job; pg-boss keeps the finished row.
Consume(e) ==
  /\ queue[e] = "created"
  /\ queue' = [queue EXCEPT ![e] = "finished"]
  /\ UNCHANGED <<outbox, refused, age, leased, holder, sends, relay, faults>>

RelaySteps(r) ==
  \/ Claim(r) \/ Acknowledge(r) \/ ClaimLost(r)
  \/ \E e \in Envelopes : Publish(r, e) \/ PublishRefused(r, e)

Next ==
  \/ \E e \in Envelopes : Append(e) \/ LeaseExpires(e) \/ Consume(e)
  \/ \E r \in Relays : \/ RelaySteps(r) \/ Crash(r)
                       \/ \E e \in Envelopes : PublishFails(r, e)

Spec == Init /\ [][Next]_vars

\* The relay timer fires every second in every process and runs do not hang; the
\* database clock lets the leases that nobody works under run out.
Fairness ==
  /\ \A r \in Relays : WF_vars(RelaySteps(r))
  /\ \A e \in Envelopes : WF_vars(holder[e] = Nobody /\ LeaseExpires(e))

FairSpec == Spec /\ Fairness

-----------------------------------------------------------------------------
(* Properties *)

TypeOK ==
  /\ outbox \in [Envelopes -> {"absent", "undelivered", "delivered"}]
  /\ refused \subseteq Digests
  /\ age    \in [Envelopes -> Nat]
  /\ leased \in [Envelopes -> BOOLEAN]
  /\ holder \in [Envelopes -> Relays \union {Nobody}]
  /\ queue  \in [Envelopes -> {"absent", "created", "finished"}]
  /\ sends  \in [Envelopes -> Nat]
  /\ relay  \in [Relays -> RelayStates]
  /\ faults \in 0 .. MaxFaults

\* Nothing is lost between the two stores: a row is marked delivered only after
\* pg-boss has the job, whoever published it and whoever acknowledged it.
NothingLost ==
  \A e \in Envelopes : outbox[e] = "delivered" => queue[e] # "absent"

\* A run that lost its lease cannot disturb the run that took the row over: only
\* the relay whose token is on the row takes it out of the outbox (acknowledge).
OnlyHolderAcknowledges ==
  [][\A e \in Envelopes :
       outbox[e] = "undelivered" /\ outbox'[e] = "delivered" =>
         \E r \in Relays : /\ holder[e] = r
                           /\ relay[r].pc = "acknowledge"
                           /\ relay[r].current = e]_vars

\* A token on a row always belongs to a run that still works on that row: a run
\* that aborted, crashed or acknowledged leaves no token behind with which a later
\* run of the same process could acknowledge what it never published.
BatchIsHeld ==
  \A r \in Relays, e \in Envelopes :
    holder[e] = r => /\ e \in relay[r].batch
                     /\ outbox[e] = "undelivered"

\* Crash after publish and before acknowledge, lost answers, two relays at work on
\* the same row: pg-boss still creates one job for an envelope.
Delivery == INSTANCE OutboxDelivery WITH
  stage <- [e \in Envelopes |->
              IF sends[e] > 1 THEN "duplicated"
              ELSE IF sends[e] = 1 THEN "queued"
              ELSE IF outbox[e] = "absent" THEN "unused" ELSE "outbox"]

ImplementsDelivery == Delivery!Spec

\* Every envelope of the outbox reaches the queue.
EveryEnvelopeQueued ==
  \A e \in Envelopes : outbox[e] = "undelivered" ~> queue[e] # "absent"

\* As long as no writer has appended an id that pg-boss refuses, every envelope of
\* the outbox reaches the queue, whatever crashes and leases are lost.
EveryEnvelopeQueuedUnlessRefused ==
  \A e \in Envelopes :
    outbox[e] = "undelivered" ~> queue[e] # "absent" \/ refused # {}
=============================================================================
