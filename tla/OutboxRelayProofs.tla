-------------------------- MODULE OutboxRelayProofs --------------------------
(***************************************************************************)
(* Safety of OutboxRelay for every set of envelopes and relays, every      *)
(* batch size and any number of faults, and the refinement of              *)
(* OutboxDelivery, checked by TLAPS.                                       *)
(*                                                                         *)
(* The inductive invariant IInv adds to the properties what a run of a     *)
(* relay and pg-boss remember: a batch holds envelopes of the outbox, what *)
(* is being acknowledged has been published, and pg-boss has one job for   *)
(* each id it knows.                                                       *)
(***************************************************************************)
EXTENDS OutboxRelay, FiniteSetTheorems, TLAPS

\* The rows of the outbox table.
Appended == {e \in Envelopes : outbox[e] # "absent"}

\* A run works on rows of the outbox; it acknowledges one that pg-boss has.
RunsHoldRows ==
  \A r \in Relays :
    /\ relay[r].batch \subseteq Appended
    /\ relay[r].pc = "idle" => relay[r].batch = {}
    /\ relay[r].pc = "acknowledge" => /\ relay[r].current \in relay[r].batch
                                      /\ queue[relay[r].current] # "absent"

\* pg-boss creates one job for an id, and only for rows of the outbox.
OneJobEach ==
  \A e \in Envelopes :
    /\ sends[e] = IF queue[e] = "absent" THEN 0 ELSE 1
    /\ outbox[e] = "absent" => queue[e] = "absent"

\* The inductive invariant.
IInv == /\ TypeOK /\ IsFiniteSet(Appended)
        /\ RunsHoldRows /\ OneJobEach /\ BatchIsHeld /\ NothingLost

-----------------------------------------------------------------------------
(* The initial states *)

LEMMA InitInvariant == Init => IInv
<1> SUFFICES ASSUME Init PROVE IInv
  OBVIOUS
<1>1. Appended = {} /\ IsFiniteSet(Appended)
  BY FS_EmptySet DEF Init, Appended
<1>2. TypeOK
  BY RelayAssumption DEF Init, TypeOK, RelayStates, Idle
<1>3. RunsHoldRows /\ OneJobEach /\ BatchIsHeld /\ NothingLost
  BY RelayAssumption
     DEF Init, RunsHoldRows, OneJobEach, BatchIsHeld, NothingLost, Idle, Appended
<1> QED BY <1>1, <1>2, <1>3 DEF IInv

-----------------------------------------------------------------------------
(* Steps *)

LEMMA FaultTyped == ASSUME TypeOK, Fault PROVE faults' \in 0 .. MaxFaults
  BY RelayAssumption DEF TypeOK, Fault

\* The steps that share EndRun: a run ends and leaves its token nowhere.
LEMMA EndRunPreserves ==
  ASSUME IInv, NEW r \in Relays, EndRun(r), UNCHANGED <<outbox, queue, sends>>,
         UNCHANGED <<refused, age, leased>>, faults' \in 0 .. MaxFaults
  PROVE  IInv'
<1>1. TypeOK'
  BY DEF IInv, TypeOK, EndRun, RelayStates, Idle
<1>2. Appended' = Appended
  BY DEF Appended
<1>3. RunsHoldRows' /\ OneJobEach' /\ BatchIsHeld' /\ NothingLost'
  BY <1>2, RelayAssumption
     DEF IInv, TypeOK, EndRun, Idle, RunsHoldRows, OneJobEach, BatchIsHeld,
         NothingLost
<1> QED BY <1>1, <1>2, <1>3 DEF IInv

\* pg-boss creates the job of a row, or has it already.
LEMMA SendPreserves ==
  ASSUME IInv, NEW e \in Appended, Send(e), UNCHANGED outbox
  PROVE  /\ queue' \in [Envelopes -> {"absent", "created", "finished"}]
         /\ sends' \in [Envelopes -> Nat]
         /\ queue'[e] # "absent"
         /\ \A d \in Envelopes : queue[d] # "absent" => queue'[d] # "absent"
         /\ OneJobEach'
  BY DEF IInv, TypeOK, Appended, Send, OneJobEach

LEMMA AppendPreserves ==
  ASSUME IInv, NEW e \in Envelopes, Append(e)
  PROVE  IInv'
<1>1. Cardinality(Appended) \in Nat
  BY FS_CardinalityType DEF IInv
<1>2. TypeOK'
  <2>1. age' \in [Envelopes -> Nat]
    BY <1>1 DEF IInv, TypeOK, Append, Appended
  <2> QED BY <2>1 DEF IInv, TypeOK, Append
<1>3. Appended' = Appended \cup {e}
  BY DEF IInv, TypeOK, Append, Appended
<1>4. IsFiniteSet(Appended')
  BY <1>3, FS_AddElement DEF IInv
<1>5. RunsHoldRows' /\ OneJobEach'
  BY <1>3 DEF IInv, TypeOK, Append, RunsHoldRows, OneJobEach
<1>6. BatchIsHeld' /\ NothingLost'
  BY DEF IInv, TypeOK, Append, BatchIsHeld, NothingLost
<1> QED BY <1>2, <1>4, <1>5, <1>6 DEF IInv

LEMMA ClaimPreserves ==
  ASSUME IInv, NEW r \in Relays, Claim(r)
  PROVE  IInv'
<1> PICK batch \in SUBSET Envelopes :
      /\ Oldest(batch)
      /\ relay'  = [relay EXCEPT ![r] = [pc |-> "publish", batch |-> batch,
                                         current |-> Nobody]]
      /\ leased' = [e \in Envelopes |-> leased[e] \/ e \in batch]
      /\ holder' = [e \in Envelopes |-> IF e \in batch THEN r ELSE holder[e]]
  BY DEF Claim
<1>1. batch \subseteq Claimable
  BY DEF Oldest
<1>2. UNCHANGED <<outbox, refused, age, queue, sends, faults>>
  BY DEF Claim
<1>3. Appended' = Appended
  BY <1>2 DEF Appended
<1>4. leased' \in [Envelopes -> BOOLEAN]
  BY Zenon DEF IInv, TypeOK
<1>5. TypeOK'
  BY <1>2, <1>4 DEF IInv, TypeOK, RelayStates
<1>6. \A e \in batch : outbox[e] = "undelivered"
  BY <1>1 DEF Claimable
<1>7. RunsHoldRows' /\ OneJobEach' /\ NothingLost'
  BY <1>2, <1>3, <1>6
     DEF IInv, TypeOK, RunsHoldRows, OneJobEach, NothingLost, Appended
<1>8. \A e \in Envelopes : holder[e] # r
  BY DEF Claim, IInv, RunsHoldRows, BatchIsHeld
<1>9. BatchIsHeld'
  BY <1>2, <1>6, <1>8 DEF IInv, TypeOK, BatchIsHeld
<1> QED BY <1>3, <1>5, <1>7, <1>9, <1>2 DEF IInv

\* A relay publishes an envelope of its batch, or fails to and ends its run.
LEMMA PublishPreserves ==
  ASSUME IInv, NEW r \in Relays, NEW e \in Envelopes,
         Publish(r, e) \/ PublishRefused(r, e) \/ PublishFails(r, e)
  PROVE  IInv'
<1>1. e \in Appended /\ UNCHANGED outbox
  BY DEF Publish, PublishRefused, PublishFails, IInv, RunsHoldRows
<1>2. Appended' = Appended
  BY <1>1 DEF Appended
<1>3. CASE Publish(r, e)
  <2>1. OneJobEach' /\ queue' \in [Envelopes -> {"absent", "created", "finished"}]
        /\ sends' \in [Envelopes -> Nat]
    BY <1>1, <1>3, SendPreserves DEF Publish
  <2>2. relay \in [Relays -> RelayStates]
    BY DEF IInv, TypeOK
  <2>3. relay' \in [Relays -> RelayStates]
    <3>1. [relay[r] EXCEPT !.pc = "acknowledge", !.current = e] \in RelayStates
      BY <2>2 DEF RelayStates
    <3>2. relay' = [relay EXCEPT ![r] =
                      [relay[r] EXCEPT !.pc = "acknowledge", !.current = e]]
      BY <1>3 DEF Publish
    <3> QED BY <2>2, <3>1, <3>2
  <2>4. TypeOK'
    BY <1>3, <2>1, <2>3 DEF Publish, IInv, TypeOK
  <2>5. RunsHoldRows' /\ BatchIsHeld' /\ NothingLost'
    BY <1>1, <1>2, <1>3, SendPreserves
       DEF Publish, IInv, TypeOK, RelayStates, RunsHoldRows, BatchIsHeld, NothingLost
  <2> QED BY <1>2, <2>1, <2>4, <2>5 DEF IInv
<1>4. CASE PublishRefused(r, e)
  <2>1. faults' \in 0 .. MaxFaults
    BY <1>4 DEF PublishRefused, IInv, TypeOK
  <2> QED BY <1>4, <2>1, EndRunPreserves DEF PublishRefused
<1>5. CASE PublishFails(r, e)
  <2>1. faults' \in 0 .. MaxFaults
    BY <1>5, FaultTyped DEF PublishFails, IInv
  <2>2. CASE UNCHANGED <<queue, sends>>
    BY <1>5, <2>1, <2>2, EndRunPreserves DEF PublishFails
  <2>3. CASE Send(e)
    <3>1. TypeOK' /\ OneJobEach'
      BY <1>1, <1>5, <2>1, <2>3, SendPreserves
         DEF PublishFails, EndRun, Idle, IInv, TypeOK, RelayStates
    <3>2. RunsHoldRows' /\ BatchIsHeld' /\ NothingLost'
      BY <1>1, <1>2, <1>5, <2>3, SendPreserves, RelayAssumption
         DEF PublishFails, EndRun, Idle, IInv, TypeOK, RelayStates, RunsHoldRows,
             BatchIsHeld, NothingLost
    <3> QED BY <1>2, <3>1, <3>2 DEF IInv
  <2> QED BY <1>5, <2>2, <2>3 DEF PublishFails
<1> QED BY <1>3, <1>4, <1>5

LEMMA AcknowledgePreserves ==
  ASSUME IInv, NEW r \in Relays, Acknowledge(r)
  PROVE  IInv'
<1> DEFINE e == relay[r].current
           rest == relay[r].batch \ {e}
<1>1. /\ e \in Envelopes /\ e \in relay[r].batch
      /\ queue[e] # "absent" /\ outbox[e] = "undelivered"
  BY DEF Acknowledge, IInv, TypeOK, RunsHoldRows, Appended
<1>2. /\ outbox' = [outbox EXCEPT ![e] = "delivered"]
      /\ leased' = [leased EXCEPT ![e] = FALSE]
      /\ UNCHANGED <<refused, age, queue, sends, faults>>
  BY DEF Acknowledge
<1>3. \/ EndRun(r) /\ rest = {}
      \/ /\ relay'  = [relay EXCEPT ![r] = [pc |-> "publish", batch |-> rest,
                                             current |-> Nobody]]
         /\ holder' = [holder EXCEPT ![e] = Nobody]
  BY DEF Acknowledge
<1> HIDE DEF rest
<1>4. rest \subseteq relay[r].batch /\ e \notin rest
  BY DEF rest
<1>5. Appended' = Appended
  BY <1>1, <1>2 DEF Appended, IInv, TypeOK
<1> HIDE DEF e
<1>6. TypeOK'
  <2>1. rest \in SUBSET Envelopes
    BY <1>4 DEF IInv, TypeOK, RelayStates
  <2>2. relay' \in [Relays -> RelayStates]
    BY <1>3, <2>1 DEF EndRun, Idle, IInv, TypeOK, RelayStates
  <2>3. holder' \in [Envelopes -> Relays \union {Nobody}]
    BY <1>3 DEF EndRun, IInv, TypeOK
  <2> QED BY <1>1, <1>2, <2>2, <2>3 DEF IInv, TypeOK
<1>7. RunsHoldRows'
  BY <1>2, <1>3, <1>4, <1>5
     DEF EndRun, Idle, IInv, TypeOK, RelayStates, RunsHoldRows
<1>8. OneJobEach' /\ NothingLost'
  BY <1>1, <1>2 DEF IInv, TypeOK, OneJobEach, NothingLost
<1>9. BatchIsHeld'
  <2> SUFFICES ASSUME NEW q \in Relays, NEW d \in Envelopes, holder'[d] = q
               PROVE  d \in relay'[q].batch /\ outbox'[d] = "undelivered"
    BY DEF BatchIsHeld
  <2>1. holder[d] = q /\ d # e
    BY <1>1, <1>2, <1>3, RelayAssumption
       DEF EndRun, IInv, TypeOK, Acknowledge, e
  <2>2. d \in relay[q].batch /\ outbox[d] = "undelivered"
    BY <2>1 DEF IInv, BatchIsHeld
  <2> QED BY <1>1, <1>2, <1>3, <2>1, <2>2, RelayAssumption
             DEF EndRun, IInv, TypeOK, rest
<1> QED BY <1>5, <1>6, <1>7, <1>8, <1>9 DEF IInv

\* A run that finds its token gone, or dies, only ends.
LEMMA AbortPreserves ==
  ASSUME IInv, NEW r \in Relays, ClaimLost(r) \/ Crash(r)
  PROVE  IInv'
<1>1. faults' \in 0 .. MaxFaults
  BY FaultTyped DEF ClaimLost, Crash, IInv, TypeOK
<1> QED BY <1>1, EndRunPreserves DEF ClaimLost, Crash

\* The lease of a row and the job in pg-boss do not matter to the runs.
LEMMA LeaseAndConsumerPreserve ==
  ASSUME IInv, NEW e \in Envelopes, LeaseExpires(e) \/ Consume(e)
  PROVE  IInv'
<1>1. faults' \in 0 .. MaxFaults
  BY FaultTyped DEF LeaseExpires, Consume, IInv, TypeOK
<1>2. TypeOK'
  BY <1>1 DEF LeaseExpires, Consume, IInv, TypeOK
<1>3. Appended' = Appended
  BY DEF LeaseExpires, Consume, Appended
<1>4. UNCHANGED <<outbox, holder, relay, sends>>
  BY DEF LeaseExpires, Consume
<1>5. \A d \in Envelopes : queue'[d] = "absent" <=> queue[d] = "absent"
  <2>1. CASE LeaseExpires(e)
    BY <2>1 DEF LeaseExpires
  <2>2. CASE Consume(e)
    BY <2>2 DEF Consume, IInv, TypeOK
  <2> QED BY <2>1, <2>2
<1>6. RunsHoldRows'
  BY <1>3, <1>4, <1>5 DEF IInv, RunsHoldRows, Appended
<1>7. OneJobEach' /\ BatchIsHeld' /\ NothingLost'
  BY <1>4, <1>5 DEF IInv, OneJobEach, BatchIsHeld, NothingLost
<1> QED BY <1>2, <1>3, <1>6, <1>7 DEF IInv

LEMMA StepPreserves == IInv /\ [Next]_vars => IInv'
<1> SUFFICES ASSUME IInv, [Next]_vars PROVE IInv'
  OBVIOUS
<1>1. CASE UNCHANGED vars
  BY <1>1 DEF vars, IInv, TypeOK, Appended, RunsHoldRows, OneJobEach, BatchIsHeld,
              NothingLost
<1>2. CASE \E e \in Envelopes : Append(e) \/ LeaseExpires(e) \/ Consume(e)
  BY <1>2, AppendPreserves, LeaseAndConsumerPreserve
<1>3. CASE \E r \in Relays : \/ RelaySteps(r) \/ Crash(r)
                             \/ \E e \in Envelopes : PublishFails(r, e)
  BY <1>3, ClaimPreserves, PublishPreserves, AcknowledgePreserves, AbortPreserves
     DEF RelaySteps
<1> QED BY <1>1, <1>2, <1>3 DEF Next

LEMMA Invariance == Spec => []IInv
  BY InitInvariant, StepPreserves, PTL DEF Spec

-----------------------------------------------------------------------------
(* The properties *)

\* The variables have their types: ages and counters are numbers although nothing
\* bounds the number of envelopes, because only finitely many are appended.
THEOREM TypeCorrect == Spec => []TypeOK
<1>1. IInv => TypeOK
  BY DEF IInv
<1> QED BY <1>1, Invariance, PTL

\* A row is marked delivered only once pg-boss has the job (publish precedes
\* acknowledge in runOnce, whoever does either).
THEOREM DeliveredRowsAreQueued == Spec => []NothingLost
<1>1. IInv => NothingLost
  BY DEF IInv
<1> QED BY <1>1, Invariance, PTL

\* A claim token on a row belongs to a run that still works on the row.
THEOREM TokensBelongToRuns == Spec => []BatchIsHeld
<1>1. IInv => BatchIsHeld
  BY DEF IInv
<1> QED BY <1>1, Invariance, PTL

\* acknowledge takes a row out of the outbox only under the token on the row.
THEOREM AcknowledgedByHolder == Spec => OnlyHolderAcknowledges
<1> DEFINE ByHolder(e) ==
      outbox[e] = "undelivered" /\ outbox'[e] = "delivered" =>
        \E r \in Relays : /\ holder[e] = r
                          /\ relay[r].pc = "acknowledge"
                          /\ relay[r].current = e
<1>1. ASSUME TypeOK, [Next]_vars, NEW e \in Envelopes PROVE ByHolder(e)
  <2>1. CASE \E r \in Relays : Acknowledge(r)
    BY <1>1, <2>1 DEF Acknowledge, TypeOK
  <2>2. ASSUME ~ \E r \in Relays : Acknowledge(r)
        PROVE  outbox' = outbox \/ \E d \in Envelopes : Append(d)
    BY <1>1, <2>2
       DEF Next, RelaySteps, Claim, ClaimLost, Publish, PublishRefused,
           PublishFails, Crash, LeaseExpires, Consume, vars
  <2>3. CASE \E d \in Envelopes : Append(d)
    BY <1>1, <2>3 DEF Append, TypeOK
  <2> QED BY <2>1, <2>2, <2>3
<1>2. IInv /\ [Next]_vars => [\A e \in Envelopes : ByHolder(e)]_vars
  BY <1>1 DEF IInv
<1> QED BY <1>2, Invariance, PTL DEF Spec, OnlyHolderAcknowledges

-----------------------------------------------------------------------------
(* The refinement of OutboxDelivery *)

\* The stage of an envelope in OutboxDelivery, as ImplementsDelivery maps it.
StageOf(e) == IF sends[e] > 1 THEN "duplicated"
              ELSE IF sends[e] = 1 THEN "queued"
              ELSE IF outbox[e] = "absent" THEN "unused" ELSE "outbox"

StageMap == [e \in Envelopes |-> StageOf(e)]

\* The job of an appended envelope is created: the stage of that one advances.
LEMMA SendRelays ==
  ASSUME IInv, NEW e \in Appended, Send(e), UNCHANGED outbox
  PROVE  \/ UNCHANGED StageMap
         \/ StageOf(e) = "outbox" /\ StageMap' = [StageMap EXCEPT ![e] = "queued"]
<1>1. e \in Envelopes /\ outbox[e] # "absent"
  BY DEF Appended
<1>2. CASE queue[e] = "absent"
  <2>1. sends[e] = 0 /\ sends' = [sends EXCEPT ![e] = 1]
    BY <1>1, <1>2 DEF Send, IInv, OneJobEach
  <2>2. sends' = [d \in Envelopes |-> IF d = e THEN 1 ELSE sends[d]]
    BY <2>1 DEF IInv, TypeOK
  <2>3. \A d \in Envelopes : StageOf(d)' = IF d = e THEN "queued" ELSE StageOf(d)
    BY <2>2 DEF StageOf
  <2>4. StageMap' = [StageMap EXCEPT ![e] = "queued"]
    BY <2>3 DEF StageMap
  <2>5. StageOf(e) = "outbox"
    BY <1>1, <2>1 DEF StageOf
  <2> QED BY <2>4, <2>5
<1>3. CASE queue[e] # "absent"
  BY <1>3 DEF Send, StageMap, StageOf
<1> QED BY <1>2, <1>3

\* An envelope is appended: its stage becomes "outbox".
LEMMA AppendAppends ==
  ASSUME IInv, NEW e \in Envelopes, Append(e)
  PROVE  StageOf(e) = "unused" /\ StageMap' = [StageMap EXCEPT ![e] = "outbox"]
<1>1. sends[e] = 0 /\ outbox[e] = "absent" /\ UNCHANGED sends
  BY DEF Append, IInv, OneJobEach
<1>2. outbox' = [d \in Envelopes |-> IF d = e THEN "undelivered" ELSE outbox[d]]
  BY DEF Append, IInv, TypeOK
<1>3. \A d \in Envelopes : StageOf(d)' = IF d = e THEN "outbox" ELSE StageOf(d)
  BY <1>1, <1>2 DEF StageOf
<1>4. StageMap' = [StageMap EXCEPT ![e] = "outbox"]
  BY <1>3 DEF StageMap
<1>5. StageOf(e) = "unused"
  BY <1>1 DEF StageOf
<1> QED BY <1>4, <1>5

\* The other steps leave every stage as it is.
LEMMA OthersStutter ==
  ASSUME IInv, UNCHANGED sends,
         \A e \in Envelopes : outbox'[e] = "absent" <=> outbox[e] = "absent"
  PROVE  UNCHANGED StageMap
  BY DEF StageMap, StageOf

LEMMA EveryStepMaps ==
  ASSUME IInv, [Next]_vars
  PROVE  \/ UNCHANGED StageMap
         \/ \E e \in Envelopes :
              \/ StageOf(e) = "unused" /\ StageMap' = [StageMap EXCEPT ![e] = "outbox"]
              \/ StageOf(e) = "outbox" /\ StageMap' = [StageMap EXCEPT ![e] = "queued"]
<1>1. ASSUME NEW e \in Envelopes, Append(e)
      PROVE  StageOf(e) = "unused" /\ StageMap' = [StageMap EXCEPT ![e] = "outbox"]
  BY <1>1, AppendAppends
<1>2. ASSUME NEW r \in Relays, NEW e \in Envelopes,
             Publish(r, e) \/ PublishFails(r, e)
      PROVE  \/ UNCHANGED StageMap
             \/ StageOf(e) = "outbox" /\ StageMap' = [StageMap EXCEPT ![e] = "queued"]
  <2>1. e \in Appended /\ UNCHANGED outbox
    BY <1>2 DEF Publish, PublishFails, IInv, RunsHoldRows
  <2>2. CASE Send(e)
    BY <2>1, <2>2, SendRelays
  <2>3. CASE UNCHANGED sends
    BY <2>1, <2>3, OthersStutter
  <2> QED BY <1>2, <2>2, <2>3 DEF Publish, PublishFails
<1>3. ASSUME NEW r \in Relays, Acknowledge(r)
      PROVE  UNCHANGED StageMap
  <2>1. relay[r].current \in Envelopes /\ outbox[relay[r].current] = "undelivered"
    BY <1>3 DEF Acknowledge, IInv, TypeOK, RunsHoldRows, Appended
  <2> QED BY <1>3, <2>1, OthersStutter DEF Acknowledge, IInv, TypeOK
<1>4. ASSUME UNCHANGED <<outbox, sends>>
      PROVE  UNCHANGED StageMap
  BY <1>4, OthersStutter
<1>5. ASSUME NEW r \in Relays, Claim(r) \/ ClaimLost(r) \/ Crash(r)
      PROVE  UNCHANGED StageMap
  BY <1>4, <1>5 DEF Claim, ClaimLost, Crash
<1>6. ASSUME NEW r \in Relays, NEW e \in Envelopes, PublishRefused(r, e)
      PROVE  UNCHANGED StageMap
  BY <1>4, <1>6 DEF PublishRefused
<1>7. ASSUME NEW e \in Envelopes, LeaseExpires(e) \/ Consume(e)
      PROVE  UNCHANGED StageMap
  BY <1>4, <1>7 DEF LeaseExpires, Consume
<1>8. CASE UNCHANGED vars
  BY <1>4, <1>8 DEF vars
<1>9. CASE Next
  BY <1>1, <1>2, <1>3, <1>5, <1>6, <1>7, <1>9, Zenon DEF Next, RelaySteps
<1> QED BY <1>8, <1>9

\* The relays do to each envelope what OutboxDelivery says: it enters pg-boss once,
\* after it was committed, whatever is published again or acknowledged late.
THEOREM RelayImplementsDelivery == Spec => ImplementsDelivery
<1>1. Init => Delivery!Init
  BY DEF Init, Delivery!Init
<1>2. IInv /\ [Next]_vars => Delivery!Next \/ UNCHANGED StageMap
  BY EveryStepMaps
     DEF Delivery!Next, Delivery!Append, Delivery!Relay, StageMap, StageOf
<1> QED BY <1>1, <1>2, Invariance, PTL
           DEF Spec, ImplementsDelivery, Delivery!Spec, StageMap, StageOf
=============================================================================
