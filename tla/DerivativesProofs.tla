--------------------------- MODULE DerivativesProofs ---------------------------
(***************************************************************************)
(* Safety of Derivatives for every set of workers and purgers and every    *)
(* bound.                                                                  *)
(*                                                                         *)
(* The argument is about keys.  A claim takes a key nobody has had; until  *)
(* the completion only its worker knows it, so that neither the cleanup of *)
(* another worker nor a purge can hit it.  The only work item has the key  *)
(* that the row names, and while it is not completed the row stays as it   *)
(* is; once it is completed its object is gone and the row has another key *)
(* for ever, which is why a purger may delete as late as it likes.  Or the *)
(* item has no key, from a row that named no output, and deletes nothing.  *)
(***************************************************************************)
EXTENDS Derivatives, TLAPS

Keys == 1 .. claims

Rows == [status : {"none", "pending", "completed", "failed"},
         owner : Workers \union {None}, leased : BOOLEAN, output : Outputs,
         retryable : BOOLEAN, deleted : BOOLEAN, expires : BOOLEAN]

WorkerRows == [pc : {"idle", "write", "complete", "record", "fail", "cleanup"},
               output : Outputs, retryable : BOOLEAN]

Items == [state : {"none", "queued", "running", "completed"}, key : Outputs,
          owner : Purgers \union {None}, leased : BOOLEAN]

PurgerRows == [pc : {"idle", "delete", "complete"}, live : BOOLEAN]

\* Every key has been handed out by a claim, to one worker.
KeysHandedOut ==
  /\ objects \subseteq Keys
  /\ row.output \in 0 .. claims /\ item.key \in 0 .. claims
  /\ \A w \in Workers : worker[w].output \in 0 .. claims
  /\ \A v, w \in Workers : worker[v].output = worker[w].output =>
                             v = w \/ worker[w].output = 0

\* The row names an output when it is completed, until its purge is.
RowNames ==
  /\ row.status # "completed" => row.output = 0
  /\ row.status = "completed" /\ ~row.deleted => row.output # 0
  /\ row.deleted => row.output = 0 /\ item.state = "completed"

\* The work item is for the output that the row names, and then for none of its.
ItemFollowsRow ==
  /\ item.state \in {"queued", "running"} =>
       item.key = 0 \/ (row.status = "completed" /\ item.key = row.output)
  /\ item.state = "none" => \A p \in Purgers : purger[p].pc = "idle"
  /\ item.state = "completed" => row.output = 0 \/ row.output # item.key
  /\ \A p \in Purgers : purger[p].pc = "complete" => item.key \notin objects

\* What the workers know of their outputs.
OutputsOfWorkers ==
  \A w \in Workers :
    LET o == worker[w].output IN
    /\ worker[w].pc \in {"write", "complete"} =>
         o # 0 /\ o # row.output /\ o # item.key
    /\ worker[w].pc = "complete" => o \in objects
    /\ worker[w].pc \in {"fail", "cleanup"} =>
         o # 0 /\ (o # row.output \/ o \in disowned)
    /\ worker[w].pc = "record" /\ o \in objects =>
         o = row.output \/ o \in overlooked
    /\ worker[w].pc = "idle" => o = 0

IInv ==
  /\ TypeOK /\ KeysHandedOut /\ RowNames /\ ItemFollowsRow
  /\ OutputsOfWorkers /\ CachedOutputIsThere /\ NoOrphanedOutput

-----------------------------------------------------------------------------
(* Records *)

LEMMA Records ==
  /\ NoRow \in Rows /\ NoRow.status = "none" /\ NoRow.output = 0 /\ ~NoRow.deleted
  /\ Idle \in WorkerRows /\ Idle.pc = "idle" /\ Idle.output = 0
  /\ NoItem \in Items /\ NoItem.state = "none" /\ NoItem.key = 0
  /\ IdlePurger \in PurgerRows /\ IdlePurger.pc = "idle"
<1>1. 0 \in Outputs
  BY DerivativeAssumption DEF Outputs
<1>2. NoRow \in Rows /\ NoRow.status = "none" /\ NoRow.output = 0 /\ ~NoRow.deleted
  BY <1>1 DEF NoRow, Rows
<1>3. Idle \in WorkerRows /\ Idle.pc = "idle" /\ Idle.output = 0
  BY <1>1 DEF Idle, WorkerRows
<1>4. NoItem \in Items /\ NoItem.state = "none" /\ NoItem.key = 0
  BY <1>1 DEF NoItem, Items
<1>5. IdlePurger \in PurgerRows /\ IdlePurger.pc = "idle"
  BY DEF IdlePurger, PurgerRows
<1> QED BY <1>2, <1>3, <1>4, <1>5

LEMMA Typed ==
  ASSUME TypeOK
  PROVE  /\ row \in Rows /\ item \in Items
         /\ worker \in [Workers -> WorkerRows] /\ purger \in [Purgers -> PurgerRows]
         /\ claims \in Nat /\ claims \in Outputs /\ objects \subseteq Outputs
BY DerivativeAssumption DEF TypeOK, Rows, Items, WorkerRows, PurgerRows, Outputs

LEMMA ClaimedRow ==
  ASSUME NEW w \in Workers, NEW d \in BOOLEAN, NEW e \in BOOLEAN
  PROVE  LET r == [NoRow EXCEPT !.status = "pending", !.owner = w, !.leased = TRUE,
                                !.deleted = d, !.expires = e]
         IN r \in Rows /\ r.status = "pending" /\ r.output = 0 /\ (r.deleted <=> d)
<1> DEFINE r == [NoRow EXCEPT !.status = "pending", !.owner = w, !.leased = TRUE,
                              !.deleted = d, !.expires = e]
<1>1. NoRow \in Rows /\ NoRow.output = 0
  BY Records
<1>2. r \in Rows
  BY <1>1 DEF Rows
<1>3. r.status = "pending"
  BY <1>1 DEF Rows
<1>4. r.output = 0
  BY <1>1 DEF Rows
<1>5. r.deleted <=> d
  BY <1>1 DEF Rows
<1> QED BY <1>2, <1>3, <1>4, <1>5

LEMMA CompletedRow ==
  ASSUME NEW o \in Outputs, NEW e \in BOOLEAN
  PROVE  LET r == [NoRow EXCEPT !.status = "completed", !.output = o, !.expires = e]
         IN r \in Rows /\ r.status = "completed" /\ r.output = o /\ ~r.deleted
BY DerivativeAssumption DEF NoRow, Rows, Outputs

LEMMA Moved ==
  ASSUME TypeOK, NEW w \in Workers, NEW r \in WorkerRows,
         worker' = [worker EXCEPT ![w] = r]
  PROVE  /\ worker' \in [Workers -> WorkerRows]
         /\ worker'[w] = r /\ \A v \in Workers \ {w} : worker'[v] = worker[v]
BY Typed

LEMMA WentTo ==
  ASSUME TypeOK, NEW w \in Workers,
         NEW pc \in {"write", "complete", "record", "fail", "cleanup"}, Goto(w, pc)
  PROVE  /\ worker' \in [Workers -> WorkerRows]
         /\ worker'[w].pc = pc /\ worker'[w].output = worker[w].output
            /\ \A v \in Workers \ {w} : worker'[v] = worker[v]
BY Typed DEF Goto, WorkerRows

LEMMA FaultTyped ==
  ASSUME TypeOK, Fault \/ UNCHANGED faults PROVE faults' \in 0 .. MaxFaults
BY DerivativeAssumption DEF TypeOK, Fault

LEMMA InitInvariant == Init => IInv
<1> SUFFICES ASSUME Init PROVE IInv
  OBVIOUS
<1>1. /\ row = NoRow /\ item = NoItem /\ objects = {} /\ claims = 0
      /\ worker = [w \in Workers |-> Idle]
      /\ purger = [p \in Purgers |-> IdlePurger]
  BY DEF Init
<1>2. TypeOK
  <2>1. row \in Rows /\ item \in Items
    BY <1>1, Records
  <2>2. worker \in [Workers -> WorkerRows] /\ purger \in [Purgers -> PurgerRows]
    BY <1>1, Records
  <2>3. 0 \in Outputs
    BY DerivativeAssumption DEF Outputs
  <2>4. /\ objects \subseteq Outputs /\ claims \in Outputs
        /\ disowned \union left \union doomed \union unqueued \union overlooked
             \subseteq Outputs
    BY <1>1, <2>3 DEF Init
  <2>5. /\ stage \in {"none", "created", "active", "acknowledged", "dead"}
        /\ abandoned \in BOOLEAN
    BY DEF Init
  <2>6. retries \in 0 .. RetryLimit /\ faults \in 0 .. MaxFaults
    BY DerivativeAssumption DEF Init
  <2> QED BY <2>1, <2>2, <2>4, <2>5, <2>6
          DEF TypeOK, Rows, Items, WorkerRows, PurgerRows
<1>3. KeysHandedOut
  BY <1>1, Records DEF KeysHandedOut, Keys
<1>4. RowNames /\ ItemFollowsRow /\ OutputsOfWorkers
  BY <1>1, Records DEF RowNames, ItemFollowsRow, OutputsOfWorkers
<1>5. CachedOutputIsThere /\ NoOrphanedOutput
  BY <1>1, Records DEF CachedOutputIsThere, Cached, NoOrphanedOutput
<1> QED BY <1>2, <1>3, <1>4, <1>5 DEF IInv

-----------------------------------------------------------------------------
(* The workers *)

LEMMA TypedNext ==
  ASSUME row' \in Rows, item' \in Items, worker' \in [Workers -> WorkerRows],
         purger' \in [Purgers -> PurgerRows], objects' \subseteq Outputs,
         claims' \in Outputs, overlooked' \subseteq Outputs,
         disowned' \subseteq Outputs, left' \subseteq Outputs,
         doomed' \subseteq Outputs, unqueued' \subseteq Outputs,
         stage' \in {"none", "created", "active", "acknowledged", "dead"},
         retries' \in 0 .. RetryLimit, abandoned' \in BOOLEAN,
         faults' \in 0 .. MaxFaults
  PROVE  TypeOK'
<1>1. disowned' \union left' \union doomed' \union unqueued' \union overlooked'
        \subseteq Outputs
  OBVIOUS
<1> QED BY <1>1 DEF TypeOK, Rows, Items, WorkerRows, PurgerRows

LEMMA TypedRest ==
  ASSUME TypeOK
  PROVE  /\ overlooked \subseteq Outputs
         /\ disowned \subseteq Outputs /\ left \subseteq Outputs
         /\ doomed \subseteq Outputs /\ unqueued \subseteq Outputs
         /\ stage \in {"none", "created", "active", "acknowledged", "dead"}
         /\ retries \in 0 .. RetryLimit /\ abandoned \in BOOLEAN
         /\ faults \in 0 .. MaxFaults
BY DEF TypeOK

LEMMA ClaimPreserves ==
  ASSUME IInv, NEW w \in Workers, Claim(w)
  PROVE  IInv'
<1>1. /\ row \in Rows /\ item \in Items /\ claims \in Nat /\ objects \subseteq Outputs
      /\ worker \in [Workers -> WorkerRows] /\ purger \in [Purgers -> PurgerRows]
  BY Typed DEF IInv
<1>2. /\ row' \in Rows /\ row'.status = "pending" /\ row'.output = 0
      /\ row'.deleted => row.deleted
  <2> DEFINE d == row.deleted /\ row.status # "completed"
  <2>1. d \in BOOLEAN /\ row.expires \in BOOLEAN
    BY <1>1 DEF Rows
  <2>2. row' = [NoRow EXCEPT !.status = "pending", !.owner = w, !.leased = TRUE,
                             !.deleted = d, !.expires = row.expires]
    BY DEF Claim
  <2>3. d => row.deleted
    OBVIOUS
  <2> HIDE DEF d
  <2> QED BY <2>1, <2>2, <2>3, ClaimedRow
<1>3. /\ claims' = claims + 1 /\ claims' \in Outputs /\ claims < MaxClaims
      /\ UNCHANGED <<objects, item, purger, disowned, left, overlooked>>
  BY <1>1, DerivativeAssumption DEF Claim, Outputs, purge_vars
<1>4. PICK r \in WorkerRows : /\ r.pc = "write" /\ r.output = claims + 1
                              /\ worker' = [worker EXCEPT ![w] = r]
  <2> DEFINE r == [pc |-> "write", output |-> claims + 1, retryable |-> FALSE]
  <2>1. r \in WorkerRows
    BY <1>3 DEF WorkerRows
  <2>2. worker' = [worker EXCEPT ![w] = r]
    BY DEF Claim, NewOutput
  <2> QED BY <2>1, <2>2
<1>5. /\ worker' \in [Workers -> WorkerRows]
      /\ worker'[w].pc = "write" /\ worker'[w].output = claims + 1
      /\ \A v \in Workers \ {w} : worker'[v] = worker[v]
  BY <1>4, Moved DEF IInv
<1>6. TypeOK'
  BY <1>1, <1>2, <1>3, <1>5, TypedNext, TypedRest DEF IInv, Claim, purge_vars
<1>7. KeysHandedOut'
  BY <1>1, <1>2, <1>3, <1>5 DEF IInv, KeysHandedOut, Keys
<1>8. Claimable /\ (row.status # "completed" \/ row.deleted)
  BY DEF Claim, Claimable
<1>9. RowNames' /\ ItemFollowsRow'
  BY <1>1, <1>2, <1>3, <1>5, <1>8 DEF IInv, RowNames, ItemFollowsRow
<1>10. row.output = 0
  BY <1>8 DEF IInv, RowNames
<1>11. OutputsOfWorkers'
  BY <1>1, <1>2, <1>3, <1>5, <1>10 DEF IInv, OutputsOfWorkers, KeysHandedOut, Keys
<1>12. CachedOutputIsThere'
  BY <1>2 DEF CachedOutputIsThere, Cached
<1>13. worker[w] = Idle /\ worker[w].output = 0
  BY Records DEF Claim
<1>14. NoOrphanedOutput'
  BY <1>1, <1>3, <1>5, <1>10, <1>13 DEF IInv, NoOrphanedOutput, KeysHandedOut, Keys
<1> QED BY <1>6, <1>7, <1>9, <1>11, <1>12, <1>14 DEF IInv

\* A worker that gives up changes its place, and at most fails its own claim.
LEMMA FailingPreserves ==
  ASSUME IInv, NEW w \in Workers, NEW pc \in {"fail", "cleanup"},
         worker[w].pc \in {"write", "complete", "fail"},
         /\ worker' \in [Workers -> WorkerRows]
         /\ worker'[w].pc = pc /\ worker'[w].output = worker[w].output
            /\ \A v \in Workers \ {w} : worker'[v] = worker[v],
         row' \in Rows,
         \/ row' = row
         \/ /\ row.status = "pending" /\ row'.status = "failed"
            /\ row'.output = row.output /\ row'.deleted = row.deleted,
         UNCHANGED <<objects, claims, disowned, left, purge_vars>>,
         faults' \in 0 .. MaxFaults
  PROVE  IInv'
<1>1. /\ row \in Rows /\ item \in Items /\ claims \in Nat /\ objects \subseteq Outputs
      /\ worker \in [Workers -> WorkerRows] /\ purger \in [Purgers -> PurgerRows]
      /\ claims \in Outputs
  BY Typed DEF IInv
<1>2. UNCHANGED <<item, purger, overlooked>>
  BY DEF purge_vars
<1>3. TypeOK'
  BY <1>1, TypedNext, TypedRest DEF IInv, purge_vars
<1>4. KeysHandedOut'
  BY <1>1, <1>2 DEF IInv, KeysHandedOut, Keys
<1>5. RowNames'
  BY <1>1, <1>2 DEF IInv, RowNames
<1>6. ItemFollowsRow'
  BY <1>1, <1>2 DEF IInv, ItemFollowsRow
<1>7. OutputsOfWorkers'
  <2> SUFFICES ASSUME NEW v \in Workers
      PROVE  LET o == worker'[v].output IN
             /\ worker'[v].pc \in {"write", "complete"} =>
                  o # 0 /\ o # row'.output /\ o # item'.key
             /\ worker'[v].pc = "complete" => o \in objects'
             /\ worker'[v].pc \in {"fail", "cleanup"} =>
                  o # 0 /\ (o # row'.output \/ o \in disowned')
             /\ worker'[v].pc = "record" /\ o \in objects' =>
                  o = row'.output \/ o \in overlooked'
             /\ worker'[v].pc = "idle" => o = 0
    BY DEF OutputsOfWorkers
  <2>1. row'.output = row.output
    OBVIOUS
  <2>2. CASE v = w
    BY <1>1, <1>2, <2>1, <2>2 DEF IInv, OutputsOfWorkers
  <2>3. CASE v # w
    BY <1>1, <1>2, <2>1, <2>3 DEF IInv, OutputsOfWorkers
  <2> QED BY <2>2, <2>3
<1>8. CachedOutputIsThere'
  BY <1>1, <1>2 DEF IInv, CachedOutputIsThere, Cached
<1>9. NoOrphanedOutput'
  BY <1>1, <1>2 DEF IInv, NoOrphanedOutput
<1> QED BY <1>3, <1>4, <1>5, <1>6, <1>7, <1>8, <1>9 DEF IInv

LEMMA ProcessingThrowsPreserves ==
  ASSUME IInv, NEW w \in Workers, ProcessingThrows(w) PROVE IInv'
<1>1. PICK retryable \in BOOLEAN :
        worker' = [worker EXCEPT ![w].pc = "fail", ![w].retryable = retryable]
  BY DEF ProcessingThrows
<1>2. worker \in [Workers -> WorkerRows] /\ row \in Rows
  BY Typed DEF IInv
<1>3. /\ worker' \in [Workers -> WorkerRows]
      /\ worker'[w].pc = "fail" /\ worker'[w].output = worker[w].output
      /\ \A v \in Workers \ {w} : worker'[v] = worker[v]
  BY <1>1, <1>2 DEF WorkerRows
<1>4. /\ worker[w].pc \in {"write", "complete", "fail"} /\ row' = row
      /\ UNCHANGED <<objects, claims, disowned, left, purge_vars>>
      /\ faults' \in 0 .. MaxFaults
  BY TypedRest DEF IInv, ProcessingThrows
<1> QED BY <1>2, <1>3, <1>4, FailingPreserves

LEMMA CompleteRefusedPreserves ==
  ASSUME IInv, NEW w \in Workers, CompleteRefused(w) PROVE IInv'
<1>1. row \in Rows
  BY Typed DEF IInv
<1>2. /\ worker' \in [Workers -> WorkerRows]
      /\ worker'[w].pc = "fail" /\ worker'[w].output = worker[w].output
      /\ \A v \in Workers \ {w} : worker'[v] = worker[v]
  BY WentTo DEF IInv, CompleteRefused
<1>3. /\ worker[w].pc \in {"write", "complete", "fail"} /\ row' = row
      /\ UNCHANGED <<objects, claims, disowned, left, purge_vars>>
      /\ faults' \in 0 .. MaxFaults
  BY TypedRest DEF IInv, CompleteRefused
<1> QED BY <1>1, <1>2, <1>3, FailingPreserves

LEMMA RecordFailurePreserves ==
  ASSUME IInv, NEW w \in Workers, RecordFailure(w) PROVE IInv'
<1>1. row \in Rows /\ worker \in [Workers -> WorkerRows]
  BY Typed DEF IInv
<1>2. /\ worker' \in [Workers -> WorkerRows]
      /\ worker'[w].pc = "cleanup" /\ worker'[w].output = worker[w].output
      /\ \A v \in Workers \ {w} : worker'[v] = worker[v]
  BY WentTo DEF IInv, RecordFailure
<1>3. faults' \in 0 .. MaxFaults
  BY FaultTyped DEF IInv, RecordFailure
<1>4. /\ worker[w].pc \in {"write", "complete", "fail"}
      /\ UNCHANGED <<objects, claims, disowned, left, purge_vars>>
  BY DEF RecordFailure
<1>5. /\ row' \in Rows
      /\ \/ row' = row
         \/ /\ row.status = "pending" /\ row'.status = "failed"
            /\ row'.output = row.output /\ row'.deleted = row.deleted
  <2>1. CASE UNCHANGED row
    BY <1>1, <2>1
  <2>2. CASE /\ Owns(w)
             /\ row' = [row EXCEPT !.status = "failed", !.owner = None,
                                   !.leased = FALSE,
                                   !.retryable = worker[w].retryable]
    <3>1. worker[w].retryable \in BOOLEAN /\ row.status = "pending"
      BY <1>1, <2>2 DEF WorkerRows, Owns
    <3>2. row' \in Rows
      BY <1>1, <2>2, <3>1 DEF Rows
    <3>3. row'.status = "failed" /\ row'.output = row.output
      BY <1>1, <2>2 DEF Rows
    <3>4. row'.deleted = row.deleted
      BY <1>1, <2>2 DEF Rows
    <3> QED BY <3>1, <3>2, <3>3, <3>4
  <2> QED BY <2>1, <2>2 DEF RecordFailure
<1> QED BY <1>2, <1>3, <1>4, <1>5, FailingPreserves

LEMMA WritePreserves ==
  ASSUME IInv, NEW w \in Workers, Write(w) PROVE IInv'
<1>1. /\ row \in Rows /\ item \in Items /\ claims \in Nat /\ objects \subseteq Outputs
      /\ worker \in [Workers -> WorkerRows] /\ purger \in [Purgers -> PurgerRows]
      /\ claims \in Outputs
  BY Typed DEF IInv
<1>2. /\ worker' \in [Workers -> WorkerRows]
      /\ worker'[w].pc = "complete" /\ worker'[w].output = worker[w].output
      /\ \A v \in Workers \ {w} : worker'[v] = worker[v]
  BY WentTo DEF IInv, Write
<1>3. /\ objects' = objects \union {worker[w].output}
      /\ UNCHANGED <<row, claims, item, purger, disowned, left, overlooked>>
  BY DEF Write, purge_vars
<1>4. /\ worker[w].output # 0 /\ worker[w].output # row.output
      /\ worker[w].output # item.key /\ worker[w].output \in 1 .. claims
      /\ worker[w].pc = "write"
  BY <1>1 DEF IInv, Write, OutputsOfWorkers, KeysHandedOut
<1>5. objects' \subseteq Outputs
  <2>1. worker[w].output \in Outputs
    BY <1>1 DEF WorkerRows
  <2> QED BY <1>1, <1>3, <2>1
<1>6. TypeOK'
  BY <1>1, <1>2, <1>5, TypedNext, TypedRest DEF IInv, Write, purge_vars
<1>7. KeysHandedOut'
  <2>1. objects' \subseteq Keys'
    BY <1>3, <1>4 DEF IInv, KeysHandedOut, Keys
  <2>2. \A v \in Workers : worker'[v].output = worker[v].output
    BY <1>2
  <2> QED BY <1>3, <2>1, <2>2 DEF IInv, KeysHandedOut
<1>8. RowNames' /\ CachedOutputIsThere'
  BY <1>1, <1>3 DEF IInv, RowNames, CachedOutputIsThere, Cached
<1>9. ItemFollowsRow'
  BY <1>1, <1>2, <1>3, <1>4 DEF IInv, ItemFollowsRow
<1>10. OutputsOfWorkers'
  BY <1>1, <1>2, <1>3, <1>4 DEF IInv, OutputsOfWorkers, KeysHandedOut
<1>11. NoOrphanedOutput'
  BY <1>1, <1>2, <1>3 DEF IInv, NoOrphanedOutput
<1> QED BY <1>6, <1>7, <1>8, <1>9, <1>10, <1>11 DEF IInv

\* A completion, whether its worker sees the answer or not.
LEMMA CompletionPreserves ==
  ASSUME IInv, NEW w \in Workers,
         worker[w].pc = "complete", Completable(w), Completed(w),
         NEW pc \in {"record", "fail"}, Goto(w, pc),
         disowned' = IF pc = "fail" THEN disowned \union {worker[w].output}
                     ELSE disowned,
         UNCHANGED <<objects, claims, left, purge_vars>>,
         faults' \in 0 .. MaxFaults
  PROVE  IInv'
<1>1. /\ row \in Rows /\ item \in Items /\ claims \in Nat /\ objects \subseteq Outputs
      /\ worker \in [Workers -> WorkerRows] /\ purger \in [Purgers -> PurgerRows]
      /\ claims \in Outputs
  BY Typed DEF IInv
<1>2. /\ worker' \in [Workers -> WorkerRows]
      /\ worker'[w].pc = pc /\ worker'[w].output = worker[w].output
      /\ \A v \in Workers \ {w} : worker'[v] = worker[v]
  BY WentTo DEF IInv
<1>3. row.status = "pending" /\ row.output = 0 /\ ~row.deleted
  BY DEF IInv, Completable, Owns, RowNames
<1>4. /\ row' \in Rows /\ row'.status = "completed" /\ ~row'.deleted
      /\ row'.output = worker[w].output
  <2>1. worker[w].output \in Outputs /\ row.expires \in BOOLEAN
    BY <1>1 DEF WorkerRows, Rows
  <2> QED BY <2>1, CompletedRow DEF Completed
<1>5. UNCHANGED <<objects, claims, item, purger, left, overlooked>>
  BY DEF purge_vars
<1>6. /\ worker[w].output # 0 /\ worker[w].output # item.key
      /\ worker[w].output \in objects
  BY DEF IInv, OutputsOfWorkers
<1>7. disowned' \subseteq Outputs /\ disowned \subseteq disowned'
  BY <1>1, TypedRest DEF IInv, WorkerRows
<1>8. TypeOK'
  BY <1>1, <1>2, <1>4, <1>7, TypedNext, TypedRest DEF IInv, purge_vars
<1>9. KeysHandedOut'
  BY <1>1, <1>2, <1>4, <1>5 DEF IInv, KeysHandedOut, Keys
<1>10. RowNames' /\ CachedOutputIsThere'
  BY <1>1, <1>4, <1>5, <1>6 DEF RowNames, CachedOutputIsThere, Cached
<1>11. ItemFollowsRow'
  BY <1>1, <1>2, <1>3, <1>4, <1>5, <1>6 DEF IInv, ItemFollowsRow
<1>12. 0 \notin objects
  BY <1>1 DEF IInv, KeysHandedOut, Keys
<1>13. OutputsOfWorkers'
  <2> SUFFICES ASSUME NEW v \in Workers
      PROVE  LET o == worker'[v].output IN
             /\ worker'[v].pc \in {"write", "complete"} =>
                  o # 0 /\ o # row'.output /\ o # item'.key
             /\ worker'[v].pc = "complete" => o \in objects'
             /\ worker'[v].pc \in {"fail", "cleanup"} =>
                  o # 0 /\ (o # row'.output \/ o \in disowned')
             /\ worker'[v].pc = "record" /\ o \in objects' =>
                  o = row'.output \/ o \in overlooked'
             /\ worker'[v].pc = "idle" => o = 0
    BY DEF OutputsOfWorkers
  <2>1. CASE v = w
    BY <1>2, <1>4, <1>5, <1>6, <2>1
  <2>2. CASE v # w
    <3>1. worker[v].output # worker[w].output
      BY <1>6, <2>2 DEF IInv, KeysHandedOut
    <3> QED BY <1>2, <1>3, <1>4, <1>5, <1>7, <1>12, <2>2, <3>1
            DEF IInv, OutputsOfWorkers
  <2> QED BY <2>1, <2>2
<1>14. NoOrphanedOutput'
  BY <1>1, <1>2, <1>3, <1>4, <1>5, <1>12 DEF IInv, NoOrphanedOutput
<1> QED BY <1>8, <1>9, <1>10, <1>11, <1>13, <1>14 DEF IInv

LEMMA CompletePreserves ==
  ASSUME IInv, NEW w \in Workers, Complete(w) \/ CompleteAnswerLost(w) PROVE IInv'
<1>1. faults' \in 0 .. MaxFaults
  BY FaultTyped DEF IInv, Complete, CompleteAnswerLost
<1>2. CASE Complete(w)
  BY <1>1, <1>2, CompletionPreserves DEF Complete
<1>3. CASE CompleteAnswerLost(w)
  BY <1>1, <1>3, CompletionPreserves DEF CompleteAnswerLost
<1> QED BY <1>2, <1>3

\* A worker that ends: it has deleted its object, named it, or left it behind.
LEMMA EndingPreserves ==
  ASSUME IInv, NEW w \in Workers,
         worker' = [worker EXCEPT ![w] = Idle],
         \/ /\ worker[w].pc = "cleanup" /\ UNCHANGED left
            /\ objects' = objects \ {worker[w].output}
         \/ worker[w].pc = "record" /\ UNCHANGED <<objects, left>>
         \/ left' = left \union {worker[w].output} /\ UNCHANGED objects,
         UNCHANGED <<row, claims, disowned, purge_vars>>,
         faults' \in 0 .. MaxFaults
  PROVE  IInv'
<1>1. /\ row \in Rows /\ item \in Items /\ claims \in Nat /\ objects \subseteq Outputs
      /\ worker \in [Workers -> WorkerRows] /\ purger \in [Purgers -> PurgerRows]
      /\ claims \in Outputs
  BY Typed DEF IInv
<1>2. /\ worker' \in [Workers -> WorkerRows]
      /\ worker'[w].pc = "idle" /\ worker'[w].output = 0
      /\ \A v \in Workers \ {w} : worker'[v] = worker[v]
  BY Moved, Records DEF IInv
<1>3. UNCHANGED <<row, claims, item, purger, disowned, overlooked>>
  BY DEF purge_vars
<1>4. objects' \subseteq objects /\ objects' \subseteq Outputs
  BY <1>1
<1>5. left' \subseteq Outputs /\ left \subseteq left'
  BY <1>1, TypedRest DEF IInv, WorkerRows
<1>6. TypeOK'
  BY <1>1, <1>2, <1>4, <1>5, TypedNext, TypedRest DEF IInv, purge_vars
<1>7. KeysHandedOut'
  BY <1>1, <1>2, <1>3, <1>4 DEF IInv, KeysHandedOut, Keys
<1>8. RowNames'
  BY <1>3 DEF IInv, RowNames
<1>9. ItemFollowsRow'
  BY <1>1, <1>2, <1>3, <1>4 DEF IInv, ItemFollowsRow
<1>10. \A v \in Workers \ {w} :
         worker[v].output # worker[w].output \/ worker[w].output = 0
  BY DEF IInv, KeysHandedOut
<1>11. 0 \notin objects
  BY <1>1 DEF IInv, KeysHandedOut, Keys
<1>12. OutputsOfWorkers'
  BY <1>1, <1>2, <1>3, <1>4, <1>10, <1>11 DEF IInv, OutputsOfWorkers
<1>13. CachedOutputIsThere'
  BY <1>1, <1>3 DEF IInv, CachedOutputIsThere, Cached, OutputsOfWorkers
<1>14. NoOrphanedOutput'
  <2> SUFFICES ASSUME NEW o \in objects'
      PROVE  \/ o = row'.output \/ o \in left' \union overlooked'
             \/ \E v \in Workers : worker'[v].output = o
    BY DEF NoOrphanedOutput
  <2>1. CASE o = row.output \/ o \in left \union overlooked
    BY <1>3, <1>5, <2>1
  <2>2. CASE \E v \in Workers \ {w} : worker[v].output = o
    BY <1>2, <2>2
  <2>3. CASE worker[w].output = o
    BY <1>3, <1>4, <2>3 DEF IInv, OutputsOfWorkers
  <2> QED BY <1>4, <2>1, <2>2, <2>3 DEF IInv, NoOrphanedOutput
<1> QED BY <1>6, <1>7, <1>8, <1>9, <1>12, <1>13, <1>14 DEF IInv

LEMMA EndPreserves ==
  ASSUME IInv, NEW w \in Workers, Cleanup(w) \/ RecordSource(w) \/ Crash(w)
  PROVE  IInv'
<1>1. faults' \in 0 .. MaxFaults
  BY FaultTyped DEF IInv, Cleanup, RecordSource, Crash
<1>2. CASE Cleanup(w)
  BY <1>1, <1>2, EndingPreserves DEF Cleanup
<1>3. CASE RecordSource(w)
  BY <1>1, <1>3, EndingPreserves DEF RecordSource
<1>4. CASE Crash(w)
  BY <1>1, <1>4, EndingPreserves DEF Crash
<1> QED BY <1>2, <1>3, <1>4

-----------------------------------------------------------------------------
(* Leases, commands and purgers *)

\* Steps that only pass the work item, the row's lease or the command on.
LEMMA PassingOnPreserves ==
  ASSUME IInv, TypeOK',
         UNCHANGED <<objects, claims, worker, disowned, left, overlooked>>,
         row'.status = row.status, row'.output = row.output,
         row'.deleted <=> row.deleted,
         item'.key = item.key,
         item'.state = item.state \/ {item.state, item'.state} \subseteq {"queued", "running"},
         \A p \in Purgers : purger'[p].pc = "complete" => purger[p].pc = "complete",
         item.state = "none" => \A p \in Purgers : purger'[p].pc = "idle"
  PROVE  IInv'
<1>1. /\ item'.state = "none" <=> item.state = "none"
      /\ item'.state = "completed" <=> item.state = "completed"
      /\ item'.state \in {"queued", "running"} <=> item.state \in {"queued", "running"}
  OBVIOUS
<1>2. KeysHandedOut'
  BY DEF IInv, KeysHandedOut, Keys
<1>3. RowNames'
  BY <1>1 DEF IInv, RowNames
<1>4. ItemFollowsRow'
  BY <1>1 DEF IInv, ItemFollowsRow
<1>5. OutputsOfWorkers'
  BY DEF IInv, OutputsOfWorkers
<1>6. CachedOutputIsThere'
  BY <1>1 DEF IInv, CachedOutputIsThere, Cached
<1>7. NoOrphanedOutput'
  BY DEF IInv, NoOrphanedOutput
<1> QED BY <1>2, <1>3, <1>4, <1>5, <1>6, <1>7 DEF IInv

LEMMA ClaimLapsesPreserves ==
  ASSUME IInv, ClaimLapses PROVE IInv'
<1>1. /\ row \in Rows /\ item \in Items /\ claims \in Outputs /\ objects \subseteq Outputs
      /\ worker \in [Workers -> WorkerRows] /\ purger \in [Purgers -> PurgerRows]
  BY Typed DEF IInv
<1>2. /\ row' = [row EXCEPT !.leased = FALSE]
      /\ UNCHANGED <<objects, claims, worker, disowned, left, purge_vars>>
  BY DEF ClaimLapses
<1>3. faults' \in 0 .. MaxFaults
  BY FaultTyped DEF IInv, ClaimLapses
<1>4. row' \in Rows
  BY <1>1, <1>2 DEF Rows
<1>5. row'.status = row.status /\ row'.output = row.output
  BY <1>1, <1>2 DEF Rows
<1>6. row'.deleted <=> row.deleted
  BY <1>1, <1>2 DEF Rows
<1>7. TypeOK'
  BY <1>1, <1>2, <1>3, <1>4, TypedNext, TypedRest DEF IInv, purge_vars
<1>8. item' = item /\ purger' = purger /\ overlooked' = overlooked
  BY <1>2 DEF purge_vars
<1> QED BY <1>2, <1>5, <1>6, <1>7, <1>8, PassingOnPreserves DEF IInv, ItemFollowsRow

LEMMA PurgerTyped ==
  ASSUME TypeOK, NEW p \in Purgers,
         Answered(p) \/ purger' = [purger EXCEPT ![p].live = FALSE]
           \/ purger' = [purger EXCEPT ![p].pc = "complete"]
  PROVE  /\ purger' \in [Purgers -> PurgerRows]
         /\ \A q \in Purgers \ {p} : purger'[q] = purger[q]
<1>1. purger \in [Purgers -> PurgerRows] /\ IdlePurger \in PurgerRows
  BY Typed, Records
<1>2. CASE Answered(p)
  BY <1>1, <1>2 DEF Answered
<1>3. CASE purger' = [purger EXCEPT ![p].live = FALSE]
  BY <1>1, <1>3 DEF PurgerRows
<1>4. CASE purger' = [purger EXCEPT ![p].pc = "complete"]
  BY <1>1, <1>4 DEF PurgerRows
<1> QED BY <1>2, <1>3, <1>4

LEMMA AnsweredIdle ==
  ASSUME TypeOK, NEW p \in Purgers, Answered(p) PROVE purger'[p].pc = "idle"
BY Typed, Records DEF Answered

LEMMA RedeliveredTyped ==
  ASSUME TypeOK, Redelivered \/ UNCHANGED <<stage, retries>>
  PROVE  /\ stage' \in {"none", "created", "active", "acknowledged", "dead"}
         /\ retries' \in 0 .. RetryLimit
<1>1. /\ retries \in 0 .. RetryLimit /\ RetryLimit \in Nat
      /\ stage \in {"none", "created", "active", "acknowledged", "dead"}
  BY TypedRest, DerivativeAssumption
<1>2. CASE Redelivered
  BY <1>1, <1>2 DEF Redelivered
<1> QED BY <1>1, <1>2

LEMMA DeliverPreserves ==
  ASSUME IInv, NEW p \in Purgers, ClaimWork(p) \/ ClaimNothing(p) PROVE IInv'
<1>1. /\ row \in Rows /\ item \in Items /\ claims \in Outputs /\ objects \subseteq Outputs
      /\ worker \in [Workers -> WorkerRows] /\ purger \in [Purgers -> PurgerRows]
  BY Typed DEF IInv
<1>2. UNCHANGED <<row, objects, claims, worker, disowned, left, overlooked>>
  BY DEF ClaimWork, ClaimNothing, row_vars
<1>3. CASE ClaimWork(p)
  <2>1. /\ item' = [item EXCEPT !.state = "running", !.owner = p, !.leased = TRUE]
        /\ purger' = [purger EXCEPT ![p] = [pc |-> "delete", live |-> TRUE]]
    BY <1>3 DEF ClaimWork
  <2>2. item' \in Items
    BY <1>1, <2>1 DEF Items
  <2>3. item'.key = item.key /\ item'.state = "running"
    BY <1>1, <2>1 DEF Items
  <2>4. item.state \in {"queued", "running"}
    BY <1>3 DEF ClaimWork, WorkClaimable
  <2>5. [pc |-> "delete", live |-> TRUE] \in PurgerRows
    BY DEF PurgerRows
  <2>6. purger' \in [Purgers -> PurgerRows]
    BY <1>1, <2>1, <2>5
  <2>7. \A q \in Purgers : purger'[q].pc = "complete" => purger[q].pc = "complete"
    BY <1>1, <2>1
  <2>8. TypeOK'
    BY <1>1, <1>2, <1>3, <2>2, <2>6, TypedNext, TypedRest DEF IInv, ClaimWork
  <2> QED BY <1>2, <2>3, <2>4, <2>7, <2>8, PassingOnPreserves
<1>4. CASE ClaimNothing(p)
  <2>1. UNCHANGED <<item, purger>> /\ abandoned' \in BOOLEAN
    BY <1>4 DEF ClaimNothing
  <2>2. TypeOK'
    BY <1>1, <1>2, <1>4, <2>1, TypedNext, TypedRest DEF IInv, ClaimNothing
  <2> QED BY <1>2, <2>1, <2>2, PassingOnPreserves DEF IInv, ItemFollowsRow
<1> QED BY <1>3, <1>4

\* A delivery that fails, expires or loses its process.
LEMMA NotDonePreserves ==
  ASSUME IInv, NEW p \in Purgers, PurgeThrows(p) \/ ExpireDelivery(p) \/ CrashPurger(p)
  PROVE  IInv'
<1>1. /\ row \in Rows /\ item \in Items /\ claims \in Outputs /\ objects \subseteq Outputs
      /\ worker \in [Workers -> WorkerRows] /\ purger \in [Purgers -> PurgerRows]
  BY Typed DEF IInv
<1>2. UNCHANGED <<row, objects, claims, worker, disowned, left, overlooked>>
  BY DEF PurgeThrows, ExpireDelivery, CrashPurger, row_vars
<1>3. faults' \in 0 .. MaxFaults
  BY FaultTyped DEF IInv, PurgeThrows, ExpireDelivery, CrashPurger
<1>4. Answered(p) \/ purger' = [purger EXCEPT ![p].live = FALSE]
  BY DEF PurgeThrows, ExpireDelivery, CrashPurger, Reject
<1>5. /\ purger' \in [Purgers -> PurgerRows]
      /\ \A q \in Purgers : purger'[q].pc \in {"idle", purger[q].pc}
  <2>1. CASE Answered(p)
    BY <2>1, PurgerTyped, AnsweredIdle DEF IInv
  <2>2. CASE purger' = [purger EXCEPT ![p].live = FALSE]
    BY <1>1, <2>2 DEF PurgerRows
  <2> QED BY <1>4, <2>1, <2>2
<1>6. /\ stage' \in {"none", "created", "active", "acknowledged", "dead"}
      /\ retries' \in 0 .. RetryLimit
  BY RedeliveredTyped DEF IInv, PurgeThrows, ExpireDelivery, CrashPurger, Reject
<1>7. /\ item' \in Items /\ item'.key = item.key
      /\ \/ item'.state = item.state
         \/ {item.state, item'.state} \subseteq {"queued", "running"}
  <2>1. CASE item' = item
    BY <1>1, <2>1
  <2>2. CASE HoldsWork(p) /\ item' = [item EXCEPT !.state = "queued", !.leased = FALSE]
    <3>1. item' \in Items
      BY <1>1, <2>2 DEF Items
    <3>2. item'.key = item.key /\ item'.state = "queued"
      BY <1>1, <2>2 DEF Items
    <3> QED BY <2>2, <3>1, <3>2 DEF HoldsWork
  <2> QED BY <2>1, <2>2 DEF PurgeThrows, ExpireDelivery, CrashPurger
<1>8. TypeOK'
  BY <1>1, <1>2, <1>3, <1>5, <1>6, <1>7, TypedNext, TypedRest
     DEF IInv, PurgeThrows, ExpireDelivery, CrashPurger
<1>9. item.state = "none" => \A q \in Purgers : purger'[q].pc = "idle"
  BY <1>5 DEF IInv, ItemFollowsRow
<1> QED BY <1>2, <1>5, <1>7, <1>8, <1>9, PassingOnPreserves

LEMMA WorkLapsesPreserves ==
  ASSUME IInv, WorkLapses PROVE IInv'
<1>1. /\ row \in Rows /\ item \in Items /\ claims \in Outputs /\ objects \subseteq Outputs
      /\ worker \in [Workers -> WorkerRows] /\ purger \in [Purgers -> PurgerRows]
  BY Typed DEF IInv
<1>2. /\ item' = [item EXCEPT !.leased = FALSE]
      /\ UNCHANGED <<row, objects, claims, worker, disowned, left, overlooked, purger>>
  BY DEF WorkLapses, row_vars
<1>3. faults' \in 0 .. MaxFaults
  BY FaultTyped DEF IInv, WorkLapses
<1>4. item' \in Items
  BY <1>1, <1>2 DEF Items
<1>5. item'.key = item.key /\ item'.state = item.state
  BY <1>1, <1>2 DEF Items
<1>6. TypeOK'
  BY <1>1, <1>2, <1>3, <1>4, TypedNext, TypedRest DEF IInv, WorkLapses
<1> QED BY <1>2, <1>5, <1>6, PassingOnPreserves DEF IInv, ItemFollowsRow

LEMMA ScheduleRetentionPreserves ==
  ASSUME IInv, ScheduleRetention PROVE IInv'
<1>1. /\ row \in Rows /\ item \in Items /\ claims \in Outputs /\ objects \subseteq Outputs
      /\ worker \in [Workers -> WorkerRows] /\ purger \in [Purgers -> PurgerRows]
  BY Typed DEF IInv
<1>2. /\ row' = [row EXCEPT !.expires = TRUE]
      /\ UNCHANGED <<objects, claims, worker, disowned, left, purge_vars, faults>>
  BY DEF ScheduleRetention
<1>3. row' \in Rows
  BY <1>1, <1>2 DEF Rows
<1>4. row'.status = row.status /\ row'.output = row.output
  BY <1>1, <1>2 DEF Rows
<1>5. row'.deleted <=> row.deleted
  BY <1>1, <1>2 DEF Rows
<1>6. TypeOK'
  BY <1>1, <1>2, <1>3, TypedNext, TypedRest DEF IInv, purge_vars
<1>7. item' = item /\ purger' = purger /\ overlooked' = overlooked
  BY <1>2 DEF purge_vars
<1> QED BY <1>2, <1>4, <1>5, <1>6, <1>7, PassingOnPreserves DEF IInv, ItemFollowsRow

LEMMA QueueExpiredPreserves ==
  ASSUME IInv, QueueExpired PROVE IInv'
<1>1. /\ row \in Rows /\ item \in Items /\ claims \in Outputs /\ objects \subseteq Outputs
      /\ worker \in [Workers -> WorkerRows] /\ purger \in [Purgers -> PurgerRows]
  BY Typed DEF IInv
<1>2. UNCHANGED <<row, objects, claims, worker, disowned, left, overlooked, purger>>
  BY DEF QueueExpired, row_vars
<1>3. row.output \in Outputs
  BY <1>1 DEF Rows
<1>4. /\ doomed' \subseteq Outputs /\ unqueued' \subseteq Outputs
      /\ stage' \in {"none", "created", "active", "acknowledged", "dead"}
      /\ UNCHANGED <<retries, abandoned, faults>>
  BY <1>3, TypedRest DEF IInv, QueueExpired
<1>5. CASE item.state = "none"
  <2>1. item' = [item EXCEPT !.state = "queued", !.key = row.output] /\ ~row.deleted
    BY <1>5 DEF QueueExpired
  <2>2. item' \in Items
    BY <1>1, <1>3, <2>1 DEF Items
  <2>3. item'.state = "queued" /\ item'.key = row.output
    BY <1>1, <2>1 DEF Items
  <2>4. row.output # 0 => row.status = "completed"
    BY DEF IInv, RowNames
  <2>5. \A p \in Purgers : purger[p].pc = "idle"
    BY <1>5 DEF IInv, ItemFollowsRow
  <2>6. TypeOK'
    BY <1>1, <1>2, <1>4, <2>2, TypedNext, TypedRest DEF IInv
  <2>7. KeysHandedOut'
    BY <1>2, <2>3 DEF IInv, KeysHandedOut, Keys
  <2>8. RowNames' /\ CachedOutputIsThere' /\ NoOrphanedOutput'
    BY <1>2, <2>1, <2>3 DEF IInv, RowNames, CachedOutputIsThere, Cached, NoOrphanedOutput
  <2>9. ItemFollowsRow'
    BY <1>2, <2>3, <2>4, <2>5 DEF ItemFollowsRow
  <2>10. OutputsOfWorkers'
    BY <1>2, <2>3 DEF IInv, OutputsOfWorkers
  <2> QED BY <2>6, <2>7, <2>8, <2>9, <2>10 DEF IInv
<1>6. CASE item.state # "none"
  <2>1. item' = item
    BY <1>6 DEF QueueExpired
  <2>2. TypeOK'
    BY <1>1, <1>2, <1>4, <2>1, TypedNext, TypedRest DEF IInv
  <2> QED BY <1>2, <2>1, <2>2, PassingOnPreserves DEF IInv, ItemFollowsRow
<1> QED BY <1>5, <1>6

LEMMA DeleteObjectPreserves ==
  ASSUME IInv, NEW p \in Purgers, DeleteObject(p) PROVE IInv'
<1>1. /\ row \in Rows /\ item \in Items /\ claims \in Outputs /\ objects \subseteq Outputs
      /\ worker \in [Workers -> WorkerRows] /\ purger \in [Purgers -> PurgerRows]
  BY Typed DEF IInv
<1>2. /\ objects' = objects \ {item.key} /\ purger[p].pc = "delete"
      /\ purger' = [purger EXCEPT ![p].pc = "complete"]
      /\ UNCHANGED <<row, claims, worker, disowned, left, overlooked, item>>
  BY DEF DeleteObject, row_vars
<1>3. /\ purger' \in [Purgers -> PurgerRows]
      /\ \A q \in Purgers \ {p} : purger'[q] = purger[q]
  BY <1>2, PurgerTyped DEF IInv
<1>4. TypeOK'
  BY <1>1, <1>2, <1>3, TypedNext, TypedRest DEF IInv, DeleteObject
<1>5. KeysHandedOut' /\ RowNames'
  BY <1>2 DEF IInv, KeysHandedOut, Keys, RowNames
<1>6. ItemFollowsRow'
  <2>1. item.state # "none"
    BY <1>2 DEF IInv, ItemFollowsRow
  <2> QED BY <1>2, <2>1 DEF IInv, ItemFollowsRow
<1>7. OutputsOfWorkers'
  BY <1>2 DEF IInv, OutputsOfWorkers
<1>8. CachedOutputIsThere'
  <2>1. CASE item.state = "completed"
    BY <1>2, <2>1 DEF IInv, CachedOutputIsThere, Cached, ItemFollowsRow, RowNames
  <2>2. CASE item.state # "completed"
    <3>1. Cached' => Cached
      BY <1>2 DEF Cached
    <3> QED BY <1>2, <2>2, <3>1 DEF IInv, CachedOutputIsThere
  <2> QED BY <2>1, <2>2
<1>9. NoOrphanedOutput'
  BY <1>2 DEF IInv, NoOrphanedOutput
<1> QED BY <1>4, <1>5, <1>6, <1>7, <1>8, <1>9 DEF IInv

LEMMA CompleteWorkPreserves ==
  ASSUME IInv, NEW p \in Purgers, CompleteWork(p) PROVE IInv'
<1>1. /\ row \in Rows /\ item \in Items /\ claims \in Outputs /\ objects \subseteq Outputs
      /\ worker \in [Workers -> WorkerRows] /\ purger \in [Purgers -> PurgerRows]
  BY Typed DEF IInv
<1>2. /\ purger[p].pc = "complete" /\ Answered(p)
      /\ stage' \in {"none", "created", "active", "acknowledged", "dead"}
      /\ UNCHANGED <<objects, claims, worker, disowned, left, retries, doomed, unqueued,
                     abandoned, faults>>
  BY TypedRest DEF IInv, CompleteWork, Acknowledge
<1>3. /\ purger' \in [Purgers -> PurgerRows] /\ purger'[p].pc = "idle"
      /\ \A q \in Purgers \ {p} : purger'[q] = purger[q]
  BY <1>2, PurgerTyped, AnsweredIdle DEF IInv
<1>4. CASE ~HoldsWork(p)
  <2>1. UNCHANGED <<item, row, overlooked>>
    BY <1>4 DEF CompleteWork
  <2>2. TypeOK'
    BY <1>1, <1>2, <1>3, <2>1, TypedNext, TypedRest DEF IInv
  <2>3. /\ \A q \in Purgers : purger'[q].pc = "complete" => purger[q].pc = "complete"
        /\ item.state = "none" => \A q \in Purgers : purger'[q].pc = "idle"
    BY <1>3 DEF IInv, ItemFollowsRow
  <2> QED BY <1>2, <2>1, <2>2, <2>3, PassingOnPreserves
<1>5. CASE HoldsWork(p)
  <2>1. /\ item' = [item EXCEPT !.state = "completed", !.leased = FALSE]
        /\ row' = [row EXCEPT !.output = 0, !.deleted = TRUE]
        /\ overlooked' = overlooked \union
                           IF item.key = 0 THEN {row.output} \ {0} ELSE {}
    BY <1>5 DEF CompleteWork, WorkCompleted
  <2>2. /\ item.key = 0 \/ item.key = row.output
        /\ item.key \notin objects /\ 0 \notin objects
    BY <1>1, <1>2, <1>5, Typed
       DEF IInv, HoldsWork, ItemFollowsRow, KeysHandedOut, Keys
  <2>3. 0 \in Outputs
    BY DerivativeAssumption DEF Outputs
  <2>4. row' \in Rows
    BY <1>1, <2>1, <2>3 DEF Rows
  <2>5. row'.status = row.status /\ row'.output = 0
    BY <1>1, <2>1 DEF Rows
  <2>6. row'.deleted
    BY <1>1, <2>1 DEF Rows
  <2>7. item' \in Items
    BY <1>1, <2>1 DEF Items
  <2>8. item'.state = "completed" /\ item'.key = item.key
    BY <1>1, <2>1 DEF Items
  <2>9. TypeOK'
    <3>1. overlooked' \subseteq Outputs
      BY <1>1, <2>1, TypedRest DEF IInv, Rows
    <3> QED BY <1>1, <1>2, <1>3, <2>4, <2>7, <3>1, TypedNext, TypedRest DEF IInv
  <2>10. KeysHandedOut'
    <3>1. row'.output \in 0 .. claims'
      BY <1>2, <2>5, Typed DEF IInv
    <3> QED BY <1>2, <2>8, <3>1 DEF IInv, KeysHandedOut, Keys
  <2>11. RowNames' /\ CachedOutputIsThere'
    BY <1>2, <2>5, <2>6, <2>8
       DEF IInv, RowNames, CachedOutputIsThere, Cached
  <2>12. ItemFollowsRow'
    BY <1>2, <1>3, <2>2, <2>5, <2>8 DEF IInv, ItemFollowsRow
  <2>13. OutputsOfWorkers'
    BY <1>2, <2>1, <2>2, <2>5, <2>8 DEF IInv, OutputsOfWorkers
  <2>14. NoOrphanedOutput'
    BY <1>2, <2>1, <2>2 DEF IInv, NoOrphanedOutput
  <2> QED BY <2>9, <2>10, <2>11, <2>12, <2>13, <2>14 DEF IInv
<1> QED BY <1>4, <1>5

-----------------------------------------------------------------------------
(* The specification *)

LEMMA StutterPreserves ==
  ASSUME IInv, UNCHANGED vars PROVE IInv'
<1>1. UNCHANGED <<row, objects, claims, worker, item, purger, disowned, left,
                  overlooked>>
  BY DEF vars, row_vars, purge_vars
<1>2. TypeOK'
  <2>1. /\ row \in Rows /\ item \in Items /\ claims \in Outputs /\ objects \subseteq Outputs
        /\ worker \in [Workers -> WorkerRows] /\ purger \in [Purgers -> PurgerRows]
    BY Typed DEF IInv
  <2> QED BY <1>1, <2>1, TypedNext, TypedRest DEF IInv, vars, purge_vars
<1> QED BY <1>1, <1>2, PassingOnPreserves DEF IInv, ItemFollowsRow

LEMMA NextInvariant == IInv /\ [Next]_vars => IInv'
<1> SUFFICES ASSUME IInv, [Next]_vars PROVE IInv'
  OBVIOUS
<1>1. CASE \E w \in Workers : Claim(w) \/ Process(w) \/ CompleteAnswerLost(w)
                              \/ Crash(w)
  <2>1. PICK w \in Workers : Claim(w) \/ Process(w) \/ CompleteAnswerLost(w) \/ Crash(w)
    BY <1>1
  <2>2. CASE Claim(w)
    BY <2>2, ClaimPreserves
  <2>3. CASE Process(w)
    BY <2>3, WritePreserves, ProcessingThrowsPreserves, CompletePreserves,
       CompleteRefusedPreserves, RecordFailurePreserves, EndPreserves DEF Process
  <2>4. CASE CompleteAnswerLost(w) \/ Crash(w)
    BY <2>4, CompletePreserves, EndPreserves
  <2> QED BY <2>1, <2>2, <2>3, <2>4
<1>2. CASE ClaimLapses \/ WorkLapses
  BY <1>2, ClaimLapsesPreserves, WorkLapsesPreserves
<1>3. CASE ScheduleRetention \/ QueueExpired
  BY <1>3, ScheduleRetentionPreserves, QueueExpiredPreserves
<1>4. CASE \E p \in Purgers : \/ Deliver(p) \/ Purge(p) \/ PurgeThrows(p)
                              \/ ExpireDelivery(p) \/ CrashPurger(p)
  BY <1>4, DeliverPreserves, DeleteObjectPreserves, CompleteWorkPreserves,
     NotDonePreserves DEF Deliver, Purge
<1>5. CASE UNCHANGED vars
  BY <1>5, StutterPreserves
<1> QED BY <1>1, <1>2, <1>3, <1>4, <1>5 DEF Next

LEMMA Invariance == Spec => []IInv
BY InitInvariant, NextInvariant, PTL DEF Spec

\* Type correctness: every row, queue and process is of its declared kind.
THEOREM TypeCorrect == Spec => []TypeOK
<1>1. IInv => TypeOK
  BY DEF IInv
<1> QED BY <1>1, Invariance, PTL

\* What the cache offers is stored or on its way out, and nothing is stored that
\* nobody answers for: the cleanup after a failed claim and a purge that comes late
\* hit only what is theirs (prepareClaimedOccurrences, purgeRetentionWork).
THEOREM OutputsSafe == Spec => []OutputsAccountedFor
<1>1. IInv => OutputsAccountedFor
  BY DEF IInv, OutputsAccountedFor
<1> QED BY <1>1, Invariance, PTL
=============================================================================
