------------------------------ MODULE AiBudget ------------------------------
(***************************************************************************)
(* Metered AI operations and the balances of their budget policies.        *)
(*                                                                         *)
(* One operation is one call of DefaultAiExecutionGateway.execute: a       *)
(* transaction that starts it in the ledger and reserves an upper bound on *)
(* the balance of every applicable policy, the provider's call, and a      *)
(* transaction that finalizes and reconciles.  Both transactions take the  *)
(* row locks of the balances one by one, reserve in the order of the       *)
(* policies' scopes and reconcile in the order of the balances' ids, so    *)
(* their interleaving is modelled lock by lock.  What they write becomes   *)
(* visible when they commit.  reserve's advisory locks are taken in the    *)
(* same order as its row locks and are merged with them.                   *)
(*                                                                         *)
(* Policies are those of one currency and stay active.                     *)
(***************************************************************************)
EXTENDS Integers, FiniteSets, Functions

CONSTANTS
  Operations,   \* BOUND: calls of execute
  Policies,     \* hard policies; a balance belongs to each
  Applies,      \* Applies[o]: the policies whose scope covers o
  Limit,        \* Limit[p]: limit_amount
  ScopeRank,    \* the order in which reserve locks the balances
  IdRank,       \* the order in which reconcile locks them
  Amounts,      \* BOUND: estimates and actual costs
  MaxFaults,    \* BOUND: crashes, failed transactions and lost answers
  Unpriced,     \* the estimate is unknown (estimatedAmount undefined)
  Nobody

ASSUME BudgetAssumption ==
  /\ Applies \in [Operations -> SUBSET Policies]
  /\ Limit \in [Policies -> Nat]
  /\ ScopeRank \in [Policies -> Nat] /\ IdRank \in [Policies -> Nat]
  /\ \A p, q \in Policies : p # q => /\ ScopeRank[p] # ScopeRank[q]
                                     /\ IdRank[p] # IdRank[q]
  /\ Amounts \subseteq Nat /\ Amounts # {}
  /\ MaxFaults \in Nat
  /\ Unpriced \notin Nat
  /\ Nobody \notin Operations
  /\ IsFiniteSet(Operations)

VARIABLES
  op,          \* op[o]: the call of execute
  ledger,      \* ledger[o]: ai_operations.status, "none" without a row
  reservation, \* reservation[o][p]: ai_budget_reservations.status, or "none"
  reserved,    \* reserved[p]: reserved_amount of the balance
  spent,       \* spent[p]: spent_amount
  lock,        \* lock[p]: the operation whose transaction holds the balance row
  faults

rows == <<ledger, reservation, reserved, spent>>
vars == <<op, rows, lock, faults>>

Settled == {"reconciled", "providerOverage", "released", "retainedUncertain"}

Pcs == {"idle", "reserving", "admitted", "calling", "settling",
        "returned", "threw", "crashed"}

OperationStates ==
  [pc : Pcs,
   amount : Amounts \union {Unpriced},       \* the estimate
   checked : BOOLEAN,                        \* hard, priced and no bypass
   dispatched : BOOLEAN,                     \* the provider has been called
   known : BOOLEAN,                          \* it answered at a known cost
   success : BOOLEAN,                        \* finalizing in the try block
   plan : Settled \union {"none"},           \* what reconcile is to record
   actual : Amounts]                         \* actualAmount

Init ==
  /\ op = [o \in Operations |-> [pc |-> "idle", amount |-> Unpriced,
                                 checked |-> FALSE, dispatched |-> FALSE,
                                 known |-> FALSE, success |-> FALSE,
                                 plan |-> "none",
                                 actual |-> CHOOSE a \in Amounts : TRUE]]
  /\ ledger      = [o \in Operations |-> "none"]
  /\ reservation = [o \in Operations |-> [p \in Policies |-> "none"]]
  /\ reserved    = [p \in Policies |-> 0]
  /\ spent       = [p \in Policies |-> 0]
  /\ lock        = [p \in Policies |-> Nobody]
  /\ faults      = 0

-----------------------------------------------------------------------------
(* Row locks *)

Fault == faults < MaxFaults /\ faults' = faults + 1

\* Mutant of Unsettled: the status of the reservations is not looked at.
UnsettledAnyStatus(o) == {p \in Policies : reservation[o][p] # "none"}

\* The reservations reconcile selects: only those that are still "reserved".
Unsettled(o) == {p \in Policies : reservation[o][p] = "reserved"}

MovesMoney(o) == op[o].amount # Unpriced /\ op[o].plan # "retainedUncertain"

\* The balance rows that the transaction of o locks before it commits.
Needs(o) ==
  IF op[o].pc = "reserving" THEN Applies[o]
  ELSE IF op[o].pc = "settling" /\ MovesMoney(o) THEN Unsettled(o)
  ELSE {}

Missing(o) == {p \in Needs(o) : lock[p] # o}

\* The row the transaction locks next.
NextRow(o) ==
  LET rank == IF op[o].pc = "reserving" THEN ScopeRank ELSE IdRank
  IN CHOOSE p \in Missing(o) : \A q \in Missing(o) : rank[p] <= rank[q]

\* Mutant of LockRow: the balances are read without FOR UPDATE.
LockNothing(o) ==
  /\ Missing(o) # {}
  /\ lock' = [lock EXCEPT ![NextRow(o)] = o]
  /\ UNCHANGED <<op, rows, faults>>

LockRow(o) ==
  /\ Missing(o) # {}
  /\ lock[NextRow(o)] = Nobody
  /\ lock' = [lock EXCEPT ![NextRow(o)] = o]
  /\ UNCHANGED <<op, rows, faults>>

\* Mutant of EndTransaction: the connection goes back without COMMIT or ROLLBACK.
EndNothing(o) == UNCHANGED lock

\* COMMIT, ROLLBACK, or the end of the connection.
EndTransaction(o) ==
  lock' = [p \in Policies |-> IF lock[p] = o THEN Nobody ELSE lock[p]]

\* o waits in a cycle: each transaction of the set waits for a row that another
\* one of the set holds, and holds a row that another one of the set waits for.
InWaitCycle(o) ==
  \E S \in SUBSET Operations :
    LET waits == {x \in S : /\ Missing(x) # {}
                            /\ lock[NextRow(x)] \in S \ {x}}
    IN /\ o \in S
       /\ waits = S
       /\ {lock[NextRow(x)] : x \in S} = S

-----------------------------------------------------------------------------
(* Start and reserve: one transaction *)

\* A request that is hard without bypass must be priced.
Begin(o) ==
  /\ op[o].pc = "idle"
  /\ \E amount \in Amounts \union {Unpriced}, checked \in BOOLEAN :
       /\ checked => amount # Unpriced
       /\ op' = [op EXCEPT ![o].pc = "reserving", ![o].amount = amount,
                           ![o].checked = checked]
  /\ UNCHANGED <<rows, lock, faults>>

Exceeds(o, p) == spent[p] + reserved[p] + op[o].amount > Limit[p]

\* The query for exceeded policies, made with all rows locked.
Admit(o) ==
  /\ op[o].pc = "reserving"
  /\ Missing(o) = {}
  /\ op[o].checked => \A p \in Applies[o] : ~Exceeds(o, p)
  /\ op' = [op EXCEPT ![o].pc = "admitted"]
  /\ UNCHANGED <<rows, lock, faults>>

\* PostgresAiHardBudgetError: rolled back.
Refuse(o) ==
  /\ op[o].pc = "reserving"
  /\ Missing(o) = {}
  /\ op[o].checked /\ \E p \in Applies[o] : Exceeds(o, p)
  /\ op' = [op EXCEPT ![o].pc = "threw"]
  /\ EndTransaction(o)
  /\ UNCHANGED <<rows, faults>>

\* The operation, its reservations and the reserved amounts become visible.
ReserveCommitted(o) ==
  /\ op[o].pc = "admitted"
  /\ ledger'      = [ledger EXCEPT ![o] = "started"]
  /\ reservation' = [reservation EXCEPT ![o] =
                       [p \in Policies |-> IF p \in Applies[o]
                                           THEN "reserved" ELSE "none"]]
  /\ reserved'    = [p \in Policies |->
                       IF p \in Applies[o] /\ op[o].amount # Unpriced
                       THEN reserved[p] + op[o].amount ELSE reserved[p]]
  /\ EndTransaction(o)
  /\ UNCHANGED spent

Reserve(o) ==
  /\ ReserveCommitted(o)
  /\ op' = [op EXCEPT ![o].pc = "calling"]
  /\ UNCHANGED faults

\* Committed, and the answer is lost: execute throws before its try block.
ReserveAnswerLost(o) ==
  /\ ReserveCommitted(o)
  /\ op' = [op EXCEPT ![o].pc = "threw"]
  /\ Fault

\* The transaction fails, or PostgreSQL chooses it as the victim of a deadlock.
ReserveThrows(o) ==
  /\ op[o].pc \in {"reserving", "admitted"}
  /\ IF InWaitCycle(o) THEN UNCHANGED faults ELSE Fault
  /\ op' = [op EXCEPT ![o].pc = "threw"]
  /\ EndTransaction(o)
  /\ UNCHANGED rows

-----------------------------------------------------------------------------
(* The provider's call *)

Settle(o, success, plan) ==
  op' = [op EXCEPT ![o].pc = "settling", ![o].success = success,
                   ![o].plan = plan]

\* No secret, cancelled or timed out before the provider is called.
NotDispatched(o) ==
  /\ op[o].pc = "calling" /\ ~op[o].dispatched
  /\ Settle(o, FALSE, "released")
  /\ UNCHANGED <<rows, lock, faults>>

Dispatch(o) ==
  /\ op[o].pc = "calling" /\ ~op[o].dispatched
  /\ op' = [op EXCEPT ![o].dispatched = TRUE]
  /\ UNCHANGED <<rows, lock, faults>>

\* Provider error, timeout, cancellation: it may have cost something.
DispatchThrows(o) ==
  /\ op[o].pc = "calling" /\ op[o].dispatched
  /\ Settle(o, FALSE, "retainedUncertain")
  /\ UNCHANGED <<rows, lock, faults>>

\* An answer without usage, with an unknown price or a foreign currency.
AnswerUncertain(o) ==
  /\ op[o].pc = "calling" /\ op[o].dispatched
  /\ Settle(o, TRUE, "retainedUncertain")
  /\ UNCHANGED <<rows, lock, faults>>

\* successReconciliation with a known cost, the provider's or the calculated one.
AnswerKnown(o) ==
  /\ op[o].pc = "calling" /\ op[o].dispatched
  /\ \E actual \in Amounts, plan \in {"reconciled", "providerOverage"} :
       /\ plan = "providerOverage" =>
            op[o].amount # Unpriced /\ actual > op[o].amount
       /\ op' = [op EXCEPT ![o].pc = "settling", ![o].known = TRUE,
                           ![o].success = TRUE, ![o].plan = plan,
                           ![o].actual = actual]
  /\ UNCHANGED <<rows, lock, faults>>

-----------------------------------------------------------------------------
(* Finalize and reconcile: one transaction *)

\* Mutant of Freed: the cost is taken off the reserved amount, not the estimate.
FreedActual(o) == op[o].actual

Freed(o) == op[o].amount

SettleCommitted(o) ==
  /\ op[o].pc = "settling"
  /\ Missing(o) = {}
  /\ ledger' = [ledger EXCEPT ![o] = IF op[o].success
                                     THEN "succeeded" ELSE "failed"]
  /\ reservation' = [reservation EXCEPT ![o] =
                       [p \in Policies |-> IF p \in Unsettled(o)
                                           THEN op[o].plan ELSE @[p]]]
  /\ LET moved == IF MovesMoney(o) THEN Unsettled(o) ELSE {}
         paid  == IF op[o].plan = "released" THEN 0 ELSE op[o].actual
     IN /\ reserved' = [p \in Policies |-> IF p \in moved
                          THEN reserved[p] - Freed(o) ELSE reserved[p]]
        /\ spent'    = [p \in Policies |-> IF p \in moved
                          THEN spent[p] + paid ELSE spent[p]]
  /\ EndTransaction(o)

\* An error of the first finalization is caught: the same operation is finalized
\* again as failed.  An error of the second one is thrown.
Rethrow(o) ==
  op' = [op EXCEPT ![o] = IF @.success
           THEN [@ EXCEPT !.success = FALSE, !.plan = "retainedUncertain"]
           ELSE [@ EXCEPT !.pc = "threw"]]

Finalize(o) ==
  /\ SettleCommitted(o)
  /\ op' = [op EXCEPT ![o].pc = IF op[o].success THEN "returned" ELSE "threw"]
  /\ UNCHANGED faults

FinalizeAnswerLost(o) == SettleCommitted(o) /\ Rethrow(o) /\ Fault

FinalizeThrows(o) ==
  /\ op[o].pc = "settling"
  /\ IF InWaitCycle(o) THEN UNCHANGED faults ELSE Fault
  /\ Rethrow(o)
  /\ EndTransaction(o)
  /\ UNCHANGED rows

\* The process dies and PostgreSQL rolls its transaction back.
Crash(o) ==
  /\ op[o].pc \notin {"idle", "returned", "threw", "crashed"}
  /\ Fault
  /\ op' = [op EXCEPT ![o].pc = "crashed"]
  /\ EndTransaction(o)
  /\ UNCHANGED rows

-----------------------------------------------------------------------------
Steps(o) ==
  \/ LockRow(o) \/ Admit(o) \/ Refuse(o) \/ Reserve(o) \/ ReserveThrows(o)
  \/ NotDispatched(o) \/ Dispatch(o) \/ DispatchThrows(o)
  \/ AnswerUncertain(o) \/ AnswerKnown(o)
  \/ Finalize(o) \/ FinalizeThrows(o)

Next == \E o \in Operations :
  Begin(o) \/ Steps(o) \/ ReserveAnswerLost(o) \/ FinalizeAnswerLost(o) \/ Crash(o)

Spec == Init /\ [][Next]_vars

\* A call that has begun goes on: calls end at their deadline and PostgreSQL
\* resolves deadlocks.  Nobody is obliged to begin one.
FairSpec == Spec /\ \A o \in Operations : WF_vars(Steps(o))

-----------------------------------------------------------------------------
(* Properties *)

TypeOK ==
  /\ op \in [Operations -> OperationStates]
  /\ ledger \in [Operations -> {"none", "started", "succeeded", "failed"}]
  /\ reservation \in [Operations -> [Policies ->
                        Settled \union {"none", "reserved"}]]
  /\ reserved \in [Policies -> Nat]
  /\ spent \in [Policies -> Nat]
  /\ lock \in [Policies -> Operations \union {Nobody}]
  /\ faults \in 0 .. MaxFaults

\* What the reservation of o on p stands for in the balance.
Held(o, p) ==
  IF op[o].amount # Unpriced /\ reservation[o][p] \in {"reserved", "retainedUncertain"}
  THEN op[o].amount ELSE 0

Paid(o, p) ==
  IF op[o].amount # Unpriced /\ reservation[o][p] \in {"reconciled", "providerOverage"}
  THEN op[o].actual ELSE 0

Committed(o, p) == Held(o, p) + Paid(o, p)

\* What counts against the limit: of a checked operation, no more than the amount
\* it was admitted with.
Counted(o, p) ==
  IF ~op[o].checked THEN 0
  ELSE IF Committed(o, p) < op[o].amount THEN Committed(o, p) ELSE op[o].amount

\* The balances say what the reservations say: whatever finalizations fail, are
\* lost or are repeated, no amount is booked twice, released twice or forgotten.
BalancesAddUp ==
  \A p \in Policies :
    /\ reserved[p] = SumFunction([o \in Operations |-> Held(o, p)])
    /\ spent[p]    = SumFunction([o \in Operations |-> Paid(o, p)])

\* Concurrent operations never share one allowance: those that were checked hold,
\* with the amounts they were admitted with, no more than the limit of any policy,
\* unchecked operations and costs above the estimate notwithstanding.
HardLimit ==
  \A p \in Policies : SumFunction([o \in Operations |-> Counted(o, p)]) <= Limit[p]

\* A reservation is settled once: a finalization that is repeated because the
\* answer of the first one was lost does not settle it again.  And it is given
\* back only if the provider was never called: an error after the call, of the
\* provider or of the ledger, keeps the money.
SettledOnce ==
  [][\A o \in Operations, p \in Policies :
       /\ reservation[o][p] \in Settled =>
            /\ reservation'[o][p] = reservation[o][p]
            /\ Committed(o, p)' = Committed(o, p)
       /\ reservation'[o][p] = "released" => ~op[o].dispatched]_vars

\* Every call that has begun ends: transactions that wait for each other's rows
\* never wait for ever.
EveryCallEnds ==
  \A o \in Operations :
    op[o].pc = "reserving" ~> op[o].pc \in {"returned", "threw", "crashed"}

\* A call that the provider answered at a known cost is reconciled when it ends.
SuccessfulCallsReconciled ==
  \A o \in Operations :
    op[o].known /\ op[o].pc \in {"returned", "threw"} =>
      \A p \in Applies[o] : reservation[o][p] \in {"reconciled", "providerOverage"}
=============================================================================
