---------------------------- MODULE AiBudgetProofs ----------------------------
(***************************************************************************)
(* What AiBudget promises, for every finite set of operations, every set   *)
(* of policies, every limit and any number of faults, checked by TLAPS.    *)
(*                                                                         *)
(* One reservation (CallInv): the reservations of an operation are its own *)
(* rows.  The transaction that makes them finds none, the one that settles *)
(* them changes only those that are still "reserved", and a second         *)
(* finalization never plans to release.  No lock is needed for this.       *)
(*                                                                         *)
(* The balances (IInv): every step books on the balances exactly what its  *)
(* own reservations come to stand for, so that a balance and the sum over  *)
(* the operations move by the same amount.  The limit holds because an     *)
(* admitted operation still has the locks under which the balances were    *)
(* compared with it (Guarded).                                             *)
(*                                                                         *)
(* A sum over a finite set is defined by picking elements.  What is needed *)
(* of sums is proved here from that definition, by well-founded induction  *)
(* on the number of elements.                                              *)
(***************************************************************************)
EXTENDS AiBudget, FiniteSetTheorems, TLAPS

ReservationStates == Settled \union {"none", "reserved"}

OwnTypes ==
  /\ op \in [Operations -> OperationStates]
  /\ reservation \in [Operations -> [Policies -> ReservationStates]]

\* What the rows of an operation are at each point of its call.
Fits(o) ==
  /\ op[o].pc \in {"idle", "reserving", "admitted"} =>
       /\ ~op[o].dispatched
       /\ \A p \in Policies : reservation[o][p] = "none"
  /\ op[o].pc \in {"idle", "reserving", "admitted", "calling"} => op[o].plan = "none"
  /\ op[o].pc = "calling" =>
       \A p \in Policies : reservation[o][p] \in {"none", "reserved"}
  /\ op[o].pc = "settling" => op[o].plan # "none"
  /\ op[o].plan = "released" => ~op[o].dispatched /\ ~op[o].success
  /\ \A p \in Policies : reservation[o][p] = "released" => ~op[o].dispatched

CallInv == OwnTypes /\ \A o \in Operations : Fits(o)

\* What a step may do to one reservation.
Once(o, p) ==
  /\ reservation[o][p] \in Settled =>
       /\ reservation'[o][p] = reservation[o][p]
       /\ Committed(o, p)' = Committed(o, p)
  /\ reservation'[o][p] = "released" => ~op[o].dispatched

\* The steps of one call.
Acts(o) ==
  \/ Begin(o) \/ Steps(o) \/ ReserveAnswerLost(o) \/ FinalizeAnswerLost(o) \/ Crash(o)

-----------------------------------------------------------------------------
(* The steps *)

LEMMA InitCalls == Init => CallInv
<1> SUFFICES ASSUME Init PROVE CallInv
  OBVIOUS
<1> DEFINE r == [pc |-> "idle", amount |-> Unpriced, checked |-> FALSE,
                 dispatched |-> FALSE, known |-> FALSE, success |-> FALSE,
                 plan |-> "none", actual |-> CHOOSE a \in Amounts : TRUE]
<1>1. op = [o \in Operations |-> r]
  BY DEF Init
<1>2. (CHOOSE a \in Amounts : TRUE) \in Amounts
  BY BudgetAssumption
<1>3. r \in OperationStates
  BY <1>2 DEF OperationStates, Pcs, Settled
<1>4. r.pc = "idle" /\ ~r.dispatched /\ r.plan = "none"
  OBVIOUS
<1> HIDE DEF r
<1>5. OwnTypes
  BY <1>1, <1>3 DEF Init, OwnTypes, ReservationStates
<1>6. \A o \in Operations : Fits(o)
  BY <1>1, <1>4 DEF Init, Fits
<1> QED BY <1>5, <1>6 DEF CallInv

\* Reservations that stay, with what they stand for, are not settled again.
LEMMA KeptOnce ==
  ASSUME NEW o \in Operations, NEW p \in Policies, Fits(o),
         reservation'[o][p] = reservation[o][p],
         \/ op'[o].amount = op[o].amount /\ op'[o].actual = op[o].actual
         \/ reservation[o][p] \notin Settled
  PROVE  Once(o, p)
<1>1. reservation'[o][p] = "released" => ~op[o].dispatched
  BY DEF Fits
<1>2. ASSUME reservation[o][p] \in Settled PROVE Committed(o, p)' = Committed(o, p)
  BY <1>2 DEF Committed, Held, Paid
<1> QED BY <1>1, <1>2 DEF Once

\* After an error of a finalization, the first or the second one.
LEMMA RethrowMoves ==
  ASSUME OwnTypes, NEW o \in Operations, Rethrow(o), op[o].pc = "settling"
  PROVE  /\ op' \in [Operations -> OperationStates]
         /\ \A q \in Operations \ {o} : op'[q] = op[q]
         /\ op'[o].amount = op[o].amount /\ op'[o].actual = op[o].actual
         /\ op'[o].dispatched <=> op[o].dispatched
         /\ \/ op'[o].pc = "settling" /\ op'[o].plan = "retainedUncertain"
            \/ /\ op'[o].pc = "threw" /\ op'[o].plan = op[o].plan
               /\ ~op[o].success /\ ~op'[o].success
<1>1. op \in [Operations -> OperationStates] /\ op[o] \in OperationStates
  BY DEF OwnTypes
<1>2. CASE op[o].success
  <2>1. PICK r \in OperationStates :
          /\ op' = [op EXCEPT ![o] = r]
          /\ r.pc = "settling" /\ r.plan = "retainedUncertain"
          /\ r.amount = op[o].amount /\ r.actual = op[o].actual
          /\ r.dispatched <=> op[o].dispatched
    <3> DEFINE r == [op[o] EXCEPT !.success = FALSE, !.plan = "retainedUncertain"]
    <3>1. op' = [op EXCEPT ![o] = r]
      BY <1>1, <1>2 DEF Rethrow
    <3>2. r \in OperationStates
      BY <1>1 DEF OperationStates, Settled
    <3>3. r.pc = "settling" /\ r.plan = "retainedUncertain"
      BY <1>1 DEF OperationStates
    <3>4. r.amount = op[o].amount /\ r.actual = op[o].actual
      BY <1>1 DEF OperationStates
    <3>5. r.dispatched <=> op[o].dispatched
      BY <1>1 DEF OperationStates
    <3> QED BY <3>1, <3>2, <3>3, <3>4, <3>5
  <2> QED BY <1>1, <2>1
<1>3. CASE ~op[o].success
  <2>1. PICK r \in OperationStates :
          /\ op' = [op EXCEPT ![o] = r]
          /\ r.pc = "threw" /\ r.plan = op[o].plan
          /\ r.amount = op[o].amount /\ r.actual = op[o].actual
          /\ r.dispatched <=> op[o].dispatched
          /\ ~r.success
    <3> DEFINE r == [op[o] EXCEPT !.pc = "threw"]
    <3>1. op' = [op EXCEPT ![o] = r]
      BY <1>1, <1>3 DEF Rethrow
    <3>2. r \in OperationStates
      BY <1>1 DEF OperationStates, Pcs
    <3>3. r.pc = "threw" /\ r.plan = op[o].plan
      BY <1>1 DEF OperationStates
    <3>4. r.amount = op[o].amount /\ r.actual = op[o].actual
      BY <1>1 DEF OperationStates
    <3>5. r.dispatched <=> op[o].dispatched
      BY <1>1 DEF OperationStates
    <3>6. ~r.success
      BY <1>1, <1>3 DEF OperationStates
    <3> QED BY <3>1, <3>2, <3>3, <3>4, <3>5, <3>6
  <2> QED BY <1>1, <1>3, <2>1
<1> QED BY <1>2, <1>3

\* Steps that leave the reservations as they are.
LEMMA CallMoves ==
  ASSUME CallInv, NEW o \in Operations, UNCHANGED reservation,
         \/ Begin(o) \/ LockRow(o) \/ Admit(o) \/ Refuse(o) \/ ReserveThrows(o)
         \/ NotDispatched(o) \/ Dispatch(o) \/ DispatchThrows(o)
         \/ AnswerUncertain(o) \/ AnswerKnown(o) \/ FinalizeThrows(o) \/ Crash(o)
  PROVE  /\ op' \in [Operations -> OperationStates]
         /\ \A q \in Operations \ {o} : op'[q] = op[q]
         /\ Fits(o)' /\ \A p \in Policies : Once(o, p)
<1>1. /\ op \in [Operations -> OperationStates] /\ op[o] \in OperationStates
      /\ reservation \in [Operations -> [Policies -> ReservationStates]]
      /\ Fits(o)
  BY DEF CallInv, OwnTypes
<1>2. CASE Begin(o)
  <2>1. PICK amount \in Amounts \union {Unpriced}, checked \in BOOLEAN :
          op' = [op EXCEPT ![o].pc = "reserving", ![o].amount = amount,
                           ![o].checked = checked]
    BY <1>2 DEF Begin
  <2>2. /\ op' \in [Operations -> OperationStates]
        /\ \A q \in Operations \ {o} : op'[q] = op[q]
    BY <1>1, <2>1 DEF OperationStates, Pcs
  <2>3. op'[o].pc = "reserving" /\ op'[o].plan = op[o].plan
    BY <1>1, <2>1 DEF OperationStates
  <2>4. op'[o].dispatched = op[o].dispatched /\ op'[o].success = op[o].success
    BY <1>1, <2>1 DEF OperationStates
  <2>5. op[o].pc = "idle"
    BY <1>2 DEF Begin
  <2>6. Fits(o)'
    BY <1>1, <2>3, <2>4, <2>5 DEF Fits
  <2>7. \A p \in Policies : reservation[o][p] \notin Settled
    BY <1>1, <2>5 DEF Fits, Settled
  <2> QED BY <1>1, <2>2, <2>6, <2>7, KeptOnce
<1>3. CASE LockRow(o)
  <2>1. op' = op
    BY <1>3 DEF LockRow
  <2>2. Fits(o)'
    BY <1>1, <2>1 DEF Fits
  <2> QED BY <1>1, <2>1, <2>2, KeptOnce
<1>4. CASE Admit(o) \/ Refuse(o) \/ ReserveThrows(o) \/ Crash(o)
  <2>1. PICK pc \in {"admitted", "threw", "crashed"} : op' = [op EXCEPT ![o].pc = pc]
    BY <1>4 DEF Admit, Refuse, ReserveThrows, Crash
  <2>2. /\ op' \in [Operations -> OperationStates]
        /\ \A q \in Operations \ {o} : op'[q] = op[q]
    BY <1>1, <2>1 DEF OperationStates, Pcs
  <2>3. op'[o].pc = pc /\ op'[o].plan = op[o].plan /\ op'[o].amount = op[o].amount
    BY <1>1, <2>1 DEF OperationStates
  <2>4. op'[o].dispatched = op[o].dispatched /\ op'[o].success = op[o].success
    BY <1>1, <2>1 DEF OperationStates
  <2>5. op'[o].actual = op[o].actual
    BY <1>1, <2>1 DEF OperationStates
  <2>6. pc = "admitted" => op[o].pc = "reserving"
    BY <1>1, <1>4, <2>1, <2>3 DEF Admit, Refuse, ReserveThrows, Crash, OperationStates
  <2>7. Fits(o)'
    BY <1>1, <2>3, <2>4, <2>6 DEF Fits
  <2> QED BY <1>1, <2>2, <2>3, <2>5, <2>7, KeptOnce
<1>5. CASE Dispatch(o)
  <2>1. op' = [op EXCEPT ![o].dispatched = TRUE] /\ op[o].pc = "calling"
    BY <1>5 DEF Dispatch
  <2>2. /\ op' \in [Operations -> OperationStates]
        /\ \A q \in Operations \ {o} : op'[q] = op[q]
    BY <1>1, <2>1 DEF OperationStates
  <2>3. op'[o].pc = op[o].pc /\ op'[o].plan = op[o].plan
    BY <1>1, <2>1 DEF OperationStates
  <2>4. Fits(o)'
    BY <1>1, <2>1, <2>3 DEF Fits
  <2>5. \A p \in Policies : reservation[o][p] \notin Settled
    BY <1>1, <2>1 DEF Fits, Settled
  <2> QED BY <1>1, <2>2, <2>4, <2>5, KeptOnce
<1>6. CASE NotDispatched(o) \/ DispatchThrows(o) \/ AnswerUncertain(o) \/ AnswerKnown(o)
  <2>1. /\ op[o].pc = "calling"
        /\ \A p \in Policies : reservation[o][p] \notin Settled
    BY <1>1, <1>6
       DEF NotDispatched, DispatchThrows, AnswerUncertain, AnswerKnown, Fits, Settled
  <2>2. PICK success \in BOOLEAN, plan \in Settled :
          /\ plan = "released" => ~op[o].dispatched /\ ~success
          /\ \/ Settle(o, success, plan)
             \/ \E actual \in Amounts :
                  op' = [op EXCEPT ![o].pc = "settling", ![o].known = TRUE,
                                   ![o].success = success, ![o].plan = plan,
                                   ![o].actual = actual]
    BY <1>6 DEF NotDispatched, DispatchThrows, AnswerUncertain, AnswerKnown, Settled
  <2>3. /\ op' \in [Operations -> OperationStates]
        /\ \A q \in Operations \ {o} : op'[q] = op[q]
    <3>1. CASE Settle(o, success, plan)
      BY <1>1, <3>1 DEF OperationStates, Pcs, Settle, Settled
    <3>2. ASSUME NEW actual \in Amounts,
                 op' = [op EXCEPT ![o].pc = "settling", ![o].known = TRUE,
                                  ![o].success = success, ![o].plan = plan,
                                  ![o].actual = actual]
          PROVE  /\ op' \in [Operations -> OperationStates]
                 /\ \A q \in Operations \ {o} : op'[q] = op[q]
      BY <1>1, <3>2 DEF OperationStates, Pcs, Settled
    <3> QED BY <2>2, <3>1, <3>2
  <2>4. op'[o].pc = "settling" /\ op'[o].plan = plan
    BY <1>1, <2>2 DEF OperationStates, Settle
  <2>5. /\ op'[o].dispatched <=> op[o].dispatched
        /\ op'[o].success <=> success
    <3>1. CASE Settle(o, success, plan)
      BY <1>1, <3>1 DEF OperationStates, Settle
    <3>2. ASSUME NEW actual \in Amounts,
                 op' = [op EXCEPT ![o].pc = "settling", ![o].known = TRUE,
                                  ![o].success = success, ![o].plan = plan,
                                  ![o].actual = actual]
          PROVE  /\ op'[o].dispatched <=> op[o].dispatched
                 /\ op'[o].success <=> success
      BY <1>1, <3>2 DEF OperationStates
    <3> QED BY <2>2, <3>1, <3>2
  <2>6. Fits(o)'
    BY <1>1, <2>1, <2>2, <2>4, <2>5 DEF Fits, Settled
  <2> QED BY <1>1, <2>1, <2>3, <2>6, KeptOnce
<1>7. CASE FinalizeThrows(o)
  <2>1. Rethrow(o) /\ op[o].pc = "settling" /\ OwnTypes
    BY <1>7 DEF FinalizeThrows, CallInv
  <2>2. /\ op' \in [Operations -> OperationStates]
        /\ \A q \in Operations \ {o} : op'[q] = op[q]
        /\ op'[o].amount = op[o].amount /\ op'[o].actual = op[o].actual
        /\ op'[o].dispatched <=> op[o].dispatched
        /\ \/ op'[o].pc = "settling" /\ op'[o].plan = "retainedUncertain"
           \/ /\ op'[o].pc = "threw" /\ op'[o].plan = op[o].plan
              /\ ~op[o].success /\ ~op'[o].success
    BY <2>1, RethrowMoves
  <2>3. Fits(o)'
    BY <1>1, <2>2 DEF Fits
  <2> QED BY <1>1, <2>2, <2>3, KeptOnce
<1> QED BY <1>2, <1>3, <1>4, <1>5, <1>6, <1>7

\* The transaction that makes the reservations.
LEMMA ReserveMoves ==
  ASSUME CallInv, NEW o \in Operations, Reserve(o) \/ ReserveAnswerLost(o)
  PROVE  /\ op' \in [Operations -> OperationStates]
         /\ reservation' \in [Operations -> [Policies -> ReservationStates]]
         /\ \A q \in Operations \ {o} :
              op'[q] = op[q] /\ reservation'[q] = reservation[q]
         /\ Fits(o)' /\ \A p \in Policies : Once(o, p)
<1>1. /\ op \in [Operations -> OperationStates] /\ op[o] \in OperationStates
      /\ reservation \in [Operations -> [Policies -> ReservationStates]]
      /\ Fits(o) /\ op[o].pc = "admitted"
  BY DEF CallInv, OwnTypes, Reserve, ReserveAnswerLost, ReserveCommitted
<1>2. PICK pc \in {"calling", "threw"} : op' = [op EXCEPT ![o].pc = pc]
  BY DEF Reserve, ReserveAnswerLost
<1>3. /\ op' \in [Operations -> OperationStates]
      /\ \A q \in Operations \ {o} : op'[q] = op[q]
  BY <1>1, <1>2 DEF OperationStates, Pcs
<1>4. op'[o].pc = pc /\ op'[o].plan = op[o].plan
  BY <1>1, <1>2 DEF OperationStates
<1>5. op'[o].dispatched <=> op[o].dispatched
  BY <1>1, <1>2 DEF OperationStates
<1>6. reservation' = [reservation EXCEPT ![o] =
                       [p \in Policies |-> IF p \in Applies[o]
                                           THEN "reserved" ELSE "none"]]
  BY DEF Reserve, ReserveAnswerLost, ReserveCommitted
<1>7. /\ reservation' \in [Operations -> [Policies -> ReservationStates]]
      /\ \A q \in Operations \ {o} : reservation'[q] = reservation[q]
      /\ \A p \in Policies : reservation'[o][p] \in {"none", "reserved"}
  BY <1>1, <1>6 DEF ReservationStates
<1>8. Fits(o)'
  BY <1>1, <1>4, <1>5, <1>7 DEF Fits
<1>9. \A p \in Policies : Once(o, p)
  BY <1>1, <1>7 DEF Fits, Once, Settled
<1> QED BY <1>3, <1>7, <1>8, <1>9

\* The transaction that settles them.
LEMMA SettleMoves ==
  ASSUME CallInv, NEW o \in Operations, Finalize(o) \/ FinalizeAnswerLost(o)
  PROVE  /\ op' \in [Operations -> OperationStates]
         /\ reservation' \in [Operations -> [Policies -> ReservationStates]]
         /\ \A q \in Operations \ {o} :
              op'[q] = op[q] /\ reservation'[q] = reservation[q]
         /\ Fits(o)' /\ \A p \in Policies : Once(o, p)
<1>1. /\ op \in [Operations -> OperationStates] /\ op[o] \in OperationStates
      /\ reservation \in [Operations -> [Policies -> ReservationStates]]
      /\ Fits(o) /\ op[o].pc = "settling"
  BY DEF CallInv, OwnTypes, Finalize, FinalizeAnswerLost, SettleCommitted
<1>2. /\ op' \in [Operations -> OperationStates]
      /\ \A q \in Operations \ {o} : op'[q] = op[q]
      /\ op'[o].amount = op[o].amount /\ op'[o].actual = op[o].actual
      /\ op'[o].dispatched <=> op[o].dispatched
      /\ op'[o].plan = "released" => ~op[o].dispatched /\ ~op'[o].success
      /\ op'[o].pc \in {"settling", "returned", "threw"}
      /\ op'[o].plan # "none"
  <2>1. CASE Finalize(o)
    <3>1. PICK pc \in {"returned", "threw"} : op' = [op EXCEPT ![o].pc = pc]
      BY <2>1 DEF Finalize
    <3>2. /\ op' \in [Operations -> OperationStates]
          /\ \A q \in Operations \ {o} : op'[q] = op[q]
      BY <1>1, <3>1 DEF OperationStates, Pcs
    <3>3. op'[o].pc = pc /\ op'[o].plan = op[o].plan
      BY <1>1, <3>1 DEF OperationStates
    <3>4. op'[o].amount = op[o].amount /\ op'[o].actual = op[o].actual
      BY <1>1, <3>1 DEF OperationStates
    <3>5. /\ op'[o].dispatched <=> op[o].dispatched
          /\ op'[o].success <=> op[o].success
      BY <1>1, <3>1 DEF OperationStates
    <3> QED BY <1>1, <3>2, <3>3, <3>4, <3>5 DEF Fits
  <2>2. CASE FinalizeAnswerLost(o)
    BY <1>1, <2>2, RethrowMoves DEF FinalizeAnswerLost, CallInv, Fits
  <2> QED BY <2>1, <2>2
<1>3. op[o].plan \in Settled
  BY <1>1 DEF Fits, OperationStates
<1>4. reservation' = [reservation EXCEPT ![o] =
                       [p \in Policies |-> IF p \in Unsettled(o)
                                           THEN op[o].plan ELSE @[p]]]
  BY DEF Finalize, FinalizeAnswerLost, SettleCommitted
<1>5. /\ reservation' \in [Operations -> [Policies -> ReservationStates]]
      /\ \A q \in Operations \ {o} : reservation'[q] = reservation[q]
      /\ \A p \in Policies :
           \/ reservation'[o][p] = reservation[o][p]
           \/ reservation[o][p] = "reserved" /\ reservation'[o][p] = op[o].plan
  BY <1>1, <1>3, <1>4 DEF ReservationStates, Unsettled
<1>6. Fits(o)'
  <2>1. \A p \in Policies : reservation'[o][p] = "released" => ~op[o].dispatched
    BY <1>1, <1>5 DEF Fits
  <2> QED BY <1>2, <2>1 DEF Fits
<1>7. ASSUME NEW p \in Policies PROVE Once(o, p)
  <2>1. CASE reservation'[o][p] = reservation[o][p]
    BY <1>1, <1>2, <2>1, KeptOnce
  <2>2. CASE reservation[o][p] = "reserved" /\ reservation'[o][p] = op[o].plan
    BY <1>1, <2>2 DEF Once, Fits, Settled
  <2> QED BY <1>5, <2>1, <2>2
<1> QED BY <1>2, <1>5, <1>6, <1>7

-----------------------------------------------------------------------------
(* A reservation is settled once *)

\* A step of a call changes the rows of its own operation only.
LEMMA ActsMove ==
  ASSUME CallInv, NEW o \in Operations, Acts(o)
  PROVE  /\ op' \in [Operations -> OperationStates]
         /\ reservation' \in [Operations -> [Policies -> ReservationStates]]
         /\ \A q \in Operations \ {o} :
              op'[q] = op[q] /\ reservation'[q] = reservation[q]
         /\ Fits(o)' /\ \A p \in Policies : Once(o, p)
<1>1. CASE Reserve(o) \/ ReserveAnswerLost(o)
  BY <1>1, ReserveMoves
<1>2. CASE Finalize(o) \/ FinalizeAnswerLost(o)
  BY <1>2, SettleMoves
<1>3. CASE \/ Begin(o) \/ LockRow(o) \/ Admit(o) \/ Refuse(o) \/ ReserveThrows(o)
           \/ NotDispatched(o) \/ Dispatch(o) \/ DispatchThrows(o)
           \/ AnswerUncertain(o) \/ AnswerKnown(o) \/ FinalizeThrows(o) \/ Crash(o)
  <2>1. UNCHANGED reservation
    BY <1>3 DEF Begin, LockRow, Admit, Refuse, ReserveThrows, NotDispatched,
       Dispatch, DispatchThrows, AnswerUncertain, AnswerKnown, FinalizeThrows,
       Crash, rows
  <2> QED BY <1>3, <2>1, CallMoves DEF CallInv, OwnTypes
<1> QED BY <1>1, <1>2, <1>3 DEF Acts, Steps

LEMMA StepMoves ==
  ASSUME CallInv, [Next]_vars
  PROVE  CallInv' /\ \A o \in Operations, p \in Policies : Once(o, p)
<1>1. ASSUME NEW q \in Operations, op'[q] = op[q], reservation'[q] = reservation[q]
      PROVE  Fits(q)' /\ \A p \in Policies : Once(q, p)
  <2>1. Fits(q)
    BY DEF CallInv
  <2>2. Fits(q)'
    BY <1>1, <2>1 DEF Fits
  <2> QED BY <1>1, <2>1, <2>2, KeptOnce
<1>2. CASE UNCHANGED vars
  <2>1. op' = op /\ reservation' = reservation
    BY <1>2 DEF vars, rows
  <2>2. OwnTypes'
    BY <2>1 DEF CallInv, OwnTypes
  <2> QED BY <1>1, <2>1, <2>2 DEF CallInv
<1>3. ASSUME NEW o \in Operations, Acts(o)
      PROVE  CallInv' /\ \A q \in Operations, p \in Policies : Once(q, p)
  <2>1. /\ OwnTypes'
        /\ \A q \in Operations \ {o} :
             op'[q] = op[q] /\ reservation'[q] = reservation[q]
        /\ Fits(o)' /\ \A p \in Policies : Once(o, p)
    BY <1>3, ActsMove DEF OwnTypes
  <2>2. \A q \in Operations : Fits(q)' /\ \A p \in Policies : Once(q, p)
    BY <1>1, <2>1
  <2> QED BY <2>1, <2>2 DEF CallInv
<1> QED BY <1>2, <1>3 DEF Next, Acts

LEMMA CallsFit == Spec => []CallInv
BY InitCalls, StepMoves, PTL DEF Spec

\* A reservation is settled once, however often its finalization is repeated, and is
\* given back only for a call that was never made (execute's two finalizations and
\* the guard status = 'reserved' of reconcile).
THEOREM ReservationsSettledOnce == Spec => SettledOnce
<1>1. CallInv /\ [Next]_vars =>
        [\A o \in Operations, p \in Policies :
           /\ reservation[o][p] \in Settled =>
                /\ reservation'[o][p] = reservation[o][p]
                /\ Committed(o, p)' = Committed(o, p)
           /\ reservation'[o][p] = "released" => ~op[o].dispatched]_vars
  BY StepMoves DEF Once
<1> QED BY <1>1, CallsFit, PTL DEF Spec, SettledOnce

-----------------------------------------------------------------------------
(* Sums over finite sets *)

\* Induction over the naturals, with a set for the predicate.
LEMMA SetInduction ==
  ASSUME NEW P \in SUBSET Nat,
         \A n \in Nat : (\A m \in 0 .. n - 1 : m \in P) => n \in P
  PROVE  P = Nat
<1> SUFFICES ASSUME Nat \ P # {} PROVE FALSE
  OBVIOUS
<1>1. \E n \in Nat \ P : \A m \in Nat \ P : <<m, n>> \notin OpToRel(<, Nat)
  BY NatLessThanWellFounded, WFMin
<1>2. PICK n \in Nat \ P : \A m \in Nat \ P : ~(m < n)
  BY <1>1 DEF OpToRel
<1> QED BY <1>2

Pick(T) == CHOOSE x \in T : TRUE

\* The equation by which a sum is defined, on the sets of D.
Sums(sum, f, D) ==
  sum = [T \in D |-> IF T = {} THEN 0 ELSE f[Pick(T)] + sum[T \ {Pick(T)}]]

UpTo(S, n) == {T \in SUBSET S : Cardinality(T) <= n}

LEMMA Picked == ASSUME NEW T, T # {} PROVE Pick(T) \in T
  BY DEF Pick

LEMMA Shrinks ==
  ASSUME NEW S, IsFiniteSet(S), NEW T \in SUBSET S, T # {}
  PROVE  /\ T \ {Pick(T)} \in SUBSET S
         /\ Cardinality(T) \in Nat
         /\ Cardinality(T \ {Pick(T)}) = Cardinality(T) - 1
         /\ Cardinality(T \ {Pick(T)}) \in 0 .. Cardinality(T) - 1
<1>1. IsFiniteSet(T) /\ Pick(T) \in T
  BY FS_Subset, Picked
<1>2. Cardinality(T \ {Pick(T)}) = Cardinality(T) - 1 /\ IsFiniteSet(T \ {Pick(T)})
  BY <1>1, FS_RemoveElement
<1> QED BY <1>1, <1>2, FS_CardinalityType

LEMMA SumsPointwise ==
  ASSUME NEW D, NEW f, NEW h,
         h = [T \in D |-> h[T]],
         \A T \in D : h[T] = IF T = {} THEN 0 ELSE f[Pick(T)] + h[T \ {Pick(T)}]
  PROVE  Sums(h, f, D)
<1> DEFINE k == [T \in D |-> IF T = {} THEN 0 ELSE f[Pick(T)] + h[T \ {Pick(T)}]]
<1>1. \A T \in D : h[T] = k[T]
  OBVIOUS
<1>2. k = [T \in D |-> k[T]]
  OBVIOUS
<1> HIDE DEF k
<1>3. h = k
  BY <1>1, <1>2
<1> USE DEF k
<1> QED BY <1>3 DEF Sums

\* The recursive definition of a sum has a solution on the subsets of a finite set.
LEMMA SumsExist ==
  ASSUME NEW S, IsFiniteSet(S), NEW f
  PROVE  \E sum : Sums(sum, f, SUBSET S)
<1> DEFINE P == {n \in Nat : \E sum : Sums(sum, f, UpTo(S, n))}
<1>1. ASSUME NEW n \in Nat, \A m \in 0 .. n - 1 : m \in P
      PROVE  n \in P
  <2>1. CASE n = 0
    <3> DEFINE sum == [T \in UpTo(S, n) |-> 0]
    <3>1. \A T \in UpTo(S, n) : T = {}
      <4> SUFFICES ASSUME NEW T \in UpTo(S, n) PROVE T = {}
        OBVIOUS
      <4>1. IsFiniteSet(T) /\ Cardinality(T) <= 0
        BY <2>1, FS_Subset DEF UpTo
      <4>2. Cardinality(T) = 0
        BY <4>1, FS_CardinalityType
      <4> QED BY <4>1, <4>2, FS_EmptySet
    <3>2. Sums(sum, f, UpTo(S, n))
      BY <3>1 DEF Sums
    <3> QED BY <3>2
  <2>2. CASE n # 0
    <3>1. n - 1 \in P
      BY <1>1, <2>2
    <3>2. PICK g : Sums(g, f, UpTo(S, n - 1))
      BY <3>1
    <3> DEFINE h == [T \in UpTo(S, n) |->
                       IF T = {} THEN 0 ELSE f[Pick(T)] + g[T \ {Pick(T)}]]
    <3>3. ASSUME NEW T \in UpTo(S, n - 1) PROVE T \in UpTo(S, n) /\ h[T] = g[T]
      <4>1. T \in SUBSET S /\ IsFiniteSet(T) /\ Cardinality(T) <= n - 1
        BY FS_Subset DEF UpTo
      <4>2. Cardinality(T) \in Nat
        BY <4>1, FS_CardinalityType
      <4>3. T \in UpTo(S, n)
        BY <4>1, <4>2 DEF UpTo
      <4>4. g[T] = IF T = {} THEN 0 ELSE f[Pick(T)] + g[T \ {Pick(T)}]
        BY <3>2 DEF Sums
      <4> QED BY <4>3, <4>4
    <3>4. ASSUME NEW T \in UpTo(S, n), T # {}
          PROVE  g[T \ {Pick(T)}] = h[T \ {Pick(T)}]
      <4>1. T \in SUBSET S /\ Cardinality(T) <= n
        BY DEF UpTo
      <4>2. /\ T \ {Pick(T)} \in SUBSET S
            /\ Cardinality(T) \in Nat
            /\ Cardinality(T \ {Pick(T)}) = Cardinality(T) - 1
        BY <3>4, <4>1, Shrinks
      <4>3. T \ {Pick(T)} \in UpTo(S, n - 1)
        BY <4>1, <4>2 DEF UpTo
      <4> QED BY <3>3, <4>3
    <3>5. /\ h = [T \in UpTo(S, n) |-> h[T]]
          /\ \A T \in UpTo(S, n) :
               h[T] = IF T = {} THEN 0 ELSE f[Pick(T)] + g[T \ {Pick(T)}]
      OBVIOUS
    <3> HIDE DEF h
    <3>6. \A T \in UpTo(S, n) :
            h[T] = IF T = {} THEN 0 ELSE f[Pick(T)] + h[T \ {Pick(T)}]
      BY <3>4, <3>5
    <3>7. Sums(h, f, UpTo(S, n))
      BY <3>5, <3>6, SumsPointwise
    <3> QED BY <3>7
  <2> QED BY <2>1, <2>2
<1>2. P = Nat
  <2> P \in SUBSET Nat
    OBVIOUS
  <2> HIDE DEF P
  <2> QED BY <1>1, SetInduction
<1>3. Cardinality(S) \in Nat /\ SUBSET S = UpTo(S, Cardinality(S))
  BY FS_CardinalityType, FS_Subset DEF UpTo
<1>4. \E sum : Sums(sum, f, UpTo(S, Cardinality(S)))
  BY <1>2, <1>3
<1> QED BY <1>3, <1>4

\* What a sum over a set is: the equation of its definition holds.
LEMMA SumEquation ==
  ASSUME NEW S, IsFiniteSet(S), NEW f
  PROVE  \E sum : Sums(sum, f, SUBSET S) /\ SumFunctionOnSet(f, S) = sum[S]
<1> DEFINE it == CHOOSE sum : Sums(sum, f, SUBSET S)
<1>1. Sums(it, f, SUBSET S)
  BY SumsExist
<1>2. SumFunctionOnSet(f, S) = it[S]
  BY DEF SumFunctionOnSet, FoldFunctionOnSet, MapThenFoldSet, Sums, Pick
<1> QED BY <1>1, <1>2

\* Two sums over S differ by what the summands differ by at one element.
LEMMA SumOneDiffers ==
  ASSUME NEW S, IsFiniteSet(S), NEW o \in S,
         NEW f, NEW g, \A x \in S : f[x] \in Int /\ g[x] \in Int,
         \A x \in S \ {o} : g[x] = f[x]
  PROVE  /\ SumFunctionOnSet(f, S) \in Int
         /\ SumFunctionOnSet(g, S) = SumFunctionOnSet(f, S) + (g[o] - f[o])
<1> DEFINE d == g[o] - f[o]
<1>0. d \in Int /\ g[o] = f[o] + d
  OBVIOUS
<1> HIDE DEF d
<1>1. PICK sum : Sums(sum, f, SUBSET S) /\ SumFunctionOnSet(f, S) = sum[S]
  BY SumEquation
<1>2. PICK gum : Sums(gum, g, SUBSET S) /\ SumFunctionOnSet(g, S) = gum[S]
  BY SumEquation
<1> DEFINE P == {n \in Nat : \A T \in SUBSET S : Cardinality(T) = n =>
                   /\ sum[T] \in Int
                   /\ gum[T] = sum[T] + (IF o \in T THEN d ELSE 0)}
<1>3. ASSUME NEW n \in Nat, \A m \in 0 .. n - 1 : m \in P
      PROVE  n \in P
  <2> SUFFICES ASSUME NEW T \in SUBSET S, Cardinality(T) = n
               PROVE  /\ sum[T] \in Int
                      /\ gum[T] = sum[T] + (IF o \in T THEN d ELSE 0)
    OBVIOUS
  <2>1. CASE T = {}
    BY <1>0, <1>1, <1>2, <2>1 DEF Sums
  <2>2. CASE T # {}
    <3> DEFINE x == Pick(T)
               U == T \ {x}
    <3>1. x \in T /\ x \in S
      BY <2>2, Picked
    <3>2. U \in SUBSET S /\ Cardinality(U) \in 0 .. n - 1
      BY <2>2, Shrinks
    <3>3. /\ sum[U] \in Int
          /\ gum[U] = sum[U] + (IF o \in U THEN d ELSE 0)
      BY <1>3, <3>2
    <3>4. sum[T] = f[x] + sum[U] /\ gum[T] = g[x] + gum[U]
      BY <1>1, <1>2, <2>2 DEF Sums
    <3> HIDE DEF x
    <3>5. CASE x = o
      BY <1>0, <3>1, <3>3, <3>4, <3>5
    <3>6. CASE x # o
      BY <1>0, <3>1, <3>3, <3>4, <3>6
    <3> QED BY <3>5, <3>6
  <2> QED BY <2>1, <2>2
<1>4. P = Nat
  <2> P \in SUBSET Nat
    OBVIOUS
  <2> HIDE DEF P
  <2> QED BY <1>3, SetInduction
<1>5. Cardinality(S) \in P
  BY <1>4, FS_CardinalityType
<1> QED BY <1>1, <1>2, <1>5 DEF d

\* A sum grows with its summands.
LEMMA SumMonotone ==
  ASSUME NEW S, IsFiniteSet(S), NEW f, NEW g,
         \A x \in S : f[x] \in Int /\ g[x] \in Int /\ f[x] <= g[x]
  PROVE  /\ SumFunctionOnSet(f, S) \in Int /\ SumFunctionOnSet(g, S) \in Int
         /\ SumFunctionOnSet(f, S) <= SumFunctionOnSet(g, S)
<1>1. PICK sum : Sums(sum, f, SUBSET S) /\ SumFunctionOnSet(f, S) = sum[S]
  BY SumEquation
<1>2. PICK gum : Sums(gum, g, SUBSET S) /\ SumFunctionOnSet(g, S) = gum[S]
  BY SumEquation
<1> DEFINE P == {n \in Nat : \A T \in SUBSET S : Cardinality(T) = n =>
                   sum[T] \in Int /\ gum[T] \in Int /\ sum[T] <= gum[T]}
<1>3. ASSUME NEW n \in Nat, \A m \in 0 .. n - 1 : m \in P
      PROVE  n \in P
  <2> SUFFICES ASSUME NEW T \in SUBSET S, Cardinality(T) = n
               PROVE  sum[T] \in Int /\ gum[T] \in Int /\ sum[T] <= gum[T]
    OBVIOUS
  <2>1. CASE T = {}
    BY <1>1, <1>2, <2>1 DEF Sums
  <2>2. CASE T # {}
    <3> DEFINE x == Pick(T)
               U == T \ {x}
    <3>1. x \in S
      BY <2>2, Picked
    <3>2. U \in SUBSET S /\ Cardinality(U) \in 0 .. n - 1
      BY <2>2, Shrinks
    <3>3. sum[U] \in Int /\ gum[U] \in Int /\ sum[U] <= gum[U]
      BY <1>3, <3>2
    <3>4. sum[T] = f[x] + sum[U] /\ gum[T] = g[x] + gum[U]
      BY <1>1, <1>2, <2>2 DEF Sums
    <3> HIDE DEF x
    <3> QED BY <3>1, <3>3, <3>4
  <2> QED BY <2>1, <2>2
<1>4. P = Nat
  <2> P \in SUBSET Nat
    OBVIOUS
  <2> HIDE DEF P
  <2> QED BY <1>3, SetInduction
<1>5. Cardinality(S) \in P
  BY <1>4, FS_CardinalityType
<1> QED BY <1>1, <1>2, <1>5

\* The sum of two functions, pointwise.
LEMMA SumAdds ==
  ASSUME NEW S, IsFiniteSet(S), NEW f, NEW g, NEW h,
         \A x \in S : f[x] \in Int /\ g[x] \in Int /\ h[x] = f[x] + g[x]
  PROVE  SumFunctionOnSet(h, S) = SumFunctionOnSet(f, S) + SumFunctionOnSet(g, S)
<1>1. PICK sum : Sums(sum, f, SUBSET S) /\ SumFunctionOnSet(f, S) = sum[S]
  BY SumEquation
<1>2. PICK gum : Sums(gum, g, SUBSET S) /\ SumFunctionOnSet(g, S) = gum[S]
  BY SumEquation
<1>6. PICK hum : Sums(hum, h, SUBSET S) /\ SumFunctionOnSet(h, S) = hum[S]
  BY SumEquation
<1> DEFINE P == {n \in Nat : \A T \in SUBSET S : Cardinality(T) = n =>
                   /\ sum[T] \in Int /\ gum[T] \in Int
                   /\ hum[T] = sum[T] + gum[T]}
<1>3. ASSUME NEW n \in Nat, \A m \in 0 .. n - 1 : m \in P
      PROVE  n \in P
  <2> SUFFICES ASSUME NEW T \in SUBSET S, Cardinality(T) = n
               PROVE  /\ sum[T] \in Int /\ gum[T] \in Int
                      /\ hum[T] = sum[T] + gum[T]
    OBVIOUS
  <2>1. CASE T = {}
    BY <1>1, <1>2, <1>6, <2>1 DEF Sums
  <2>2. CASE T # {}
    <3> DEFINE x == Pick(T)
               U == T \ {x}
    <3>1. x \in S
      BY <2>2, Picked
    <3>2. U \in SUBSET S /\ Cardinality(U) \in 0 .. n - 1
      BY <2>2, Shrinks
    <3>3. sum[U] \in Int /\ gum[U] \in Int /\ hum[U] = sum[U] + gum[U]
      BY <1>3, <3>2
    <3>4. /\ sum[T] = f[x] + sum[U] /\ gum[T] = g[x] + gum[U]
          /\ hum[T] = h[x] + hum[U]
      BY <1>1, <1>2, <1>6, <2>2 DEF Sums
    <3> HIDE DEF x
    <3> QED BY <3>1, <3>3, <3>4
  <2> QED BY <2>1, <2>2
<1>4. P = Nat
  <2> P \in SUBSET Nat
    OBVIOUS
  <2> HIDE DEF P
  <2> QED BY <1>3, SetInduction
<1>5. Cardinality(S) \in P
  BY <1>4, FS_CardinalityType
<1> QED BY <1>1, <1>2, <1>6, <1>5

\* Nothing adds up to nothing: a sum that is twice itself.
LEMMA SumOfZeros ==
  ASSUME NEW S, IsFiniteSet(S), NEW f, \A x \in S : f[x] = 0
  PROVE  SumFunctionOnSet(f, S) = 0
<1> DEFINE total == SumFunctionOnSet(f, S)
<1>1. total \in Int
  BY SumMonotone
<1>2. total = total + total
  BY SumAdds
<1> HIDE DEF total
<1>3. total = 0
  BY <1>1, <1>2
<1> QED BY <1>3 DEF total

-----------------------------------------------------------------------------
(* The balances *)

HeldSum(p)    == SumFunction([o \in Operations |-> Held(o, p)])
PaidSum(p)    == SumFunction([o \in Operations |-> Paid(o, p)])
CountedSum(p) == SumFunction([o \in Operations |-> Counted(o, p)])

\* An operation is checked only against an amount.
Priced == \A o \in Operations : op[o].checked => op[o].amount # Unpriced

\* Between the query for exceeded policies and the commit, the balances are locked
\* and have room for the amount.
Guarded ==
  \A o \in Operations : op[o].pc = "admitted" =>
    \A p \in Applies[o] :
      /\ lock[p] = o
      /\ op[o].checked => spent[p] + reserved[p] + op[o].amount <= Limit[p]

IInv == CallInv /\ TypeOK /\ Priced /\ Guarded /\ BalancesAddUp /\ HardLimit

\* The amounts of a call are fixed when it begins and when the provider answers.
LEMMA AmountsKept ==
  ASSUME CallInv, NEW o \in Operations, Acts(o)
  PROVE  /\ \/ op[o].pc = "idle"
            \/ op'[o].amount = op[o].amount /\ (op'[o].checked <=> op[o].checked)
         /\ op[o].pc = "calling" \/ op'[o].actual = op[o].actual
<1>1. op \in [Operations -> OperationStates] /\ op[o] \in OperationStates
  BY DEF CallInv, OwnTypes
<1>2. CASE Begin(o)
  <2>1. op[o].pc = "idle"
    BY <1>2 DEF Begin
  <2>2. PICK amount \in Amounts \union {Unpriced}, checked \in BOOLEAN :
          op' = [op EXCEPT ![o].pc = "reserving", ![o].amount = amount,
                           ![o].checked = checked]
    BY <1>2 DEF Begin
  <2>3. op'[o].actual = op[o].actual
    BY <1>1, <2>2 DEF OperationStates
  <2> QED BY <2>1, <2>3
<1>3. CASE LockRow(o)
  BY <1>3 DEF LockRow
<1>4. CASE \/ Admit(o) \/ Refuse(o) \/ Reserve(o) \/ ReserveThrows(o)
           \/ ReserveAnswerLost(o) \/ Crash(o) \/ Finalize(o)
  <2>1. PICK pc \in Pcs : op' = [op EXCEPT ![o].pc = pc]
    BY <1>4 DEF Admit, Refuse, Reserve, ReserveThrows, ReserveAnswerLost, Crash,
       Finalize, Pcs
  <2> QED BY <1>1, <2>1 DEF OperationStates
<1>5. CASE Dispatch(o)
  BY <1>1, <1>5 DEF Dispatch, OperationStates
<1>6. CASE NotDispatched(o) \/ DispatchThrows(o) \/ AnswerUncertain(o)
  <2>1. PICK success \in BOOLEAN, plan \in Settled : Settle(o, success, plan)
    BY <1>6 DEF NotDispatched, DispatchThrows, AnswerUncertain, Settled
  <2> QED BY <1>1, <2>1 DEF Settle, OperationStates
<1>7. CASE AnswerKnown(o)
  BY <1>1, <1>7 DEF AnswerKnown, OperationStates
<1>8. CASE FinalizeAnswerLost(o) \/ FinalizeThrows(o)
  <2>1. CASE op[o].success
    <3>1. op' = [op EXCEPT ![o] = [op[o] EXCEPT !.success = FALSE,
                                                !.plan = "retainedUncertain"]]
      BY <1>1, <1>8, <2>1 DEF FinalizeAnswerLost, FinalizeThrows, Rethrow
    <3> QED BY <1>1, <3>1 DEF OperationStates
  <2>2. CASE ~op[o].success
    <3>1. op' = [op EXCEPT ![o] = [op[o] EXCEPT !.pc = "threw"]]
      BY <1>1, <1>8, <2>2 DEF FinalizeAnswerLost, FinalizeThrows, Rethrow
    <3> QED BY <1>1, <3>1 DEF OperationStates
  <2> QED BY <2>1, <2>2
<1> QED BY <1>2, <1>3, <1>4, <1>5, <1>6, <1>7, <1>8 DEF Acts, Steps

\* Amounts are natural numbers, of a policy no less than what counts against it.
LEMMA AmountTypes ==
  ASSUME CallInv, Priced, NEW o \in Operations, NEW p \in Policies
  PROVE  /\ Held(o, p) \in Nat /\ Paid(o, p) \in Nat /\ Counted(o, p) \in Nat
         /\ Counted(o, p) <= Held(o, p) + Paid(o, p)
<1>1. /\ op[o].amount \in Amounts \union {Unpriced} /\ op[o].actual \in Amounts
      /\ op[o].checked => op[o].amount # Unpriced
  BY DEF CallInv, OwnTypes, OperationStates, Priced
<1>2. Held(o, p) \in Nat /\ Paid(o, p) \in Nat
  BY <1>1, BudgetAssumption DEF Held, Paid
<1>3. Committed(o, p) \in Nat /\ Committed(o, p) = Held(o, p) + Paid(o, p)
  BY <1>2 DEF Committed
<1>4. CASE op[o].checked
  <2>1. op[o].amount \in Nat
    BY <1>1, <1>4, BudgetAssumption
  <2> QED BY <1>2, <1>3, <1>4, <2>1 DEF Counted
<1>5. CASE ~op[o].checked
  BY <1>2, <1>3, <1>5 DEF Counted
<1> QED BY <1>4, <1>5

LEMMA AmountTypesPrime ==
  ASSUME CallInv', Priced', NEW o \in Operations, NEW p \in Policies
  PROVE  /\ Held(o, p)' \in Nat /\ Paid(o, p)' \in Nat /\ Counted(o, p)' \in Nat
<1>1. /\ op'[o].amount \in Amounts \union {Unpriced} /\ op'[o].actual \in Amounts
      /\ op'[o].checked => op'[o].amount # Unpriced
  BY DEF CallInv, OwnTypes, OperationStates, Priced
<1>2. Held(o, p)' \in Nat /\ Paid(o, p)' \in Nat
  BY <1>1, BudgetAssumption DEF Held, Paid
<1>3. Committed(o, p)' \in Nat
  BY <1>2 DEF Committed
<1>4. CASE op'[o].checked
  <2>1. op'[o].amount \in Nat
    BY <1>1, <1>4, BudgetAssumption
  <2> QED BY <1>2, <1>3, <1>4, <2>1 DEF Counted
<1>5. CASE ~op'[o].checked
  BY <1>2, <1>5 DEF Counted
<1> QED BY <1>4, <1>5

\* A step books on a balance what it changes of the reservations of its operation.
LEMMA SumsFollow ==
  ASSUME CallInv, Priced, CallInv', Priced', NEW o \in Operations, NEW p \in Policies,
         \A q \in Operations \ {o} : op'[q] = op[q] /\ reservation'[q] = reservation[q]
  PROVE  /\ HeldSum(p)' = HeldSum(p) + (Held(o, p)' - Held(o, p))
         /\ PaidSum(p)' = PaidSum(p) + (Paid(o, p)' - Paid(o, p))
         /\ CountedSum(p)' = CountedSum(p) + (Counted(o, p)' - Counted(o, p))
         /\ HeldSum(p)' \in Nat /\ PaidSum(p)' \in Nat /\ CountedSum(p)' \in Int
         /\ CountedSum(p) \in Int /\ HeldSum(p) \in Int /\ PaidSum(p) \in Int
         /\ CountedSum(p) <= HeldSum(p) + PaidSum(p)
<1> DEFINE held == [q \in Operations |-> Held(q, p)]
           paid == [q \in Operations |-> Paid(q, p)]
           counted == [q \in Operations |-> Counted(q, p)]
           held1 == [q \in Operations |-> Held(q, p)']
           paid1 == [q \in Operations |-> Paid(q, p)']
           counted1 == [q \in Operations |-> Counted(q, p)']
           both == [q \in Operations |-> Held(q, p) + Paid(q, p)]
           zero == [q \in Operations |-> 0]
<1>1. /\ HeldSum(p) = SumFunctionOnSet(held, Operations)
      /\ PaidSum(p) = SumFunctionOnSet(paid, Operations)
      /\ CountedSum(p) = SumFunctionOnSet(counted, Operations)
  BY DEF HeldSum, PaidSum, CountedSum, SumFunction
<1>2. /\ HeldSum(p)' = SumFunctionOnSet(held1, Operations)
      /\ PaidSum(p)' = SumFunctionOnSet(paid1, Operations)
      /\ CountedSum(p)' = SumFunctionOnSet(counted1, Operations)
  BY DEF HeldSum, PaidSum, CountedSum, SumFunction
<1>3. \A q \in Operations :
        /\ held[q] \in Nat /\ held1[q] \in Nat
        /\ paid[q] \in Nat /\ paid1[q] \in Nat
        /\ counted[q] \in Nat /\ counted1[q] \in Nat
        /\ counted[q] <= both[q] /\ both[q] = held[q] + paid[q]
  BY AmountTypes, AmountTypesPrime
<1>4. \A q \in Operations \ {o} :
        held1[q] = held[q] /\ paid1[q] = paid[q] /\ counted1[q] = counted[q]
  BY DEF Held, Paid, Counted, Committed
<1>5. /\ held1[o] = Held(o, p)' /\ held[o] = Held(o, p)
      /\ paid1[o] = Paid(o, p)' /\ paid[o] = Paid(o, p)
      /\ counted1[o] = Counted(o, p)' /\ counted[o] = Counted(o, p)
  OBVIOUS
<1>6. \A q \in Operations : zero[q] = 0
  OBVIOUS
<1> HIDE DEF held, paid, counted, held1, paid1, counted1, both, zero
<1>7. /\ SumFunctionOnSet(held1, Operations) =
           SumFunctionOnSet(held, Operations) + (held1[o] - held[o])
      /\ SumFunctionOnSet(held, Operations) \in Int
  <2>1. /\ \A q \in Operations : held[q] \in Int /\ held1[q] \in Int
        /\ \A q \in Operations \ {o} : held1[q] = held[q]
        /\ IsFiniteSet(Operations)
    BY <1>3, <1>4, BudgetAssumption
  <2> QED BY <2>1, SumOneDiffers
<1>8. /\ SumFunctionOnSet(paid1, Operations) =
           SumFunctionOnSet(paid, Operations) + (paid1[o] - paid[o])
      /\ SumFunctionOnSet(paid, Operations) \in Int
  <2>1. /\ \A q \in Operations : paid[q] \in Int /\ paid1[q] \in Int
        /\ \A q \in Operations \ {o} : paid1[q] = paid[q]
        /\ IsFiniteSet(Operations)
    BY <1>3, <1>4, BudgetAssumption
  <2> QED BY <2>1, SumOneDiffers
<1>9. /\ SumFunctionOnSet(counted1, Operations) =
           SumFunctionOnSet(counted, Operations) + (counted1[o] - counted[o])
      /\ SumFunctionOnSet(counted, Operations) \in Int
  <2>1. /\ \A q \in Operations : counted[q] \in Int /\ counted1[q] \in Int
        /\ \A q \in Operations \ {o} : counted1[q] = counted[q]
        /\ IsFiniteSet(Operations)
    BY <1>3, <1>4, BudgetAssumption
  <2> QED BY <2>1, SumOneDiffers
<1>10. SumFunctionOnSet(zero, Operations) = 0
  BY <1>6, SumOfZeros, BudgetAssumption
<1>11. /\ SumFunctionOnSet(held1, Operations) \in Nat
       /\ SumFunctionOnSet(paid1, Operations) \in Nat
  <2>1. SumFunctionOnSet(zero, Operations) <= SumFunctionOnSet(held1, Operations)
    BY <1>3, <1>6, SumMonotone, BudgetAssumption
  <2>2. SumFunctionOnSet(zero, Operations) <= SumFunctionOnSet(paid1, Operations)
    BY <1>3, <1>6, SumMonotone, BudgetAssumption
  <2> QED BY <1>3, <1>7, <1>8, <1>10, <2>1, <2>2
<1>12. SumFunctionOnSet(counted, Operations) <= SumFunctionOnSet(both, Operations)
  BY <1>3, SumMonotone, BudgetAssumption
<1>13. SumFunctionOnSet(both, Operations) =
         SumFunctionOnSet(held, Operations) + SumFunctionOnSet(paid, Operations)
  BY <1>3, SumAdds, BudgetAssumption
<1>14. counted1[o] \in Int /\ counted[o] \in Int
  BY <1>3
<1> QED BY <1>1, <1>2, <1>5, <1>7, <1>8, <1>9, <1>11, <1>12, <1>13, <1>14

\* A reservation that stays stands for what it stood for.
LEMMA Unmoved ==
  ASSUME CallInv, Priced, CallInv', Priced', NEW o \in Operations, NEW p \in Policies,
         reservation'[o][p] = reservation[o][p],
         \/ op[o].pc = "idle"
         \/ op'[o].amount = op[o].amount /\ (op'[o].checked <=> op[o].checked),
         op[o].pc = "calling" \/ op'[o].actual = op[o].actual
  PROVE  /\ Held(o, p)' = Held(o, p) /\ Paid(o, p)' = Paid(o, p)
         /\ Counted(o, p)' = Counted(o, p)
<1>1. /\ op[o].pc = "idle" => reservation[o][p] = "none"
      /\ op[o].pc = "calling" => reservation[o][p] \in {"none", "reserved"}
  BY DEF CallInv, Fits
<1>2. CASE reservation[o][p] = "none"
  <2>1. Held(o, p) = 0 /\ Paid(o, p) = 0 /\ Held(o, p)' = 0 /\ Paid(o, p)' = 0
    BY <1>2 DEF Held, Paid
  <2>2. Committed(o, p) = 0 /\ Committed(o, p)' = 0
    BY <2>1 DEF Committed
  <2>3. /\ op[o].checked => op[o].amount \in Nat
        /\ op'[o].checked => op'[o].amount \in Nat
    BY BudgetAssumption DEF CallInv, OwnTypes, OperationStates, Priced
  <2>4. Counted(o, p) = 0
    BY <2>2, <2>3 DEF Counted
  <2>5. Counted(o, p)' = 0
    BY <2>2, <2>3 DEF Counted
  <2> QED BY <2>1, <2>4, <2>5
<1>3. CASE reservation[o][p] # "none"
  <2>1. op'[o].amount = op[o].amount /\ (op'[o].checked <=> op[o].checked)
    BY <1>1, <1>3
  <2>2. Held(o, p)' = Held(o, p)
    BY <2>1 DEF Held
  <2>3. Paid(o, p)' = Paid(o, p)
    BY <1>1, <2>1 DEF Paid
  <2>4. Committed(o, p)' = Committed(o, p)
    BY <2>2, <2>3 DEF Committed
  <2>5. Counted(o, p)' = Counted(o, p)
    BY <2>1, <2>4 DEF Counted
  <2> QED BY <2>2, <2>3, <2>5
<1> QED BY <1>2, <1>3

\* Every step books on the balances exactly what its reservations come to stand for.
\* Only a reservation makes more count against a limit, and with locked balances.
LEMMA Booked ==
  ASSUME IInv, CallInv', Priced', NEW o \in Operations, Acts(o), NEW p \in Policies
  PROVE  /\ reserved'[p] = reserved[p] + (Held(o, p)' - Held(o, p))
         /\ spent'[p] = spent[p] + (Paid(o, p)' - Paid(o, p))
         /\ reserved'[p] # reserved[p] \/ spent'[p] # spent[p] => lock[p] = o
         /\ \/ Counted(o, p)' <= Counted(o, p)
            \/ /\ op[o].pc = "admitted" /\ p \in Applies[o] /\ op[o].checked
               /\ Counted(o, p)' = Counted(o, p) + op[o].amount
<1>1. /\ op[o] \in OperationStates
      /\ reservation \in [Operations -> [Policies -> ReservationStates]]
      /\ Fits(o) /\ CallInv /\ Priced
      /\ reserved \in [Policies -> Nat] /\ spent \in [Policies -> Nat]
  BY DEF IInv, CallInv, OwnTypes, TypeOK
<1>2. /\ \/ op[o].pc = "idle"
         \/ op'[o].amount = op[o].amount /\ (op'[o].checked <=> op[o].checked)
      /\ op[o].pc = "calling" \/ op'[o].actual = op[o].actual
  BY <1>1, AmountsKept
<1>3. /\ Held(o, p) \in Nat /\ Paid(o, p) \in Nat /\ Counted(o, p) \in Nat
      /\ Held(o, p)' \in Nat /\ Paid(o, p)' \in Nat /\ Counted(o, p)' \in Nat
  BY <1>1, AmountTypes, AmountTypesPrime
<1>4. op[o].checked => op[o].amount \in Nat
  BY <1>1, BudgetAssumption DEF OperationStates, Priced
<1>5. CASE /\ reservation'[o][p] = reservation[o][p]
           /\ reserved'[p] = reserved[p] /\ spent'[p] = spent[p]
  BY <1>1, <1>2, <1>3, <1>5, Unmoved
<1>6. CASE Reserve(o) \/ ReserveAnswerLost(o)
  <2>1. /\ op[o].pc = "admitted" /\ reservation[o][p] = "none"
        /\ op'[o].amount = op[o].amount /\ (op'[o].checked <=> op[o].checked)
    BY <1>1, <1>2, <1>6 DEF Reserve, ReserveAnswerLost, ReserveCommitted, Fits
  <2>2. /\ reservation'[o][p] = IF p \in Applies[o] THEN "reserved" ELSE "none"
        /\ reserved'[p] = IF p \in Applies[o] /\ op[o].amount # Unpriced
                          THEN reserved[p] + op[o].amount ELSE reserved[p]
        /\ spent'[p] = spent[p]
    BY <1>1, <1>6 DEF Reserve, ReserveAnswerLost, ReserveCommitted
  <2>3. CASE p \in Applies[o]
    <3>1. Held(o, p) = 0 /\ Paid(o, p) = 0 /\ Paid(o, p)' = 0
      BY <2>1, <2>2, <2>3 DEF Held, Paid
    <3>2. Held(o, p)' = IF op[o].amount # Unpriced THEN op[o].amount ELSE 0
      BY <2>1, <2>2, <2>3 DEF Held
    <3>3. reserved'[p] = reserved[p] + (Held(o, p)' - Held(o, p))
      BY <1>1, <1>3, <2>2, <2>3, <3>1, <3>2
    <3>4. lock[p] = o
      BY <2>1, <2>3 DEF IInv, Guarded
    <3>5. CASE op[o].checked
      <4>1. op[o].amount # Unpriced /\ op[o].amount \in Nat
        BY <1>1, <1>4, <3>5 DEF Priced
      <4>2. Committed(o, p) = 0 /\ Committed(o, p)' = op[o].amount
        BY <3>1, <3>2, <4>1 DEF Committed
      <4>3. Counted(o, p) = 0
        BY <3>5, <4>1, <4>2 DEF Counted
      <4>4. Counted(o, p)' = op[o].amount
        BY <2>1, <3>5, <4>1, <4>2 DEF Counted
      <4> QED BY <1>1, <2>1, <2>2, <2>3, <3>1, <3>3, <3>4, <3>5, <4>1, <4>3, <4>4
    <3>6. CASE ~op[o].checked
      <4>1. Counted(o, p)' = 0
        BY <2>1, <3>6 DEF Counted
      <4> QED BY <1>1, <1>3, <2>2, <3>1, <3>3, <3>4, <4>1
    <3> QED BY <3>5, <3>6
  <2>4. CASE p \notin Applies[o]
    BY <1>5, <2>1, <2>2, <2>4
  <2> QED BY <2>3, <2>4
<1>7. CASE Finalize(o) \/ FinalizeAnswerLost(o)
  <2>1. /\ op[o].pc = "settling" /\ op[o].plan \in Settled
        /\ op'[o].amount = op[o].amount /\ (op'[o].checked <=> op[o].checked)
        /\ op'[o].actual = op[o].actual
    BY <1>1, <1>2, <1>7
       DEF Finalize, FinalizeAnswerLost, SettleCommitted, Fits, OperationStates
  <2> DEFINE moved == MovesMoney(o) /\ p \in Unsettled(o)
             paid  == IF op[o].plan = "released" THEN 0 ELSE op[o].actual
  <2>2. /\ reservation'[o][p] = IF p \in Unsettled(o) THEN op[o].plan
                                ELSE reservation[o][p]
        /\ reserved'[p] = IF moved THEN reserved[p] - op[o].amount ELSE reserved[p]
        /\ spent'[p] = IF moved THEN spent[p] + paid ELSE spent[p]
    BY <1>1, <1>7 DEF Finalize, FinalizeAnswerLost, SettleCommitted, Freed
  <2>3. CASE moved
    <3>1. /\ reservation[o][p] = "reserved" /\ reservation'[o][p] = op[o].plan
          /\ op[o].amount # Unpriced /\ op[o].plan # "retainedUncertain"
      BY <2>2, <2>3 DEF MovesMoney, Unsettled
    <3>2. lock[p] = o
      BY <1>7, <2>1, <2>3
         DEF Finalize, FinalizeAnswerLost, SettleCommitted, Missing, Needs
    <3>3. op[o].amount \in Nat /\ op[o].actual \in Nat
      BY <1>1, <3>1, BudgetAssumption DEF OperationStates
    <3>4. /\ Held(o, p) = op[o].amount /\ Held(o, p)' = 0
          /\ Paid(o, p) = 0 /\ Paid(o, p)' = paid
      BY <2>1, <3>1 DEF Held, Paid, Settled
    <3>5. Counted(o, p)' <= Counted(o, p)
      <4>1. CASE op[o].checked
        <5>1. Committed(o, p) = op[o].amount
          BY <3>3, <3>4 DEF Committed
        <5>2. Counted(o, p) = op[o].amount
          BY <4>1, <5>1, <3>3 DEF Counted
        <5>3. Counted(o, p)' <= op[o].amount
          BY <2>1, <3>3, <4>1, <1>3 DEF Counted
        <5> QED BY <5>2, <5>3
      <4>2. CASE ~op[o].checked
        BY <2>1, <1>3, <4>2 DEF Counted
      <4> QED BY <4>1, <4>2
    <3> QED BY <1>1, <2>2, <2>3, <3>2, <3>3, <3>4, <3>5
  <2>4. CASE ~moved /\ p \in Unsettled(o)
    <3>1. /\ reservation[o][p] = "reserved" /\ reservation'[o][p] = op[o].plan
          /\ op[o].amount = Unpriced \/ op[o].plan = "retainedUncertain"
      BY <2>2, <2>4 DEF MovesMoney, Unsettled
    <3>2. Held(o, p)' = Held(o, p) /\ Paid(o, p)' = Paid(o, p)
      BY <2>1, <3>1 DEF Held, Paid
    <3>3. Counted(o, p)' = Counted(o, p)
      BY <2>1, <3>2 DEF Counted, Committed
    <3> QED BY <1>1, <1>3, <2>2, <2>4, <3>2, <3>3
  <2>5. CASE p \notin Unsettled(o)
    BY <1>5, <2>2, <2>5
  <2> QED BY <2>3, <2>4, <2>5
<1>8. CASE \/ Begin(o) \/ LockRow(o) \/ Admit(o) \/ Refuse(o) \/ ReserveThrows(o)
           \/ NotDispatched(o) \/ Dispatch(o) \/ DispatchThrows(o)
           \/ AnswerUncertain(o) \/ AnswerKnown(o) \/ FinalizeThrows(o) \/ Crash(o)
  <2>1. UNCHANGED rows
    BY <1>8 DEF Begin, LockRow, Admit, Refuse, ReserveThrows, NotDispatched, Dispatch,
       DispatchThrows, AnswerUncertain, AnswerKnown, FinalizeThrows, Crash
  <2> QED BY <1>5, <2>1 DEF rows
<1> QED BY <1>6, <1>7, <1>8 DEF Acts, Steps

LEMMA InitInvariant == Init => IInv
<1> SUFFICES ASSUME Init PROVE IInv
  OBVIOUS
<1>1. CallInv
  BY InitCalls
<1>2. TypeOK
  BY <1>1, BudgetAssumption DEF Init, TypeOK, CallInv, OwnTypes, ReservationStates
<1>3. \A o \in Operations : op[o].pc = "idle" /\ ~op[o].checked
  BY DEF Init
<1>4. Priced /\ Guarded
  BY <1>3 DEF Priced, Guarded
<1>5. ASSUME NEW p \in Policies
      PROVE  HeldSum(p) = 0 /\ PaidSum(p) = 0 /\ CountedSum(p) = 0
  <2>1. \A o \in Operations : Held(o, p) = 0 /\ Paid(o, p) = 0 /\ Counted(o, p) = 0
    BY <1>3 DEF Init, Held, Paid, Counted
  <2> DEFINE held == [o \in Operations |-> Held(o, p)]
             paid == [o \in Operations |-> Paid(o, p)]
             counted == [o \in Operations |-> Counted(o, p)]
  <2>2. /\ HeldSum(p) = SumFunctionOnSet(held, Operations)
        /\ PaidSum(p) = SumFunctionOnSet(paid, Operations)
        /\ CountedSum(p) = SumFunctionOnSet(counted, Operations)
    BY DEF HeldSum, PaidSum, CountedSum, SumFunction
  <2>3. \A o \in Operations : held[o] = 0 /\ paid[o] = 0 /\ counted[o] = 0
    BY <2>1
  <2> HIDE DEF held, paid, counted
  <2> QED BY <2>2, <2>3, SumOfZeros, BudgetAssumption
<1>6. BalancesAddUp
  BY <1>5 DEF Init, BalancesAddUp, HeldSum, PaidSum
<1>7. HardLimit
  BY <1>5, BudgetAssumption DEF HardLimit, CountedSum
<1> QED BY <1>1, <1>2, <1>4, <1>6, <1>7 DEF IInv

\* The operation that holds a row keeps it until its transaction ends.
LEMMA LocksHeld ==
  ASSUME NEW o \in Operations, Acts(o), TypeOK, NEW q \in Operations \ {o},
         NEW p \in Policies, lock[p] = q
  PROVE  lock'[p] = q
<1>1. lock \in [Policies -> Operations \union {Nobody}]
  BY DEF TypeOK
<1>2. CASE LockRow(o)
  BY <1>1, <1>2, BudgetAssumption DEF LockRow
<1>3. CASE EndTransaction(o) \/ UNCHANGED lock
  BY <1>3 DEF EndTransaction
<1> QED BY <1>2, <1>3
    DEF Acts, Steps, Begin, Admit, Refuse, Reserve, ReserveAnswerLost, ReserveCommitted,
        ReserveThrows, NotDispatched, Dispatch, DispatchThrows, AnswerUncertain,
        AnswerKnown, Finalize, FinalizeAnswerLost, SettleCommitted, FinalizeThrows, Crash

\* The variables that the balances do not depend on keep their types.
LEMMA TypesMove ==
  ASSUME TypeOK, NEW o \in Operations, Acts(o)
  PROVE  /\ ledger' \in [Operations -> {"none", "started", "succeeded", "failed"}]
         /\ lock' \in [Policies -> Operations \union {Nobody}]
         /\ faults' \in 0 .. MaxFaults
<1>1. /\ ledger \in [Operations -> {"none", "started", "succeeded", "failed"}]
      /\ lock \in [Policies -> Operations \union {Nobody}]
      /\ faults \in 0 .. MaxFaults
  BY DEF TypeOK
<1>2. ledger' \in [Operations -> {"none", "started", "succeeded", "failed"}]
  BY <1>1 DEF Acts, Steps, Begin, LockRow, Admit, Refuse, Reserve, ReserveAnswerLost,
     ReserveCommitted, ReserveThrows, NotDispatched, Dispatch, DispatchThrows,
     AnswerUncertain, AnswerKnown, Finalize, FinalizeAnswerLost, SettleCommitted,
     FinalizeThrows, Crash, rows
<1>3. lock' \in [Policies -> Operations \union {Nobody}]
  <2>1. CASE LockRow(o)
    BY <1>1, <2>1 DEF LockRow
  <2>2. CASE EndTransaction(o) \/ UNCHANGED lock
    BY <1>1, <2>2 DEF EndTransaction
  <2> QED BY <2>1, <2>2
      DEF Acts, Steps, Begin, Admit, Refuse, Reserve, ReserveAnswerLost,
          ReserveCommitted, ReserveThrows, NotDispatched, Dispatch, DispatchThrows,
          AnswerUncertain, AnswerKnown, Finalize, FinalizeAnswerLost, SettleCommitted,
          FinalizeThrows, Crash
<1>4. faults' \in 0 .. MaxFaults
  <2>1. CASE Fault
    BY <1>1, <2>1, BudgetAssumption DEF Fault
  <2>2. CASE UNCHANGED faults
    BY <1>1, <2>2
  <2> QED BY <2>1, <2>2
      DEF Acts, Steps, Begin, LockRow, Admit, Refuse, Reserve, ReserveAnswerLost,
          ReserveThrows, NotDispatched, Dispatch, DispatchThrows, AnswerUncertain,
          AnswerKnown, Finalize, FinalizeAnswerLost, FinalizeThrows, Crash
<1> QED BY <1>2, <1>3, <1>4

\* Admit alone admits an operation.
LEMMA Admitted ==
  ASSUME CallInv, NEW o \in Operations, Acts(o), op'[o].pc = "admitted"
  PROVE  Admit(o)
<1>1. op \in [Operations -> OperationStates] /\ op[o] \in OperationStates
  BY DEF CallInv, OwnTypes
<1>2. ~Begin(o)
  <2> SUFFICES ASSUME Begin(o) PROVE FALSE
    OBVIOUS
  <2>1. PICK amount, checked :
          op' = [op EXCEPT ![o].pc = "reserving", ![o].amount = amount,
                           ![o].checked = checked]
    BY DEF Begin
  <2> QED BY <1>1, <2>1 DEF OperationStates
<1>8. ~AnswerKnown(o)
  <2> SUFFICES ASSUME AnswerKnown(o) PROVE FALSE
    OBVIOUS
  <2>1. PICK actual \in Amounts, plan \in {"reconciled", "providerOverage"} :
          op' = [op EXCEPT ![o].pc = "settling", ![o].known = TRUE,
                           ![o].success = TRUE, ![o].plan = plan, ![o].actual = actual]
    BY DEF AnswerKnown
  <2> QED BY <1>1, <2>1 DEF OperationStates
<1>3. ~LockRow(o)
  <2>1. op[o].pc = "admitted" => Missing(o) = {}
    BY DEF Missing, Needs
  <2> QED BY <2>1 DEF LockRow
<1>4. /\ ~Refuse(o) /\ ~Reserve(o) /\ ~ReserveThrows(o)
      /\ ~ReserveAnswerLost(o) /\ ~Crash(o) /\ ~Finalize(o)
  <2> SUFFICES ASSUME \/ Refuse(o) \/ Reserve(o) \/ ReserveThrows(o)
                      \/ ReserveAnswerLost(o) \/ Crash(o) \/ Finalize(o)
               PROVE  FALSE
    OBVIOUS
  <2>1. PICK pc \in {"threw", "calling", "crashed", "returned"} :
          op' = [op EXCEPT ![o].pc = pc]
    BY DEF Refuse, Reserve, ReserveThrows, ReserveAnswerLost, Crash, Finalize
  <2> QED BY <1>1, <2>1 DEF OperationStates
<1>5. ~Dispatch(o)
  BY <1>1 DEF Dispatch, OperationStates
<1>6. ~NotDispatched(o) /\ ~DispatchThrows(o) /\ ~AnswerUncertain(o)
  <2>1. \A success \in BOOLEAN, plan \in Settled : ~Settle(o, success, plan)
    BY <1>1 DEF Settle, OperationStates
  <2> QED BY <2>1 DEF NotDispatched, DispatchThrows, AnswerUncertain, Settled
<1>7. ~FinalizeAnswerLost(o) /\ ~FinalizeThrows(o)
  <2> SUFFICES ASSUME FinalizeAnswerLost(o) \/ FinalizeThrows(o) PROVE FALSE
    OBVIOUS
  <2>1. OwnTypes /\ Rethrow(o) /\ op[o].pc = "settling"
    BY DEF CallInv, FinalizeAnswerLost, FinalizeThrows, SettleCommitted
  <2> QED BY <2>1, RethrowMoves
<1> QED BY <1>2, <1>3, <1>4, <1>5, <1>6, <1>7, <1>8 DEF Acts, Steps

\* Begin checks an operation only if it could price it.
LEMMA PricedKept ==
  ASSUME CallInv, Priced, NEW o \in Operations, Acts(o)
  PROVE  Priced'
<1>1. /\ op \in [Operations -> OperationStates] /\ op[o] \in OperationStates
      /\ \A q \in Operations \ {o} : op'[q] = op[q]
  BY ActsMove DEF CallInv, OwnTypes
<1>2. op'[o].checked => op'[o].amount # Unpriced
  <2>1. CASE Begin(o)
    <3>1. PICK amount \in Amounts \union {Unpriced}, checked \in BOOLEAN :
            /\ checked => amount # Unpriced
            /\ op' = [op EXCEPT ![o].pc = "reserving", ![o].amount = amount,
                                ![o].checked = checked]
      BY <2>1 DEF Begin
    <3>2. op'[o].amount = amount /\ (op'[o].checked <=> checked)
      BY <1>1, <3>1 DEF OperationStates
    <3> QED BY <3>1, <3>2
  <2>2. CASE ~Begin(o)
    <3>1. op[o].pc = "idle" => UNCHANGED op
      BY <2>2 DEF Acts, Steps, LockRow, Admit, Refuse, Reserve, ReserveAnswerLost,
         ReserveCommitted, ReserveThrows, NotDispatched, Dispatch, DispatchThrows,
         AnswerUncertain, AnswerKnown, Finalize, FinalizeAnswerLost, SettleCommitted,
         FinalizeThrows, Crash
    <3> QED BY <3>1, AmountsKept DEF Priced
  <2> QED BY <2>1, <2>2
<1> QED BY <1>1, <1>2 DEF Priced

\* What was compared with the limit is still so: an admitted operation has the locks
\* of its policies, and nobody books on a balance without its lock.
LEMMA GuardKept ==
  ASSUME IInv, CallInv', Priced', NEW o \in Operations, Acts(o)
  PROVE  Guarded'
<1>1. /\ CallInv /\ TypeOK /\ Guarded
      /\ op \in [Operations -> OperationStates] /\ op[o] \in OperationStates
      /\ reserved \in [Policies -> Nat] /\ spent \in [Policies -> Nat]
      /\ \A q \in Operations \ {o} : op'[q] = op[q]
  BY ActsMove DEF IInv, CallInv, OwnTypes, TypeOK
<1>2. ASSUME NEW q \in Operations, op'[q].pc = "admitted", NEW p \in Applies[q]
      PROVE  /\ lock'[p] = q
             /\ op'[q].checked => spent'[p] + reserved'[p] + op'[q].amount <= Limit[p]
  <2>1. p \in Policies
    BY <1>2, BudgetAssumption
  <2>2. CASE q = o
    <3>1. Admit(o)
      BY <1>1, <1>2, <2>2, Admitted
    <3>2. /\ op'[o].amount = op[o].amount /\ (op'[o].checked <=> op[o].checked)
          /\ lock' = lock /\ spent' = spent /\ reserved' = reserved
      BY <1>1, <3>1, AmountsKept DEF Admit, rows
    <3>3. lock[p] = o
      BY <1>2, <2>2, <3>1 DEF Admit, Missing, Needs
    <3>4. op[o].checked => ~Exceeds(o, p)
      BY <1>2, <2>2, <3>1 DEF Admit
    <3>5. op[o].checked => op[o].amount \in Nat
      BY <1>1, BudgetAssumption DEF IInv, Priced, OperationStates
    <3>6. spent[p] \in Nat /\ reserved[p] \in Nat /\ Limit[p] \in Nat
      BY <1>1, <2>1, BudgetAssumption
    <3> QED BY <2>2, <3>2, <3>3, <3>4, <3>5, <3>6 DEF Exceeds
  <2>3. CASE q # o
    <3>1. op'[q] = op[q] /\ lock[p] = q
      BY <1>1, <1>2, <2>3 DEF Guarded
    <3>2. lock'[p] = q
      BY <1>1, <2>1, <2>3, <3>1, LocksHeld
    <3>3. reserved'[p] = reserved[p] /\ spent'[p] = spent[p]
      BY <2>1, <2>3, <3>1, Booked
    <3> QED BY <1>1, <1>2, <3>1, <3>2, <3>3 DEF Guarded
  <2> QED BY <2>2, <2>3
<1> QED BY <1>2 DEF Guarded

\* The balances and the sums they stand for move together, and the limit holds.
LEMMA ActsKeepInvariant ==
  ASSUME IInv, NEW o \in Operations, Acts(o)
  PROVE  IInv'
<1>1. CallInv' /\ CallInv /\ Priced /\ TypeOK
  BY StepMoves DEF IInv, Next, Acts
<1>2. Priced'
  BY <1>1, PricedKept
<1>3. Guarded'
  BY <1>1, <1>2, GuardKept
<1>4. /\ reserved \in [Policies -> Nat] /\ spent \in [Policies -> Nat]
      /\ \A q \in Operations \ {o} :
           op'[q] = op[q] /\ reservation'[q] = reservation[q]
  BY <1>1, ActsMove DEF TypeOK
<1>5. ASSUME NEW p \in Policies
      PROVE  /\ reserved'[p] = HeldSum(p)' /\ spent'[p] = PaidSum(p)'
             /\ reserved'[p] \in Nat /\ spent'[p] \in Nat
             /\ CountedSum(p)' <= Limit[p]
  <2>1. /\ reserved[p] = HeldSum(p) /\ spent[p] = PaidSum(p)
        /\ CountedSum(p) <= Limit[p]
    BY DEF IInv, BalancesAddUp, HardLimit, HeldSum, PaidSum, CountedSum
  <2>2. /\ HeldSum(p)' = HeldSum(p) + (Held(o, p)' - Held(o, p))
        /\ PaidSum(p)' = PaidSum(p) + (Paid(o, p)' - Paid(o, p))
        /\ CountedSum(p)' = CountedSum(p) + (Counted(o, p)' - Counted(o, p))
        /\ HeldSum(p)' \in Nat /\ PaidSum(p)' \in Nat /\ CountedSum(p)' \in Int
        /\ CountedSum(p) \in Int /\ HeldSum(p) \in Int /\ PaidSum(p) \in Int
        /\ CountedSum(p) <= HeldSum(p) + PaidSum(p)
    BY <1>1, <1>2, <1>4, SumsFollow
  <2>3. /\ reserved'[p] = reserved[p] + (Held(o, p)' - Held(o, p))
        /\ spent'[p] = spent[p] + (Paid(o, p)' - Paid(o, p))
        /\ \/ Counted(o, p)' <= Counted(o, p)
           \/ /\ op[o].pc = "admitted" /\ p \in Applies[o] /\ op[o].checked
              /\ Counted(o, p)' = Counted(o, p) + op[o].amount
    BY <1>1, <1>2, Booked
  <2>4. Limit[p] \in Nat /\ Counted(o, p) \in Nat /\ Counted(o, p)' \in Nat
    BY <1>1, <1>2, AmountTypes, AmountTypesPrime, BudgetAssumption
  <2>5. CASE Counted(o, p)' <= Counted(o, p)
    BY <2>1, <2>2, <2>3, <2>4, <2>5
  <2>6. CASE /\ op[o].pc = "admitted" /\ p \in Applies[o] /\ op[o].checked
             /\ Counted(o, p)' = Counted(o, p) + op[o].amount
    <3>1. spent[p] + reserved[p] + op[o].amount <= Limit[p]
      BY <2>6 DEF IInv, Guarded
    <3>2. op[o].amount \in Nat
      BY <1>1, <2>6, BudgetAssumption DEF CallInv, OwnTypes, OperationStates, Priced
    <3> QED BY <2>1, <2>2, <2>3, <2>4, <2>6, <3>1, <3>2
  <2> QED BY <2>3, <2>5, <2>6
<1>6. BalancesAddUp' /\ HardLimit'
  BY <1>5 DEF BalancesAddUp, HardLimit, HeldSum, PaidSum, CountedSum
<1>7. TypeOK'
  <2>1. /\ reserved' = [p \in Policies |-> reserved'[p]]
        /\ spent' = [p \in Policies |-> spent'[p]]
    BY <1>4 DEF Acts, Steps, Begin, LockRow, Admit, Refuse, Reserve, ReserveAnswerLost,
       ReserveCommitted, ReserveThrows, NotDispatched, Dispatch, DispatchThrows,
       AnswerUncertain, AnswerKnown, Finalize, FinalizeAnswerLost, SettleCommitted,
       FinalizeThrows, Crash, rows
  <2>2. reserved' \in [Policies -> Nat] /\ spent' \in [Policies -> Nat]
    BY <1>5, <2>1
  <2> QED BY <1>1, <2>2, TypesMove
      DEF TypeOK, CallInv, OwnTypes, ReservationStates
<1> QED BY <1>1, <1>2, <1>3, <1>6, <1>7 DEF IInv

LEMMA Invariance == Spec => []IInv
<1>1. IInv /\ [Next]_vars => IInv'
  <2> SUFFICES ASSUME IInv, [Next]_vars PROVE IInv'
    OBVIOUS
  <2>1. CASE UNCHANGED vars
    <3>1. /\ op' = op /\ ledger' = ledger /\ reservation' = reservation
          /\ reserved' = reserved /\ spent' = spent /\ lock' = lock
          /\ faults' = faults
      BY <2>1 DEF vars, rows
    <3>2. CallInv' /\ TypeOK'
      BY <3>1 DEF IInv, CallInv, OwnTypes, Fits, TypeOK
    <3>3. Priced' /\ Guarded'
      BY <3>1 DEF IInv, Priced, Guarded
    <3>4. BalancesAddUp'
      BY <3>1 DEF IInv, BalancesAddUp, Held, Paid
    <3>5. HardLimit'
      BY <3>1 DEF IInv, HardLimit, Counted, Committed, Held, Paid
    <3> QED BY <3>2, <3>3, <3>4, <3>5 DEF IInv
  <2>2. ASSUME NEW o \in Operations, Acts(o) PROVE IInv'
    BY <2>2, ActsKeepInvariant
  <2> QED BY <2>1, <2>2 DEF Next, Acts
<1> QED BY <1>1, InitInvariant, PTL DEF Spec

\* The rows, locks and calls have the states the code gives them, and the balances
\* never become negative, whatever is booked.
THEOREM TypeCorrect == Spec => []TypeOK
BY Invariance, PTL DEF IInv

\* The balances are what the reservations stand for, for any number of operations
\* (the updates of reserve and reconcile, with everything that may be repeated).
THEOREM BalancesBooked == Spec => []BalancesAddUp
BY Invariance, PTL DEF IInv

\* Checked operations stay within the limit of every policy (the query for exceeded
\* policies and the locks that its answer rests on).
THEOREM LimitsKept == Spec => []HardLimit
BY Invariance, PTL DEF IInv
=============================================================================
