--------------------------- MODULE SchedulesProofs ---------------------------
(***************************************************************************)
(* Safety of Schedules and of CaseDiscovery, whose commands they issue,    *)
(* for every set of schedules, pollers, workers and tickets and every      *)
(* bound, checked by TLAPS.                                                *)
(*                                                                         *)
(* Schedules.  The fencing token plays no part in the argument: what makes an          *)
(* occurrence unique is its key, and what makes the advance safe although  *)
(* it uses a next run read long ago is ReadBehind: everything before a     *)
(* next run that somebody has read, a poller or an administrator, is       *)
(* recorded already.                                                       *)
(*                                                                         *)
(* CaseDiscovery.  Again the fence plays no part.  A ticket need not   *)
(* be met by a pass at a cursor if it has been captured as it is, if it    *)
(* changed on or after the day the pass began, or if it is in the listing  *)
(* at the offset or behind it (Safe).  A change moves its own ticket to    *)
(* the front, with the day of the change, and no other one forward, so     *)
(* the first case or the second takes over from the third and a stale      *)
(* offset passes over nobody else.  At the end of a pass the second case   *)
(* is left, and the overlap takes the next pass back to the day on which   *)
(* this one began.  That the offsets of a listing are the numbers from 0   *)
(* to its length less one, one for each ticket, is a fact about finite     *)
(* sets (Offsets).                                                         *)
(***************************************************************************)
EXTENDS Schedules, CaseDiscovery, FiniteSetTheorems, SequenceTheorems, TLAPS

\* A run holds the lease of a schedule it has found due.
HeldIsFound ==
  \A r \in Runs : run[r].held # None => run[r].found[run[r].held] # 0

\* What was read is never ahead of what is recorded.
ReadBehind ==
  \A s \in Schedules, t \in Times :
    /\ \A r \in Runs : t < run[r].found[s] => Recorded(s, t)
    /\ t < admin[s] => Recorded(s, t)

\* Transitions are of knowledge schedules.
OnlyKnowledge == \A s \in Pinned : admin[s] = 0

\* The inductive invariant.
IInv == /\ TypeOK /\ HeldIsFound /\ ReadBehind /\ OnlyKnowledge
        /\ OneCommandPerOccurrence /\ NothingSkipped

RunRecord == [found : [Schedules -> 0 .. MaxTime],
              held : Schedules \union {None}, token : Nat]

-----------------------------------------------------------------------------
(* The initial states *)

LEMMA InitInvariant == Init => IInv
<1> SUFFICES ASSUME Init PROVE IInv
  OBVIOUS
<1>1. NoRun \in RunRecord
  BY ScheduleAssumption DEF NoRun, RunRecord
<1>2. NoLease \in [token : Nat, live : BOOLEAN]
  BY DEF NoLease
<1>3. TypeOK
  <2>1. run \in [Runs -> RunRecord]
    BY <1>1 DEF Init
  <2>2. lease \in [Schedules -> [token : Nat, live : BOOLEAN]]
    BY <1>2 DEF Init
  <2>3. commands \in [Schedules -> [Times -> Nat]]
    BY DEF Init
  <2> QED BY <2>1, <2>2, <2>3, ScheduleAssumption DEF Init, TypeOK, RunRecord
<1>4. HeldIsFound /\ ReadBehind /\ OnlyKnowledge
  BY ScheduleAssumption DEF Init, HeldIsFound, ReadBehind, OnlyKnowledge, NoRun, Times
<1>5. OneCommandPerOccurrence /\ NothingSkipped
  BY ScheduleAssumption
     DEF Init, OneCommandPerOccurrence, NothingSkipped, Recorded, Times
<1> QED BY <1>3, <1>4, <1>5 DEF IInv

-----------------------------------------------------------------------------
(* Steps of a run *)

LEMMA FaultTyped == ASSUME TypeOK, Fault PROVE faults' \in 0 .. MaxFaults
  BY ScheduleAssumption DEF TypeOK, Fault

LEMMA TransitionTyped ==
  ASSUME TypeOK, Transition PROVE transitions' \in 0 .. MaxTransitions
  BY ScheduleAssumption DEF TypeOK, Transition

\* What a run that goes on, or ends, still has of its batch.
LEMMA FewerFound ==
  ASSUME TypeOK, HeldIsFound, NEW r \in Runs, NEW s \in Schedules,
         run' = Continue(r, s) \/ run' = [run EXCEPT ![r] = NoRun]
  PROVE  /\ run' \in [Runs -> RunRecord]
         /\ HeldIsFound'
         /\ \A q \in Runs, u \in Schedules :
              run'[q].found[u] = run[q].found[u] \/ run'[q].found[u] = 0
<1>1. run \in [Runs -> RunRecord]
  BY DEF TypeOK, RunRecord
<1>2. NoRun \in RunRecord /\ \A u \in Schedules : NoRun.found[u] = 0
  BY ScheduleAssumption DEF NoRun, RunRecord
<1>3. CASE run' = Continue(r, s)
  <2> DEFINE done == [found |-> [run[r].found EXCEPT ![s] = 0],
                      held |-> None, token |-> 0]
  <2>1. run' = [run EXCEPT ![r] = done]
    BY <1>3 DEF Continue, NoRun
  <2>2. done \in RunRecord
    BY <1>1, ScheduleAssumption DEF RunRecord
  <2>3. \A u \in Schedules : done.found[u] = run[r].found[u] \/ done.found[u] = 0
    BY <1>1 DEF RunRecord
  <2>4. done.held = None
    OBVIOUS
  <2> HIDE DEF done
  <2> QED BY <1>1, <2>1, <2>2, <2>3, <2>4 DEF HeldIsFound
<1>4. CASE run' = [run EXCEPT ![r] = NoRun]
  <2>1. NoRun.held = None
    BY DEF NoRun
  <2> QED BY <1>1, <1>2, <1>4, <2>1 DEF HeldIsFound
<1> QED BY <1>3, <1>4

\* A step that only gives up what a run has found.
LEMMA GiveUpPreserves ==
  ASSUME IInv, NEW r \in Runs, NEW s \in Schedules,
         run' = Continue(r, s) \/ run' = [run EXCEPT ![r] = NoRun],
         UNCHANGED <<now, next, enabled, current, occurrences, commands, admin,
                     overwritten, transitions>>,
         lease' \in [Schedules -> [token : Nat, live : BOOLEAN]],
         faults' \in 0 .. MaxFaults
  PROVE  IInv'
<1>1. /\ run' \in [Runs -> RunRecord] /\ HeldIsFound'
      /\ \A q \in Runs, u \in Schedules :
           run'[q].found[u] = run[q].found[u] \/ run'[q].found[u] = 0
  BY FewerFound DEF IInv
<1>2. TypeOK'
  BY <1>1 DEF IInv, TypeOK, RunRecord
<1>3. ReadBehind'
  <2> SUFFICES ASSUME NEW u \in Schedules, NEW t \in Times
               PROVE  /\ \A q \in Runs : t < run'[q].found[u] => Recorded(u, t)
                      /\ t < admin[u] => Recorded(u, t)
    BY DEF ReadBehind, Recorded
  <2> QED BY <1>1 DEF IInv, ReadBehind, Times
<1>4. OnlyKnowledge' /\ OneCommandPerOccurrence' /\ NothingSkipped'
  BY DEF IInv, OnlyKnowledge, OneCommandPerOccurrence, NothingSkipped, Recorded
<1> QED BY <1>1, <1>2, <1>3, <1>4 DEF IInv

LEMMA ReleaseTyped ==
  ASSUME TypeOK, NEW s \in Schedules, ReleaseLease(s) \/ UNCHANGED lease
  PROVE  lease' \in [Schedules -> [token : Nat, live : BOOLEAN]]
<1>1. NoLease \in [token : Nat, live : BOOLEAN]
  BY DEF NoLease
<1> QED BY <1>1 DEF TypeOK, ReleaseLease

LEMMA GivingUpSteps ==
  ASSUME IInv, NEW r \in Runs, NEW s \in Schedules,
         \/ LeaseIsTaken(r, s) \/ EnqueueDuplicate(r, s)
         \/ EnqueueThrows(r, s) \/ Crash(r)
  PROVE  IInv'
<1>1. lease' \in [Schedules -> [token : Nat, live : BOOLEAN]]
  BY ReleaseTyped DEF IInv, LeaseIsTaken, EnqueueDuplicate, EnqueueThrows, Crash
<1>2. faults' \in 0 .. MaxFaults
  BY FaultTyped DEF IInv, TypeOK, LeaseIsTaken, EnqueueDuplicate, EnqueueThrows, Crash
<1>3. run' = Continue(r, s) \/ run' = [run EXCEPT ![r] = NoRun]
  BY DEF LeaseIsTaken, EnqueueDuplicate, EnqueueThrows, Crash
<1>4. UNCHANGED <<now, next, enabled, current, occurrences, commands, admin,
                  overwritten, transitions>>
  BY DEF LeaseIsTaken, EnqueueDuplicate, EnqueueThrows, Crash
<1> QED BY <1>1, <1>2, <1>3, <1>4, GiveUpPreserves

LEMMA FindDuePreserves ==
  ASSUME IInv, NEW r \in Runs, FindDue(r)
  PROVE  IInv'
<1> DEFINE due == [s \in Schedules |-> IF s \in Due(r) THEN next[s] ELSE 0]
<1>1. run \in [Runs -> RunRecord]
  BY DEF IInv, TypeOK, RunRecord
<1>2. run' = [run EXCEPT ![r] = [found |-> due, held |-> None, token |-> 0]]
  <2>1. run' = [run EXCEPT ![r] = [NoRun EXCEPT !.found = due]]
    BY DEF FindDue
  <2>2. [NoRun EXCEPT !.found = due] = [found |-> due, held |-> None, token |-> 0]
    BY DEF NoRun
  <2> QED BY <2>1, <2>2
<1>3. due \in [Schedules -> 0 .. MaxTime]
  BY ScheduleAssumption DEF IInv, TypeOK, Due
<1>4. \A s \in Schedules : due[s] = next[s] \/ due[s] = 0
  OBVIOUS
<1> HIDE DEF due
<1>5. run' \in [Runs -> RunRecord]
  BY <1>1, <1>2, <1>3 DEF RunRecord
<1>6. UNCHANGED <<now, next, enabled, current, lease, occurrences, commands,
                  admin, overwritten, transitions, faults>>
  BY DEF FindDue
<1>7. TypeOK'
  BY <1>5, <1>6 DEF IInv, TypeOK, RunRecord
<1>8. HeldIsFound'
  BY <1>1, <1>2 DEF IInv, HeldIsFound
<1>9. ReadBehind'
  <2> SUFFICES ASSUME NEW s \in Schedules, NEW t \in Times
               PROVE  /\ \A q \in Runs : t < run'[q].found[s] => Recorded(s, t)
                      /\ t < admin[s] => Recorded(s, t)
    BY <1>6 DEF ReadBehind, Recorded
  <2>1. t < due[s] => Recorded(s, t)
    BY <1>4 DEF IInv, NothingSkipped, Times
  <2>2. \A q \in Runs \ {r} : run'[q] = run[q]
    BY <1>1, <1>2
  <2>3. run'[r].found = due
    BY <1>1, <1>2
  <2> QED BY <2>1, <2>2, <2>3 DEF IInv, ReadBehind
<1>10. OnlyKnowledge' /\ OneCommandPerOccurrence' /\ NothingSkipped'
  BY <1>6 DEF IInv, OnlyKnowledge, OneCommandPerOccurrence, NothingSkipped, Recorded
<1> QED BY <1>7, <1>8, <1>9, <1>10 DEF IInv

LEMMA AcquireLeasePreserves ==
  ASSUME IInv, NEW r \in Runs, NEW s \in Schedules, AcquireLease(r, s)
  PROVE  IInv'
<1>1. run \in [Runs -> RunRecord]
  BY DEF IInv, TypeOK, RunRecord
<1>2. lease' \in [Schedules -> [token : Nat, live : BOOLEAN]]
  BY DEF IInv, TypeOK, AcquireLease, Take
<1>3. run' = [run EXCEPT ![r] = [found |-> run[r].found, held |-> s,
                                 token |-> lease'[s].token]]
  BY DEF AcquireLease
<1>4. run' \in [Runs -> RunRecord]
  BY <1>1, <1>2, <1>3 DEF RunRecord
<1>5. \A q \in Runs : run'[q].found = run[q].found
  BY <1>1, <1>3
<1>6. UNCHANGED <<now, next, enabled, current, occurrences, commands, admin,
                  overwritten, transitions, faults>>
  BY DEF AcquireLease
<1>7. TypeOK'
  BY <1>2, <1>4, <1>6 DEF IInv, TypeOK, RunRecord
<1>8. HeldIsFound'
  BY <1>1, <1>3 DEF IInv, HeldIsFound, AcquireLease
<1>9. ReadBehind'
  BY <1>5, <1>6 DEF IInv, ReadBehind, Recorded
<1>10. OnlyKnowledge' /\ OneCommandPerOccurrence' /\ NothingSkipped'
  BY <1>6 DEF IInv, OnlyKnowledge, OneCommandPerOccurrence, NothingSkipped, Recorded
<1> QED BY <1>7, <1>8, <1>9, <1>10 DEF IInv

\* The occurrence is recorded with its command, and everything before it was.
LEMMA EnqueuePreserves ==
  ASSUME IInv, NEW r \in Runs, NEW s \in Schedules, EnqueueOccurrence(r, s)
  PROVE  IInv'
<1> DEFINE t == run[r].found[s]
<1>1. t \in Times
  <2>1. run[r].held = s /\ s # None
    BY ScheduleAssumption DEF EnqueueOccurrence, HasLease
  <2>2. run[r].found[s] # 0
    BY <2>1 DEF IInv, HeldIsFound
  <2>3. run[r] \in RunRecord
    BY DEF IInv, TypeOK, RunRecord
  <2>4. run[r].found[s] \in 0 .. MaxTime
    BY <2>3 DEF RunRecord
  <2> QED BY <2>2, <2>4, ScheduleAssumption DEF Times
<1>2. ~Recorded(s, t) /\ occurrences' = occurrences \union {<<s, t>>}
  BY DEF EnqueueOccurrence
<1>3. \A u \in Schedules, v \in Times :
        Recorded(u, v)' <=> Recorded(u, v) \/ (u = s /\ v = t)
  BY <1>2 DEF Recorded
<1>4. \A v \in Times : v < t => Recorded(s, v)
  BY DEF IInv, ReadBehind
<1>5. commands' = [commands EXCEPT ![s][t] = @ + 1] /\ next' = [next EXCEPT ![s] = t + 1]
  BY DEF EnqueueOccurrence, Advance
<1>6. /\ run' \in [Runs -> RunRecord] /\ HeldIsFound'
      /\ \A q \in Runs, u \in Schedules :
           run'[q].found[u] = run[q].found[u] \/ run'[q].found[u] = 0
  BY FewerFound DEF IInv, EnqueueOccurrence
<1>7. lease' \in [Schedules -> [token : Nat, live : BOOLEAN]]
  BY ReleaseTyped DEF IInv, EnqueueOccurrence
<1>8. UNCHANGED <<now, enabled, current, admin, overwritten, transitions, faults>>
  BY DEF EnqueueOccurrence
<1> HIDE DEF t
<1>9. /\ commands' \in [Schedules -> [Times -> Nat]]
      /\ \A u \in Schedules, v \in Times :
           commands'[u][v] = IF u = s /\ v = t THEN commands[u][v] + 1
                             ELSE commands[u][v]
  BY <1>1, <1>5 DEF IInv, TypeOK
<1>10. /\ next' \in [Schedules -> 1 .. MaxTime + 1]
       /\ next'[s] = t + 1 /\ \A u \in Schedules \ {s} : next'[u] = next[u]
  BY <1>1, <1>5, ScheduleAssumption DEF IInv, TypeOK, Times
<1>11. occurrences' \subseteq Schedules \X Times
  BY <1>1, <1>2 DEF IInv, TypeOK
<1>12. TypeOK'
  BY <1>6, <1>7, <1>8, <1>9, <1>10, <1>11 DEF IInv, TypeOK, RunRecord
<1>13. ReadBehind'
  <2> SUFFICES ASSUME NEW u \in Schedules, NEW v \in Times
               PROVE  /\ \A q \in Runs : v < run'[q].found[u] => Recorded(u, v)'
                      /\ v < admin[u] => Recorded(u, v)'
    BY <1>8 DEF ReadBehind
  <2> QED BY <1>3, <1>6 DEF IInv, ReadBehind, Times
<1>14. OneCommandPerOccurrence'
  <2> SUFFICES ASSUME NEW u \in Schedules, NEW v \in Times
               PROVE  commands'[u][v] = IF Recorded(u, v)' THEN 1 ELSE 0
    BY DEF OneCommandPerOccurrence
  <2>1. commands[u][v] = IF Recorded(u, v) THEN 1 ELSE 0
    BY DEF IInv, OneCommandPerOccurrence
  <2>2. CASE u = s /\ v = t
    BY <1>2, <1>3, <1>9, <2>1, <2>2
  <2>3. CASE ~(u = s /\ v = t)
    BY <1>3, <1>9, <2>1, <2>3
  <2> QED BY <2>2, <2>3
<1>15. NothingSkipped'
  <2> SUFFICES ASSUME NEW u \in Schedules, NEW v \in Times, v < next'[u]
               PROVE  Recorded(u, v)'
    BY DEF NothingSkipped
  <2>1. CASE u = s
    BY <1>1, <1>3, <1>4, <1>10, <2>1 DEF Times
  <2>2. CASE u # s
    BY <1>3, <1>10, <2>2 DEF IInv, NothingSkipped
  <2> QED BY <2>1, <2>2
<1>16. OnlyKnowledge'
  BY <1>8 DEF IInv, OnlyKnowledge
<1> QED BY <1>6, <1>12, <1>13, <1>14, <1>15, <1>16 DEF IInv

-----------------------------------------------------------------------------
(* Time and administration *)

\* Steps that leave what was read, recorded and sent alone.
LEMMA AsidePreserves ==
  ASSUME IInv,
         \/ Tick \/ \E s \in Schedules : LeaseLapses(s) \/ Supersede(s)
         \/ UNCHANGED vars
  PROVE  IInv'
<1>1. UNCHANGED <<next, occurrences, commands, run, admin>>
  BY DEF Tick, LeaseLapses, Supersede, vars
<1>2. TypeOK'
  <2>1. CASE Tick
    BY <2>1, ScheduleAssumption DEF IInv, TypeOK, Tick
  <2>2. ASSUME NEW s \in Schedules, LeaseLapses(s)
        PROVE  TypeOK'
    <3>1. faults' \in 0 .. MaxFaults
      BY <2>2, FaultTyped DEF IInv, TypeOK, LeaseLapses
    <3>2. lease' \in [Schedules -> [token : Nat, live : BOOLEAN]]
      <4>1. lease' = [lease EXCEPT ![s] = [lease[s] EXCEPT !.live = FALSE]]
        BY <2>2 DEF LeaseLapses
      <4>2. lease \in [Schedules -> [token : Nat, live : BOOLEAN]]
        BY DEF IInv, TypeOK
      <4>3. [lease[s] EXCEPT !.live = FALSE] \in [token : Nat, live : BOOLEAN]
        BY <4>2
      <4> QED BY <4>1, <4>2, <4>3
    <3> QED BY <2>2, <3>1, <3>2 DEF IInv, TypeOK, LeaseLapses
  <2>3. ASSUME NEW s \in Schedules, Supersede(s)
        PROVE  TypeOK'
    BY <2>3, TransitionTyped DEF IInv, TypeOK, Supersede
  <2>4. CASE UNCHANGED vars
    BY <2>4 DEF IInv, TypeOK, vars
  <2> QED BY <2>1, <2>2, <2>3, <2>4
<1>3. /\ HeldIsFound' /\ ReadBehind' /\ OnlyKnowledge'
      /\ OneCommandPerOccurrence' /\ NothingSkipped'
  BY <1>1
     DEF IInv, HeldIsFound, ReadBehind, OnlyKnowledge, OneCommandPerOccurrence,
         NothingSkipped, Recorded
<1> QED BY <1>2, <1>3 DEF IInv

LEMMA ReadForTransitionPreserves ==
  ASSUME IInv, NEW s \in Schedules, ReadForTransition(s)
  PROVE  IInv'
<1>1. /\ admin' = [admin EXCEPT ![s] = next[s]]
      /\ UNCHANGED <<now, next, enabled, current, lease, occurrences, commands,
                     run, overwritten, faults>>
  BY DEF ReadForTransition
<1>2. TypeOK'
  <2>1. transitions' \in 0 .. MaxTransitions
    BY TransitionTyped DEF IInv, ReadForTransition
  <2>2. admin' \in [Schedules -> 0 .. MaxTime + 1]
    BY <1>1, ScheduleAssumption DEF IInv, TypeOK
  <2> QED BY <1>1, <2>1, <2>2 DEF IInv, TypeOK
<1>3. ReadBehind'
  <2> SUFFICES ASSUME NEW u \in Schedules, NEW t \in Times
               PROVE  /\ \A q \in Runs : t < run[q].found[u] => Recorded(u, t)
                      /\ t < admin'[u] => Recorded(u, t)
    BY <1>1 DEF ReadBehind, Recorded
  <2>1. admin'[u] = admin[u] \/ admin'[u] = next[u]
    BY <1>1 DEF IInv, TypeOK
  <2> QED BY <2>1 DEF IInv, ReadBehind, NothingSkipped
<1>4. HeldIsFound' /\ OneCommandPerOccurrence' /\ NothingSkipped'
  BY <1>1 DEF IInv, HeldIsFound, OneCommandPerOccurrence, NothingSkipped, Recorded
<1>5. OnlyKnowledge'
  BY ScheduleAssumption DEF IInv, TypeOK, OnlyKnowledge, ReadForTransition
<1> QED BY <1>2, <1>3, <1>4, <1>5 DEF IInv

\* The next run that is written back may be an old one, never one too late.
LEMMA WriteTransitionPreserves ==
  ASSUME IInv, NEW s \in Schedules, WriteTransition(s)
  PROVE  IInv'
<1>1. /\ admin[s] # 0
      /\ next' = [next EXCEPT ![s] = admin[s]]
      /\ admin' = [admin EXCEPT ![s] = 0]
      /\ UNCHANGED <<now, current, lease, occurrences, commands, run,
                     transitions, faults>>
  BY DEF WriteTransition
<1>2. /\ next' \in [Schedules -> 1 .. MaxTime + 1]
      /\ admin' \in [Schedules -> 0 .. MaxTime + 1]
  BY <1>1, ScheduleAssumption DEF IInv, TypeOK
<1>3. enabled' \in [Schedules -> BOOLEAN]
  BY DEF IInv, TypeOK, WriteTransition
<1>4. overwritten' \subseteq Schedules \ Pinned
  BY <1>1 DEF IInv, TypeOK, OnlyKnowledge, WriteTransition
<1>5. TypeOK'
  BY <1>1, <1>2, <1>3, <1>4 DEF IInv, TypeOK
<1>6. ReadBehind'
  <2> SUFFICES ASSUME NEW u \in Schedules, NEW t \in Times
               PROVE  /\ \A q \in Runs : t < run[q].found[u] => Recorded(u, t)
                      /\ t < admin'[u] => Recorded(u, t)
    BY <1>1 DEF ReadBehind, Recorded
  <2>1. admin'[u] = admin[u] \/ admin'[u] = 0
    BY <1>1 DEF IInv, TypeOK
  <2> QED BY <2>1 DEF IInv, ReadBehind, Times
<1>7. NothingSkipped'
  <2> SUFFICES ASSUME NEW u \in Schedules, NEW t \in Times, t < next'[u]
               PROVE  Recorded(u, t)
    BY <1>1 DEF NothingSkipped, Recorded
  <2>1. next'[u] = next[u] \/ next'[u] = admin[u]
    BY <1>1 DEF IInv, TypeOK
  <2> QED BY <2>1 DEF IInv, ReadBehind, NothingSkipped
<1>8. HeldIsFound' /\ OneCommandPerOccurrence'
  BY <1>1 DEF IInv, HeldIsFound, OneCommandPerOccurrence, Recorded
<1>9. OnlyKnowledge'
  BY <1>1, ScheduleAssumption DEF IInv, TypeOK, OnlyKnowledge
<1> QED BY <1>5, <1>6, <1>7, <1>8, <1>9 DEF IInv

-----------------------------------------------------------------------------
(* The theorems *)

LEMMA StepPreserves == IInv /\ [Next]_vars => IInv'
<1> SUFFICES ASSUME IInv, [Next]_vars PROVE IInv'
  OBVIOUS
<1>1. ASSUME NEW r \in Runs, Poll(r)
      PROVE  IInv'
  BY <1>1, FindDuePreserves, AcquireLeasePreserves, EnqueuePreserves, GivingUpSteps
     DEF Poll
<1>2. ASSUME NEW r \in Runs, Crash(r)
      PROVE  IInv'
  <2>1. CASE Schedules = {}
    <3>1. run' \in [Runs -> RunRecord]
      BY <1>2, ScheduleAssumption DEF IInv, TypeOK, Crash, NoRun, RunRecord
    <3>2. faults' \in 0 .. MaxFaults
      BY <1>2, FaultTyped DEF IInv, Crash
    <3>3. TypeOK'
      BY <1>2, <3>1, <3>2 DEF IInv, TypeOK, Crash, RunRecord
    <3>4. HeldIsFound'
      BY <1>2, <2>1 DEF IInv, TypeOK, HeldIsFound, Crash, NoRun
    <3> QED BY <2>1, <3>3, <3>4, ScheduleAssumption
            DEF IInv, ReadBehind, OneCommandPerOccurrence, NothingSkipped, OnlyKnowledge
  <2>2. CASE Schedules # {}
    BY <1>2, <2>2, GivingUpSteps
  <2> QED BY <2>1, <2>2
<1>3. ASSUME NEW s \in Schedules, ReadForTransition(s) \/ WriteTransition(s)
      PROVE  IInv'
  BY <1>3, ReadForTransitionPreserves, WriteTransitionPreserves
<1>4. CASE \/ Tick \/ \E s \in Schedules : LeaseLapses(s) \/ Supersede(s)
           \/ UNCHANGED vars
  BY <1>4, AsidePreserves
<1> QED BY <1>1, <1>2, <1>3, <1>4 DEF Next

LEMMA Invariance == Spec => []IInv
  BY InitInvariant, StepPreserves, PTL DEF Spec

\* The rows of schedules, leases, occurrences and commands have their types.
THEOREM TypeCorrect == Spec => []TypeOK
<1>1. IInv => TypeOK
  BY DEF IInv
<1> QED BY <1>1, Invariance, PTL

\* However many replicas poll and whatever they read before they had the lease, an
\* occurrence has exactly one command in the outbox.
THEOREM OccurrencesUnique == Spec => []OneCommandPerOccurrence
<1>1. IInv => OneCommandPerOccurrence
  BY DEF IInv
<1> QED BY <1>1, Invariance, PTL

\* No occurrence is passed over, whoever advances the schedule and however old the
\* next run is that a transition writes back.
THEOREM OccurrencesComplete == Spec => []NothingSkipped
<1>1. IInv => NothingSkipped
  BY DEF IInv
<1> QED BY <1>1, Invariance, PTL

\* Only the transaction that records an occurrence sends anything, and everything
\* before that occurrence was recorded, and so sent, when the run read the schedule.
LEMMA EnqueueFires ==
  ASSUME IInv, NEW r \in Runs, NEW s \in Schedules, EnqueueOccurrence(r, s)
  PROVE  Clock!Fire(s)
<1> DEFINE t == run[r].found[s]
<1>1. t \in Times
  <2>1. run[r].held = s /\ s # None
    BY ScheduleAssumption DEF EnqueueOccurrence, HasLease
  <2>2. run[r].found[s] # 0
    BY <2>1 DEF IInv, HeldIsFound
  <2>3. run[r] \in RunRecord
    BY DEF IInv, TypeOK, RunRecord
  <2>4. run[r].found[s] \in 0 .. MaxTime
    BY <2>3 DEF RunRecord
  <2> QED BY <2>2, <2>4, ScheduleAssumption DEF Times
<1>2. ~Recorded(s, t) /\ commands' = [commands EXCEPT ![s][t] = @ + 1]
  BY DEF EnqueueOccurrence
<1>3. \A v \in Times : v < t => Recorded(s, v)
  BY DEF IInv, ReadBehind
<1> HIDE DEF t
<1>4. Clock!IsNext(s, t)
  BY <1>1, <1>2, <1>3 DEF IInv, OneCommandPerOccurrence, Clock!IsNext
<1>5. commands' = [commands EXCEPT ![s][t] = 1]
  BY <1>1, <1>2, <1>4 DEF Clock!IsNext
<1> QED BY <1>1, <1>4, <1>5 DEF Clock!Fire

\* No other step sends a command.
LEMMA OthersSendNothing ==
  ASSUME [Next]_vars
  PROVE  \/ UNCHANGED commands
         \/ \E r \in Runs, s \in Schedules : EnqueueOccurrence(r, s)
<1>1. ASSUME NEW r \in Runs, Poll(r) \/ Crash(r)
      PROVE  UNCHANGED commands \/ \E s \in Schedules : EnqueueOccurrence(r, s)
  BY <1>1
     DEF Poll, Crash, FindDue, AcquireLease, LeaseIsTaken, EnqueueDuplicate, EnqueueThrows
<1>2. ASSUME NEW s \in Schedules,
             LeaseLapses(s) \/ ReadForTransition(s) \/ WriteTransition(s) \/ Supersede(s)
      PROVE  UNCHANGED commands
  BY <1>2 DEF LeaseLapses, ReadForTransition, WriteTransition, Supersede
<1>3. CASE Tick \/ UNCHANGED vars
  BY <1>3 DEF Tick, vars
<1> QED BY <1>1, <1>2, <1>3 DEF Next

\* The schedulers are the clock that CaseDiscovery takes them for: whatever the pollers
\* have read and whoever holds the lease, the commands of a schedule are sent in the
\* order of its occurrences, and each of them once (enqueueOccurrence).
THEOREM SchedulesImplementClock == Spec => ImplementsClock
<1>1. Init => Clock!Init
  BY DEF Init, Clock!Init
<1>2. IInv /\ [Next]_vars => [Clock!Next]_commands
  <2> SUFFICES ASSUME IInv, [Next]_vars PROVE [Clock!Next]_commands
    OBVIOUS
  <2>1. CASE UNCHANGED commands
    BY <2>1
  <2>2. ASSUME NEW r \in Runs, NEW s \in Schedules, EnqueueOccurrence(r, s)
        PROVE  Clock!Next
    BY <2>2, EnqueueFires DEF Clock!Next
  <2> QED BY <2>1, <2>2, OthersSendNothing
<1> QED BY <1>1, <1>2, Invariance, PTL DEF Spec, ImplementsClock, Clock!Spec

-----------------------------------------------------------------------------
(* Discovery *)

\* What a reader at a cursor has still in front of it.
AheadOf(t, at) == changed[t] >= at.from /\ Before(t, at.from) >= at.offset

\* A ticket that a pass which goes on from a cursor need not, or will, request.
Safe(t, at) ==
  \/ covered[t] = version[t]
  \/ at.offset > 0 /\ changed[t] >= at.began
  \/ AheadOf(t, at)

\* The same in the middle of a page, whose cursor is the next one.
Reached(t, j) ==
  \/ covered[t] = version[t]
  \/ changed[t] >= j.at.began
  \/ \E i \in 1 .. Len(j.page) : j.page[i][1] = t
  \/ j.at.offset > 0 /\ AheadOf(t, j.at)

\* A cursor of the past, in the listing it names.
Within(at) ==
  at.from <= today /\ at.began <= today /\ at.offset <= Cardinality(Listed(at.from))

\* A page has the ticket as it is, or as it was before a change in this pass.
Fresh(item, at) ==
  /\ item[2] <= version[item[1]]
  /\ item[2] = version[item[1]] \/ changed[item[1]] >= at.began

\* A worker's delivery, with the type of its page.
Deliveries == [command : Commands \union {Nothing}, pc : Pcs, at : Cursors,
               page : Seq(Tickets \X Nat)]

\* What a delivery in progress has read, and what its pass still has to request.
DeliverySafe(j) ==
  /\ j # Idle => j.command \in Commands
  /\ Within(j.at)
  /\ j.pc = "request" <=> j.page # <<>>
  /\ \A i \in 1 .. Len(j.page) : Fresh(j.page[i], j.at)
  /\ ~longPass /\ j.pc = "fetch" => \A t \in Tickets : Safe(t, j.at)
  /\ ~longPass /\ j.pc \in {"request", "advance"} => \A t \in Tickets : Reached(t, j)

\* The saved cursor, as the next claim opens it, leaves nothing out.
SavedSafe(c) ==
  Within(c) /\ (~longPass => \A t \in Tickets : Safe(t, Opened(c)))

\* Nothing is of a later day, or of a later version, than the ticket itself; the
\* version of a key that is known has been captured.
Past ==
  /\ \A t \in Tickets : changed[t] <= today /\ covered[t] <= version[t]
  /\ \A q \in requests : q[3] <= covered[q[2]]

\* The inductive invariant of discovery.
DiscoveryInv ==
  /\ DiscoveryTypeOK /\ Past
  /\ \A c \in Cursors : c = cursor => SavedSafe(c)
  /\ \A w \in Workers, j \in Deliveries : j = worker[w] => DeliverySafe(j)

\* The listing is a sequence: its tickets have the offsets from 0, one each.
LEMMA Offsets ==
  ASSUME DiscoveryTypeOK, NEW from \in Nat
  PROVE  /\ Cardinality(Listed(from)) \in Nat
         /\ Cardinality(Listed(from)) <= Cardinality(Tickets)
         /\ \A t \in Listed(from) :
              /\ Before(t, from) \in 0 .. Cardinality(Listed(from)) - 1
              /\ At(from, Before(t, from)) = t
         /\ \A n \in 0 .. Cardinality(Listed(from)) - 1 :
              At(from, n) \in Listed(from)
<1> DEFINE L == Listed(from)
           B == [t \in L |-> Before(t, from)]
           Front(t) == {u \in L : place[u] < place[t]}
<1>1. /\ IsFiniteSet(Tickets) /\ L \in SUBSET Tickets
      /\ place \in [Tickets -> 1 .. Cardinality(Tickets)]
      /\ \A a, b \in Tickets : place[a] = place[b] => a = b
      /\ Cardinality(Tickets) \in Nat
  BY FS_CardinalityType, DiscoveryAssumption
     DEF DiscoveryTypeOK, Places, Listed, Injection, IsInjective
<1>2. IsFiniteSet(L) /\ Cardinality(L) \in Nat /\ Cardinality(L) <= Cardinality(Tickets)
  BY <1>1, FS_Subset, FS_CardinalityType
<1>3. \A t \in Tickets : Before(t, from) = Cardinality(Front(t))
  BY DEF Before
<1>4. \A t \in L : Front(t) \in SUBSET (L \ {t}) /\ t \in Tickets
  BY <1>1
<1>5. ASSUME NEW t \in L
      PROVE  /\ Before(t, from) \in 0 .. Cardinality(L) - 1
             /\ Before(t, from) \in Nat
             /\ IsFiniteSet(Front(t)) /\ Before(t, from) = Cardinality(Front(t))
  <2>1. IsFiniteSet(L \ {t}) /\ Cardinality(L \ {t}) = Cardinality(L) - 1
    BY <1>2, FS_RemoveElement
  <2>2. IsFiniteSet(Front(t)) /\ Cardinality(Front(t)) <= Cardinality(L) - 1
    BY <2>1, <1>4, FS_Subset
  <2>3. Cardinality(Front(t)) \in Nat
    BY <2>2, FS_CardinalityType
  <2> HIDE DEF L, Front
  <2> QED BY <2>2, <2>3, <1>2, <1>3, <1>4
<1>6. ASSUME NEW t \in L, NEW u \in L, place[t] < place[u]
      PROVE  Before(t, from) < Before(u, from)
  <2>1. Front(t) \union {t} \in SUBSET Front(u) /\ t \notin Front(t)
    BY <1>1, <1>6
  <2>2. Cardinality(Front(t) \union {t}) = Cardinality(Front(t)) + 1
    BY <1>5, <2>1, FS_AddElement
  <2>3. Cardinality(Front(t) \union {t}) <= Cardinality(Front(u))
    BY <1>5, <2>1, FS_Subset
  <2> HIDE DEF L, Front
  <2> QED BY <2>2, <2>3, <1>5, <1>2
<1>7. ASSUME NEW t \in L, NEW u \in L, Before(t, from) = Before(u, from)
      PROVE  t = u
  <2>1. t \in Tickets /\ u \in Tickets
    BY <1>4
  <2>2. ~(place[t] < place[u]) /\ ~(place[u] < place[t])
    <3>1. Before(t, from) \in Nat /\ Before(u, from) \in Nat
      BY <1>5
    <3> HIDE DEF L, B, Front
    <3> QED BY <3>1, <1>6, <1>7
  <2>3. place[t] \in Nat /\ place[u] \in Nat
    BY <2>1, <1>1
  <2> QED BY <2>1, <2>2, <2>3, <1>1
<1>8. B \in Injection(L, 0 .. Cardinality(L) - 1)
  BY <1>5, <1>7 DEF Injection, IsInjective
<1>9. B \in Surjection(L, 0 .. Cardinality(L) - 1)
  <2>1. /\ IsFiniteSet(0 .. Cardinality(L) - 1)
        /\ Cardinality(0 .. Cardinality(L) - 1) = Cardinality(L)
    <3> HIDE DEF L
    <3> DEFINE c == Cardinality(L)
    <3>1. c \in Nat
      BY <1>2
    <3> HIDE DEF c
    <3>2. IsFiniteSet(0 .. c - 1) /\ Cardinality(0 .. c - 1) = c
      BY <3>1, FS_Interval
    <3> QED BY <3>2 DEF c
  <2> QED BY <2>1, <1>8, FS_Injection
<1>10. ASSUME NEW n \in 0 .. Cardinality(L) - 1
       PROVE  \E t \in L : Before(t, from) = n
  BY <1>9 DEF Surjection
<1>11. \A n \in 0 .. Cardinality(L) - 1 :
         At(from, n) \in L /\ Before(At(from, n), from) = n
  BY <1>10 DEF At
<1>12. \A t \in L : At(from, Before(t, from)) = t
  BY <1>5, <1>7, <1>11
<1> QED BY <1>2, <1>5, <1>11, <1>12

\* A ticket that changes comes first: the others keep their order and get no less
\* tickets in front of them, and the listing loses none.
LEMMA ChangeMovesBack ==
  ASSUME DiscoveryTypeOK, NEW u \in Tickets, Change(u),
         \A t \in Tickets : changed[t] <= today, NEW from \in Nat, from <= today
  PROVE  /\ place' \in Places
         /\ Cardinality(Listed(from)) <= Cardinality(Listed(from))'
         /\ Cardinality(Listed(from))' \in Nat
         /\ \A t \in Tickets : Before(t, from) \in Nat /\ Before(t, from)' \in Nat
         /\ \A t \in Tickets \ {u} : Before(t, from) <= Before(t, from)'
<1> DEFINE N == Cardinality(Tickets)
           L == {t \in Tickets : changed[t] >= from}
           M == {t \in Tickets : changed'[t] >= from}
           Front(t) == {x \in L : place[x] < place[t]}
           Moved(t) == {x \in M : place'[x] < place'[t]}
<1>1. /\ IsFiniteSet(Tickets) /\ N \in Nat /\ today \in Nat
      /\ place \in [Tickets -> 1 .. N] /\ changed \in [Tickets -> Nat]
      /\ \A a, b \in Tickets : place[a] = place[b] => a = b
  BY FS_CardinalityType, DiscoveryAssumption
     DEF DiscoveryTypeOK, Places, Injection, IsInjective, Days
<1>2. /\ place' = [x \in Tickets |-> IF x = u THEN 1
                                     ELSE IF place[x] < place[u] THEN place[x] + 1
                                     ELSE place[x]]
      /\ changed' = [changed EXCEPT ![u] = today]
  BY DEF Change
<1>3. Listed(from) = L /\ Listed(from)' = M
  BY DEF Listed
<1>4. \A t \in Tickets : /\ Before(t, from) = Cardinality(Front(t))
                         /\ Before(t, from)' = Cardinality(Moved(t))
  BY <1>3 DEF Before
<1> HIDE DEF N
<1>5. ASSUME NEW x \in Tickets, NEW t \in Tickets \ {u}, place[x] < place[t]
      PROVE  place'[x] < place'[t]
  <2>1. place[x] \in Nat /\ place[t] \in Nat /\ place[u] \in Nat /\ place[u] >= 1
        /\ place[t] # place[u] /\ place[x] >= 1
    BY <1>1
  <2>2. CASE x = u
    BY <1>2, <1>5, <2>1, <2>2
  <2>3. CASE x # u
    <3>1. place[x] # place[u]
      BY <1>1, <2>3
    <3> QED BY <1>2, <1>5, <2>1, <2>3, <3>1
  <2> QED BY <2>2, <2>3
<1>6. place' \in Places
  <2>1. \A x \in Tickets : place'[x] \in 1 .. N
    <3> SUFFICES ASSUME NEW x \in Tickets PROVE place'[x] \in 1 .. N
      OBVIOUS
    <3>1. place[x] \in 1 .. N /\ place[u] \in 1 .. N
      BY <1>1
    <3> QED BY <3>1, <1>1, <1>2
  <2>2. ASSUME NEW a \in Tickets, NEW b \in Tickets, place'[a] = place'[b]
        PROVE  a = b
    <3>1. place'[a] \in Nat /\ place'[b] \in Nat
      BY <2>1
    <3>2. place[a] \in Nat /\ place[b] \in Nat /\ place[u] \in Nat
          /\ place[a] >= 1 /\ place[b] >= 1 /\ place[u] >= 1
      BY <1>1
    <3>3. CASE a # u /\ b # u
      <4>1. ~(place[a] < place[b]) /\ ~(place[b] < place[a])
        BY <1>5, <2>2, <3>1, <3>3
      <4> QED BY <4>1, <3>2, <1>1
    <3>4. CASE a = u /\ b # u
      <4>1. place[b] # place[u]
        BY <1>1, <3>4
      <4> QED BY <4>1, <3>2, <3>4, <1>2, <2>2
    <3>5. CASE a # u /\ b = u
      <4>1. place[a] # place[u]
        BY <1>1, <3>5
      <4> QED BY <4>1, <3>2, <3>5, <1>2, <2>2
    <3> QED BY <3>3, <3>4, <3>5
  <2>3. place' \in [Tickets -> 1 .. N]
    BY <1>2, <2>1
  <2> QED BY <2>2, <2>3 DEF Places, Injection, IsInjective, N
<1>7. L \in SUBSET M
  BY <1>1, <1>2
<1>8. IsFiniteSet(M) /\ IsFiniteSet(L) /\ Cardinality(M) \in Nat
  BY <1>1, FS_Subset, FS_CardinalityType
<1>9. ASSUME NEW t \in Tickets \ {u}
      PROVE  Cardinality(Front(t)) <= Cardinality(Moved(t))
  <2>1. Front(t) \in SUBSET Moved(t)
    BY <1>5, <1>7
  <2>2. IsFiniteSet(Moved(t))
    BY <1>8, FS_Subset
  <2> QED BY <2>1, <2>2, FS_Subset
<1>10. ASSUME NEW t \in Tickets
       PROVE  Cardinality(Front(t)) \in Nat /\ Cardinality(Moved(t)) \in Nat
  BY <1>8, FS_Subset, FS_CardinalityType
<1>11. /\ Cardinality(L) \in Nat /\ Cardinality(M) \in Nat
       /\ Cardinality(L) <= Cardinality(M)
  BY <1>7, <1>8, FS_Subset, FS_CardinalityType
<1> HIDE DEF L, M, Front, Moved
<1> QED BY <1>3, <1>4, <1>6, <1>7, <1>9, <1>10, <1>11

\* What the source, the calendar and the other workers may do to a pass.
Later ==
  /\ today <= today'
  /\ \/ /\ UNCHANGED <<place, changed, version>>
        /\ \A t \in Tickets : covered'[t] = covered[t] \/ covered'[t] = version[t]
     \/ UNCHANGED covered /\ \E u \in Tickets : Change(u)

\* A ticket that a pass has met, or has in front of it, stays so.
LEMMA CursorKept ==
  ASSUME DiscoveryTypeOK, DiscoveryTypeOK', Past, Later,
         NEW at \in Cursors, Within(at)
  PROVE  /\ Within(at)'
         /\ \A t \in Tickets :
              /\ Safe(t, at) => Safe(t, at)'
              /\ changed[t] >= at.began => changed'[t] >= at.began
              /\ AheadOf(t, at) => changed'[t] >= at.began \/ AheadOf(t, at)'
              /\ covered[t] = version[t] =>
                   covered'[t] = version'[t] \/ changed'[t] >= at.began
         /\ \A item \in Tickets \X Nat : Fresh(item, at) => Fresh(item, at)'
<1>1. /\ at.from \in Nat /\ at.began \in Nat /\ at.offset \in Nat
      /\ at.from <= today /\ at.began <= today
      /\ at.offset <= Cardinality(Listed(at.from))
      /\ today \in Nat /\ today' \in Nat
      /\ changed \in [Tickets -> Nat] /\ changed' \in [Tickets -> Nat]
      /\ version \in [Tickets -> Nat] /\ version' \in [Tickets -> Nat]
      /\ \A t \in Tickets : changed[t] <= today
  <2>1. at.from \in Nat /\ at.began \in Nat /\ at.offset \in Nat
    BY DEF Cursors, Days
  <2>2. /\ today \in 0 .. MaxDay /\ today' \in 0 .. MaxDay
        /\ changed \in [Tickets -> 0 .. MaxDay] /\ changed' \in [Tickets -> 0 .. MaxDay]
        /\ version \in [Tickets -> Nat] /\ version' \in [Tickets -> Nat]
    BY DEF DiscoveryTypeOK, Days
  <2>3. 0 .. MaxDay \in SUBSET Nat
    OBVIOUS
  <2> QED BY <2>1, <2>2, <2>3 DEF Within, Past
<1>2. Cardinality(Listed(at.from)) \in Nat
  BY <1>1, Offsets
<1>3. CASE /\ UNCHANGED <<place, changed, version>>
           /\ \A t \in Tickets : covered'[t] = covered[t] \/ covered'[t] = version[t]
  <2>1. /\ Listed(at.from)' = Listed(at.from)
        /\ \A t \in Tickets : Before(t, at.from)' = Before(t, at.from)
    BY <1>3 DEF Listed, Before
  <2> QED BY <1>1, <1>2, <1>3, <2>1 DEF Later, Within, Safe, AheadOf, Fresh
<1>4. ASSUME NEW u \in Tickets, Change(u), UNCHANGED covered
      PROVE  /\ Within(at)'
             /\ \A t \in Tickets :
                  /\ Safe(t, at) => Safe(t, at)'
                  /\ changed[t] >= at.began => changed'[t] >= at.began
                  /\ AheadOf(t, at) => changed'[t] >= at.began \/ AheadOf(t, at)'
                  /\ covered[t] = version[t] =>
                       covered'[t] = version'[t] \/ changed'[t] >= at.began
             /\ \A item \in Tickets \X Nat : Fresh(item, at) => Fresh(item, at)'
  <2>1. /\ changed' = [changed EXCEPT ![u] = today]
        /\ version' = [version EXCEPT ![u] = @ + 1]
        /\ today' = today
    BY <1>4 DEF Change
  <2>2. /\ Cardinality(Listed(at.from)) <= Cardinality(Listed(at.from))'
        /\ \A t \in Tickets :
             Before(t, at.from) \in Nat /\ Before(t, at.from)' \in Nat
        /\ \A t \in Tickets \ {u} : Before(t, at.from) <= Before(t, at.from)'
    BY <1>1, <1>4, ChangeMovesBack
  <2>3. Cardinality(Listed(at.from))' \in Nat
    BY <1>1, <1>4, ChangeMovesBack
  <2>4. Within(at)'
    BY <1>1, <1>2, <2>1, <2>2, <2>3 DEF Within
  <2>5. ASSUME NEW t \in Tickets
        PROVE  /\ Safe(t, at) => Safe(t, at)'
               /\ changed[t] >= at.began => changed'[t] >= at.began
               /\ AheadOf(t, at) => changed'[t] >= at.began \/ AheadOf(t, at)'
               /\ covered[t] = version[t] =>
                    covered'[t] = version'[t] \/ changed'[t] >= at.began
    <3>1. CASE t = u
      <4>1. changed'[t] = today
        BY <1>1, <2>1, <3>1
      <4>2. at.offset > 0 \/ Before(t, at.from)' >= at.offset
        BY <1>1, <2>2
      <4> QED BY <1>1, <4>1, <4>2 DEF Safe, AheadOf
    <3>2. CASE t # u
      <4>1. changed'[t] = changed[t] /\ version'[t] = version[t]
        BY <1>1, <2>1, <3>2
      <4> QED BY <1>1, <1>4, <2>2, <3>2, <4>1 DEF Safe, AheadOf
    <3> QED BY <3>1, <3>2
  <2>6. ASSUME NEW item \in Tickets \X Nat, Fresh(item, at) PROVE Fresh(item, at)'
    <3>1. item[1] \in Tickets /\ item[2] \in Nat
      OBVIOUS
    <3>2. CASE item[1] = u
      BY <1>1, <2>1, <2>6, <3>1, <3>2 DEF Fresh
    <3>3. CASE item[1] # u
      BY <1>1, <2>1, <2>6, <3>1, <3>3 DEF Fresh
    <3> QED BY <3>2, <3>3
  <2> QED BY <2>4, <2>5, <2>6
<1> QED BY <1>3, <1>4 DEF Later

\* A pass starts earlier than its cursor says, by the overlap at most.
LEMMA OpenedIsEarlier ==
  ASSUME DiscoveryTypeOK, NEW c \in Cursors, Within(c)
  PROVE  /\ Opened(c) \in Cursors /\ Within(Opened(c))
         /\ Opened(c).offset = c.offset /\ Opened(c).began = c.began
         /\ Opened(c).from <= c.from
         /\ c.offset = 0 => Opened(c).from = 0 \/ Opened(c).from = c.from - Overlap
         /\ c.offset # 0 => Opened(c) = c
<1>1. /\ c.from \in 0 .. MaxDay /\ c.began \in 0 .. MaxDay
      /\ c.offset \in 0 .. Cardinality(Tickets) /\ Overlap \in Nat
      /\ c = [from |-> c.from, offset |-> c.offset, began |-> c.began]
      /\ today \in 0 .. MaxDay /\ MaxDay \in Nat
  BY DiscoveryAssumption DEF Cursors, Days, DiscoveryTypeOK
<1>2. CASE c.offset # 0
  BY <1>1, <1>2 DEF Opened
<1>3. CASE c.offset = 0
  <2> DEFINE from == IF c.from > Overlap THEN c.from - Overlap ELSE 0
  <2>1. /\ from \in 0 .. MaxDay /\ from <= c.from
        /\ from = 0 \/ from = c.from - Overlap
    BY <1>1
  <2>2. Opened(c) = [from |-> from, offset |-> c.offset, began |-> c.began]
    BY <1>1, <1>3 DEF Opened
  <2> HIDE DEF from
  <2>3. Opened(c) \in Cursors
    BY <1>1, <2>1, <2>2 DEF Cursors, Days
  <2>4. Cardinality(Listed(from)) \in Nat
    BY <2>1, Offsets
  <2>5. Within(Opened(c))
    BY <1>1, <1>3, <2>1, <2>2, <2>4 DEF Within
  <2> QED BY <1>3, <2>1, <2>2, <2>3, <2>5
<1> QED BY <1>2, <1>3

\* So a delivery that the step leaves alone stays safe, and so does the saved cursor.
LEMMA DeliveryKept ==
  ASSUME DiscoveryTypeOK, DiscoveryTypeOK', Past, Later, longPass => longPass',
         NEW j \in Deliveries, DeliverySafe(j)
  PROVE  DeliverySafe(j)'
<1>1. j.at \in Cursors /\ j.page \in Seq(Tickets \X Nat) /\ Within(j.at)
  BY DEF Deliveries, DeliverySafe
<1>2. \A i \in 1 .. Len(j.page) : j.page[i] \in Tickets \X Nat
  BY <1>1
<1>3. /\ Within(j.at)'
      /\ \A t \in Tickets : Safe(t, j.at) => Safe(t, j.at)'
      /\ \A i \in 1 .. Len(j.page) : Fresh(j.page[i], j.at) => Fresh(j.page[i], j.at)'
  BY <1>1, <1>2, CursorKept
<1>4. ASSUME NEW t \in Tickets, Reached(t, j) PROVE Reached(t, j)'
  BY <1>1, <1>4, CursorKept DEF Reached
<1> QED BY <1>3, <1>4 DEF DeliverySafe, Idle

\* The saved cursor is judged as the next claim opens it.
LEMMA SavedKept ==
  ASSUME DiscoveryTypeOK, DiscoveryTypeOK', Past, Later, longPass => longPass',
         NEW c \in Cursors, SavedSafe(c)
  PROVE  SavedSafe(c)'
<1>1. Within(c) /\ Within(c)'
  BY CursorKept DEF SavedSafe
<1>2. Opened(c) \in Cursors /\ Within(Opened(c))
  BY <1>1, OpenedIsEarlier
<1>3. \A t \in Tickets : Safe(t, Opened(c)) => Safe(t, Opened(c))'
  BY <1>2, CursorKept
<1> QED BY <1>1, <1>3 DEF SavedSafe

-----------------------------------------------------------------------------
(* Steps of discovery *)

\* A worker without a delivery has nothing to miss.
LEMMA IdleSafe ==
  ASSUME DiscoveryTypeOK
  PROVE  Idle \in Deliveries /\ DeliverySafe(Idle)
<1>1. /\ Idle.command = Nothing /\ Idle.pc = "fetch" /\ Idle.page = <<>>
      /\ Idle.at = Start /\ Start.from = 0 /\ Start.offset = 0
      /\ Start.began = 0
  BY DEF Idle, Start
<1>2. Start \in Cursors
  <2>1. Cardinality(Tickets) \in Nat
    BY FS_CardinalityType, DiscoveryAssumption
  <2> QED BY <2>1, DiscoveryAssumption DEF Start, Cursors, Days
<1>3. Idle \in Deliveries
  BY <1>2 DEF Idle, Deliveries, Pcs
<1>4. today \in Nat /\ changed \in [Tickets -> 0 .. MaxDay]
  BY DEF DiscoveryTypeOK, Days
<1>5. Cardinality(Listed(0)) \in Nat /\ \A t \in Listed(0) : Before(t, 0) \in Nat
  BY Offsets
<1>6. \A t \in Tickets : t \in Listed(0) /\ changed[t] >= 0
  BY <1>4 DEF Listed
<1>7. Within(Start)
  BY <1>1, <1>4, <1>5 DEF Within
<1>8. \A t \in Tickets : Safe(t, Start)
  BY <1>1, <1>5, <1>6 DEF Safe, AheadOf
<1> QED BY <1>1, <1>3, <1>7, <1>8 DEF DeliverySafe

\* What a step has to show: that what it writes is safe.
LEMMA Follows ==
  ASSUME DiscoveryInv, DiscoveryTypeOK', Later, longPass => longPass',
         \A q \in requests' : q \in requests \/ q[3] <= covered'[q[2]],
         \A c \in Cursors : c = cursor' => c = cursor \/ SavedSafe(c)',
         \A w \in Workers, j \in Deliveries :
           j = worker'[w] => j = worker[w] \/ DeliverySafe(j) \/ DeliverySafe(j)'
  PROVE  DiscoveryInv'
<1>1. DiscoveryTypeOK /\ Past
  BY DEF DiscoveryInv
<1>2. \A c \in Cursors : c = cursor' => SavedSafe(c)'
  BY <1>1, SavedKept DEF DiscoveryInv
<1>3. \A w \in Workers, j \in Deliveries : j = worker'[w] => DeliverySafe(j)'
  BY <1>1, DeliveryKept DEF DiscoveryInv
<1>4. /\ today \in Nat /\ today' \in Nat /\ today <= today'
      /\ changed \in [Tickets -> Nat] /\ covered \in [Tickets -> Nat]
      /\ version \in [Tickets -> Nat] /\ requests \subseteq Commands \X Tickets \X Nat
      /\ \A t \in Tickets : changed[t] <= today /\ covered[t] <= version[t]
      /\ \A q \in requests : q[3] <= covered[q[2]]
  <2>1. /\ today \in 0 .. MaxDay /\ today' \in 0 .. MaxDay
        /\ changed \in [Tickets -> 0 .. MaxDay] /\ covered \in [Tickets -> Nat]
        /\ version \in [Tickets -> Nat] /\ requests \subseteq Commands \X Tickets \X Nat
    BY <1>1 DEF DiscoveryTypeOK, Days
  <2>2. 0 .. MaxDay \in SUBSET Nat
    OBVIOUS
  <2> QED BY <1>1, <2>1, <2>2 DEF Past, Later
<1>5. \A t \in Tickets : changed'[t] <= today' /\ covered'[t] <= version'[t]
  BY <1>4 DEF Later, Change
<1>6. \A t \in Tickets : covered'[t] >= covered[t]
  BY <1>4 DEF Later
<1>7. covered' \in [Tickets -> Nat]
  BY DEF DiscoveryTypeOK
<1>8. ASSUME NEW q \in requests' PROVE q[3] <= covered'[q[2]]
  <2>1. CASE q \in requests
    <3>1. q[2] \in Tickets /\ q[3] \in Nat
      BY <1>4, <2>1
    <3> QED BY <1>4, <1>6, <1>7, <2>1, <3>1
  <2> QED BY <2>1
<1> QED BY <1>2, <1>3, <1>5, <1>8 DEF DiscoveryInv, Past

\* The delivery of one worker changes.
LEMMA OneDelivery ==
  ASSUME DiscoveryTypeOK, NEW w \in Workers, NEW n \in Deliveries,
         worker' = [worker EXCEPT ![w] = n]
  PROVE  /\ worker \in [Workers -> Deliveries] /\ worker' \in [Workers -> Deliveries]
         /\ worker'[w] = n /\ \A v \in Workers \ {w} : worker'[v] = worker[v]
         /\ Len(n.page) <= PageSize => \A v \in Workers : Len(worker'[v].page) <= PageSize
<1>1. /\ worker \in [Workers -> Deliveries]
      /\ \A v \in Workers : Len(worker[v].page) <= PageSize
  BY DEF DiscoveryTypeOK, Deliveries
<1>2. worker' \in [Workers -> Deliveries] /\ worker'[w] = n
      /\ \A v \in Workers \ {w} : worker'[v] = worker[v]
  BY <1>1
<1> QED BY <1>1, <1>2

\* The cursor row, the commands and the faults keep their types.
LEMMA RowTypes ==
  ASSUME DiscoveryTypeOK, [DiscoveryNext]_discoveryVars
  PROVE  /\ row' \in [state : RowStates, fence : Workers \union {Nothing}, leased : BOOLEAN]
         /\ stage' \in [Commands -> {"created", "active", "acknowledged"}]
         /\ troubles' \in 0 .. MaxTroubles
<1> DEFINE Rows == [state : RowStates, fence : Workers \union {Nothing}, leased : BOOLEAN]
           Stages == [Commands -> {"created", "active", "acknowledged"}]
<1>1. row \in Rows /\ stage \in Stages /\ troubles \in 0 .. MaxTroubles
  BY DEF DiscoveryTypeOK
<1>2. /\ [row EXCEPT !.leased = FALSE] \in Rows
      /\ [row EXCEPT !.state = "idle", !.leased = FALSE] \in Rows
      /\ [row EXCEPT !.state = "failed", !.leased = FALSE] \in Rows
      /\ \A w \in Workers : [state |-> "running", fence |-> w, leased |-> TRUE] \in Rows
  BY <1>1 DEF RowStates
<1>3. \A c : /\ [stage EXCEPT ![c] = "created"] \in Stages
             /\ [stage EXCEPT ![c] = "active"] \in Stages
             /\ [stage EXCEPT ![c] = "acknowledged"] \in Stages
  BY <1>1
<1>4. Trouble => troubles' \in 0 .. MaxTroubles
  BY <1>1, DiscoveryAssumption DEF Trouble
<1> HIDE DEF Rows, Stages
<1>5. ASSUME UNCHANGED discoveryVars
      PROVE  row' \in Rows /\ stage' \in Stages /\ troubles' \in 0 .. MaxTroubles
  BY <1>1, <1>5 DEF discoveryVars
<1>6. ASSUME NewDay \/ CursorLeaseLapses
      PROVE  row' \in Rows /\ stage' \in Stages /\ troubles' \in 0 .. MaxTroubles
  BY <1>1, <1>2, <1>4, <1>6 DEF NewDay, CursorLeaseLapses
<1>7. ASSUME NEW t \in Tickets, Change(t)
      PROVE  row' \in Rows /\ stage' \in Stages /\ troubles' \in 0 .. MaxTroubles
  BY <1>1, <1>7 DEF Change
<1>8. ASSUME NEW c \in Commands, Enqueue(c)
      PROVE  row' \in Rows /\ stage' \in Stages /\ troubles' \in 0 .. MaxTroubles
  BY <1>1, <1>3, <1>8 DEF Enqueue
<1>9. ASSUME NEW w \in Workers, Deliver(w) \/ Work(w) \/ Throws(w) \/ WorkerDies(w)
      PROVE  row' \in Rows /\ stage' \in Stages /\ troubles' \in 0 .. MaxTroubles
  <2>1. ASSUME NEW c \in Commands,
               Claim(w, c) \/ ClaimAlreadyRunning(w, c) \/ ClaimThrows(w, c)
        PROVE  row' \in Rows /\ stage' \in Stages /\ troubles' \in 0 .. MaxTroubles
    <3>1. CASE Claim(w, c)
      BY <1>1, <1>2, <1>3, <3>1 DEF Claim
    <3>2. CASE ClaimAlreadyRunning(w, c) \/ ClaimThrows(w, c)
      BY <1>1, <1>3, <3>2 DEF ClaimAlreadyRunning, ClaimThrows, Acknowledge
    <3> QED BY <2>1, <3>1, <3>2
  <2>2. ASSUME Fetch(w) \/ CreateRequest(w) \/ AdvanceCursor(w)
        PROVE  row' \in Rows /\ stage' \in Stages /\ troubles' \in 0 .. MaxTroubles
    BY <1>1, <2>2 DEF Fetch, CreateRequest, AdvanceCursor
  <2>3. ASSUME Complete(w)
        PROVE  row' \in Rows /\ stage' \in Stages /\ troubles' \in 0 .. MaxTroubles
    BY <1>1, <1>2, <1>3, <2>3 DEF Complete, Acknowledge
  <2>4. ASSUME RowFailed(w) PROVE row' \in Rows
    BY <1>1, <1>2, <2>4 DEF RowFailed
  <2>5. ASSUME Reject(w) PROVE stage' \in Stages
    BY <1>3, <2>5 DEF Reject
  <2>6. ASSUME ClaimLost(w) \/ Throws(w)
        PROVE  row' \in Rows /\ stage' \in Stages /\ troubles' \in 0 .. MaxTroubles
    BY <1>1, <1>4, <2>4, <2>5, <2>6 DEF ClaimLost, Throws
  <2>7. ASSUME WorkerDies(w)
        PROVE  row' \in Rows /\ stage' \in Stages /\ troubles' \in 0 .. MaxTroubles
    BY <1>1, <1>2, <1>4, <2>5, <2>7 DEF WorkerDies
  <2> QED BY <1>9, <2>1, <2>2, <2>3, <2>6, <2>7 DEF Deliver, Work
<1> QED BY <1>5, <1>6, <1>7, <1>8, <1>9 DEF DiscoveryNext, Rows, Stages

\* A step of one worker.
LEMMA WorkerStep ==
  ASSUME DiscoveryInv, [DiscoveryNext]_discoveryVars, UNCHANGED jitbit,
         NEW w \in Workers, NEW n \in Deliveries, worker' = [worker EXCEPT ![w] = n],
         Len(n.page) <= PageSize, DeliverySafe(n) \/ DeliverySafe(n)',
         cursor' \in Cursors,
         \A c \in Cursors : c = cursor' => c = cursor \/ SavedSafe(c)',
         requests' \subseteq Commands \X Tickets \X Nat,
         \A q \in requests' : q \in requests \/ q[3] <= covered'[q[2]],
         covered' \in [Tickets -> Nat],
         \A t \in Tickets : covered'[t] = covered[t] \/ covered'[t] = version[t],
         longPass' \in BOOLEAN, longPass => longPass'
  PROVE  DiscoveryInv'
<1>1. DiscoveryTypeOK
  BY DEF DiscoveryInv
<1>2. today' = today /\ place' = place /\ changed' = changed /\ version' = version
  BY DEF jitbit
<1>3. /\ worker' \in [Workers -> Deliveries]
      /\ \A v \in Workers : Len(worker'[v].page) <= PageSize
      /\ worker'[w] = n /\ \A v \in Workers \ {w} : worker'[v] = worker[v]
  BY <1>1, OneDelivery
<1>4. DiscoveryTypeOK'
  <2>1. /\ row' \in [state : RowStates, fence : Workers \union {Nothing}, leased : BOOLEAN]
        /\ stage' \in [Commands -> {"created", "active", "acknowledged"}]
        /\ troubles' \in 0 .. MaxTroubles
    BY <1>1, RowTypes
  <2>2. /\ today' \in Days /\ place' \in Places
        /\ changed' \in [Tickets -> Days] /\ version' \in [Tickets -> Nat]
    BY <1>1, <1>2 DEF DiscoveryTypeOK
  <2> QED BY <1>3, <2>1, <2>2 DEF DiscoveryTypeOK, Deliveries
<1>5. Later
  <2>1. today <= today'
    BY <1>1, <1>2 DEF DiscoveryTypeOK, Days
  <2> QED BY <1>2, <2>1 DEF Later
<1>6. \A v \in Workers, j \in Deliveries :
        j = worker'[v] => j = worker[v] \/ DeliverySafe(j) \/ DeliverySafe(j)'
  BY <1>3
<1> QED BY <1>4, <1>5, <1>6, Follows

\* A worker that puts its delivery down, or an occurrence that nobody takes up.
LEMMA PutDown ==
  ASSUME DiscoveryInv, [DiscoveryNext]_discoveryVars,
         UNCHANGED <<jitbit, cursor, covered, longPass>>, requests' \subseteq requests,
         NEW w \in Workers, worker' = worker \/ worker' = [worker EXCEPT ![w] = Idle]
  PROVE  DiscoveryInv'
<1>1. DiscoveryTypeOK /\ cursor' = cursor /\ covered' = covered /\ longPass' = longPass
  BY DEF DiscoveryInv
<1>2. PICK n \in Deliveries :
        /\ worker' = [worker EXCEPT ![w] = n] /\ Len(n.page) <= PageSize /\ DeliverySafe(n)
  <2>1. CASE worker' = [worker EXCEPT ![w] = Idle]
    <3>1. Idle \in Deliveries /\ DeliverySafe(Idle) /\ Len(Idle.page) = 0
      BY <1>1, IdleSafe DEF Idle
    <3>2. Len(Idle.page) <= PageSize
      BY <3>1, DiscoveryAssumption
    <3> QED BY <2>1, <3>1, <3>2
  <2>2. CASE worker' = worker
    <3>1. worker \in [Workers -> Deliveries] /\ Len(worker[w].page) <= PageSize
      BY <1>1 DEF DiscoveryTypeOK, Deliveries
    <3> QED BY <2>2, <3>1 DEF DiscoveryInv
  <2> QED BY <2>1, <2>2
<1>3. /\ cursor' \in Cursors /\ covered' \in [Tickets -> Nat] /\ longPass' \in BOOLEAN
      /\ requests' \subseteq Commands \X Tickets \X Nat
  BY <1>1 DEF DiscoveryTypeOK
<1>4. /\ UNCHANGED jitbit /\ (longPass => longPass')
      /\ \A q \in requests' : q \in requests \/ q[3] <= covered'[q[2]]
      /\ \A c \in Cursors : c = cursor' => c = cursor \/ SavedSafe(c)'
      /\ \A t \in Tickets : covered'[t] = covered[t] \/ covered'[t] = version[t]
  BY <1>1
<1> QED BY <1>2, <1>3, <1>4, WorkerStep

\* A page has the tickets at its offsets as they are; what comes behind them is left
\* to the next page, unless the page is short.
LEMMA FetchSafe ==
  ASSUME DiscoveryInv, NEW w \in Workers, Fetch(w)
  PROVE  DiscoveryInv'
<1>1. DiscoveryTypeOK /\ worker \in [Workers -> Deliveries]
  BY DEF DiscoveryInv, DiscoveryTypeOK, Deliveries
<1>2. PICK j \in Deliveries : j = worker[w]
  BY <1>1
<1>3. /\ DeliverySafe(j) /\ j # Idle /\ j.pc = "fetch"
  BY <1>2 DEF DiscoveryInv, Fetch
<1>4. /\ j.at.from \in 0 .. MaxDay /\ j.at.began \in 0 .. MaxDay
      /\ j.at.offset \in 0 .. Cardinality(Tickets)
      /\ today \in 0 .. MaxDay /\ version \in [Tickets -> Nat]
      /\ changed \in [Tickets -> 0 .. MaxDay] /\ PageSize \in Nat /\ PageSize > 0
      /\ j.command \in Commands /\ j.at \in Cursors
      /\ Cardinality(Tickets) \in Nat /\ MaxDay \in Nat
  <2>1. j.at \in Cursors /\ j.command \in Commands
    BY <1>3 DEF Deliveries, DeliverySafe
  <2>2. /\ j.at.from \in 0 .. MaxDay /\ j.at.began \in 0 .. MaxDay
        /\ j.at.offset \in 0 .. Cardinality(Tickets)
    BY <2>1 DEF Cursors, Days
  <2>3. /\ today \in 0 .. MaxDay /\ version \in [Tickets -> Nat]
        /\ changed \in [Tickets -> 0 .. MaxDay]
    BY <1>1 DEF DiscoveryTypeOK, Days
  <2>4. /\ PageSize \in Nat /\ PageSize > 0 /\ MaxDay \in Nat
        /\ Cardinality(Tickets) \in Nat
    BY FS_CardinalityType, DiscoveryAssumption
  <2> QED BY <2>1, <2>2, <2>3, <2>4
<1> DEFINE L == Listed(j.at.from)
           total == Cardinality(L)
           left == total - j.at.offset
           size == IF left < PageSize THEN left ELSE PageSize
           there(i) == At(j.at.from, j.at.offset + i - 1)
           began == IF j.at.offset = 0 THEN today ELSE j.at.began
           short == size < PageSize
           page == [i \in 1 .. size |-> <<there(i), version[there(i)]>>]
           at == [from |-> IF short THEN today ELSE j.at.from,
                  offset |-> IF short THEN 0 ELSE j.at.offset + PageSize,
                  began |-> began]
           pc == IF size = 0 THEN "advance" ELSE "request"
           given == [command |-> j.command, pc |-> pc, at |-> at, page |-> page]
<1>5. worker' = [worker EXCEPT ![w] = given]
  <2> DEFINE listed == [i \in 1 .. size |-> there(i)]
             items == [i \in 1 .. size |-> <<listed[i], version[listed[i]]>>]
  <2>1. worker' = [worker EXCEPT ![w].page = items, ![w].at = at, ![w].pc = pc]
    BY <1>2 DEF Fetch, NextWatermark
  <2>2. items = page
    OBVIOUS
  <2>3. worker' = [worker EXCEPT ![w].page = page, ![w].at = at, ![w].pc = pc]
    BY <2>1, <2>2
  <2> HIDE DEF L, total, left, size, there, began, short, page, at, pc, listed, items
  <2>4. PICK p, a, c : p = page /\ a = at /\ c = pc
    OBVIOUS
  <2>5. worker' = [worker EXCEPT ![w].page = p, ![w].at = a, ![w].pc = c]
    BY <2>3, <2>4
  <2>6. worker' = [worker EXCEPT ![w] =
                    [command |-> worker[w].command, pc |-> c, at |-> a, page |-> p]]
    <3>1. worker[w] = [command |-> worker[w].command, pc |-> worker[w].pc,
                       at |-> worker[w].at, page |-> worker[w].page]
      BY <1>1 DEF Deliveries
    <3>2. ASSUME NEW k, NEW d, NEW e, NEW g, NEW h,
                 k = [command |-> d, pc |-> e, at |-> g, page |-> h]
          PROVE  [k EXCEPT !.page = p, !.at = a, !.pc = c]
                   = [command |-> d, pc |-> c, at |-> a, page |-> p]
      <4>1. [k EXCEPT !.page = p] = [command |-> d, pc |-> e, at |-> g, page |-> p]
        BY <3>2
      <4>2. [[command |-> d, pc |-> e, at |-> g, page |-> p] EXCEPT !.at = a]
              = [command |-> d, pc |-> e, at |-> a, page |-> p]
        OBVIOUS
      <4>3. [[command |-> d, pc |-> e, at |-> a, page |-> p] EXCEPT !.pc = c]
              = [command |-> d, pc |-> c, at |-> a, page |-> p]
        OBVIOUS
      <4> QED BY <4>1, <4>2, <4>3
    <3>3. [worker[w] EXCEPT !.page = p, !.at = a, !.pc = c]
            = [command |-> worker[w].command, pc |-> c, at |-> a, page |-> p]
      BY <3>1, <3>2
    <3> QED BY <2>5, <3>3
  <2> QED BY <1>2, <2>4, <2>6
<1>6. /\ total \in Nat /\ total <= Cardinality(Tickets) /\ j.at.offset <= total
      /\ j.at.from <= today /\ j.at.began <= today
  <2> HIDE DEF L, left, size, began, short, page, at, pc, given
  <2>1. Within(j.at)
    BY <1>3 DEF DeliverySafe
  <2>2. j.at.from \in Nat
    BY <1>4
  <2>3. /\ Cardinality(Listed(j.at.from)) \in Nat
        /\ Cardinality(Listed(j.at.from)) <= Cardinality(Tickets)
    BY <1>1, <2>2, Offsets
  <2> QED BY <2>1, <2>3 DEF Within, total, L
<1> HIDE DEF total
<1>7. size \in 0 .. PageSize /\ size <= left /\ left \in Nat
      /\ (~short => size = PageSize) /\ (short => size = left)
  BY <1>4, <1>6
<1> HIDE DEF size
<1>8. \A i \in 1 .. size : j.at.offset + i - 1 \in 0 .. total - 1
  BY <1>4, <1>6, <1>7
<1>9. \A i \in 1 .. size : there(i) \in Tickets
  <2>1. \A n \in 0 .. total - 1 : At(j.at.from, n) \in L
    BY <1>1, <1>4, Offsets DEF total
  <2>2. L \in SUBSET Tickets
    BY DEF Listed
  <2> HIDE DEF L
  <2> QED BY <1>8, <2>1, <2>2
<1>10. /\ began \in 0 .. MaxDay /\ began <= today
       /\ j.at.offset > 0 => began = j.at.began
  <2>1. CASE j.at.offset = 0
    BY <1>4, <2>1
  <2>2. CASE j.at.offset # 0
    BY <1>4, <1>6, <2>2
  <2> QED BY <2>1, <2>2
<1> HIDE DEF began
<1>11. /\ short => at = [from |-> today, offset |-> 0, began |-> began]
       /\ ~short => at = [from |-> j.at.from, offset |-> j.at.offset + PageSize,
                          began |-> began]
  OBVIOUS
<1>12. at \in Cursors /\ Within(at)
  <2>1. CASE short
    <3>1. at = [from |-> today, offset |-> 0, began |-> began]
      BY <1>11, <2>1
    <3>2. Cardinality(Tickets) \in Nat /\ Cardinality(Listed(today)) \in Nat
      <4> HIDE DEF at, short, page, pc, given, left
      <4>1. today \in Nat
        BY <1>4
      <4>2. Cardinality(Listed(today)) \in Nat
        BY <1>1, <4>1, Offsets
      <4> QED BY <1>4, <4>2
    <3> HIDE DEF at, short
    <3>3. at \in Cursors
      BY <1>4, <1>10, <3>1, <3>2 DEF Cursors, Days
    <3>4. Within(at)
      BY <1>4, <1>10, <3>1, <3>2 DEF Within
    <3> QED BY <3>3, <3>4
  <2>2. CASE ~short
    <3>1. at = [from |-> j.at.from, offset |-> j.at.offset + PageSize, began |-> began]
      BY <1>11, <2>2
    <3>2. j.at.offset + PageSize <= total
      BY <1>4, <1>6, <1>7, <2>2
    <3> HIDE DEF at, short, left
    <3>3. at.from = j.at.from /\ at.began = began /\ at.offset = j.at.offset + PageSize
      BY <3>1
    <3>4. j.at.offset + PageSize \in 0 .. Cardinality(Tickets)
      BY <1>4, <1>6, <3>2
    <3>5. at \in Cursors
      BY <1>4, <1>10, <3>1, <3>4 DEF Cursors, Days
    <3>6. Within(at)
      BY <1>6, <1>10, <3>2, <3>3 DEF Within, total
    <3> QED BY <3>5, <3>6
  <2> QED BY <2>1, <2>2
<1>13. /\ page \in Seq(Tickets \X Nat) /\ Len(page) = size
       /\ \A i \in 1 .. size : page[i] = <<there(i), version[there(i)]>>
  <2> DEFINE item(i) == <<there(i), version[there(i)]>>
  <2>1. \A i \in 1 .. size : item(i) \in Tickets \X Nat
    BY <1>4, <1>9
  <2>2. page = [i \in 1 .. size |-> item(i)] /\ size \in Nat
    BY <1>7
  <2> HIDE DEF item
  <2> HIDE DEF page
  <2>3. page \in [1 .. size -> Tickets \X Nat] /\ Len(page) = size
    BY <2>1, <2>2
  <2> QED BY <2>1, <2>2, <2>3 DEF item
<1> HIDE DEF page, at
<1>14. given \in Deliveries
  BY <1>2, <1>12, <1>13 DEF Deliveries, Pcs
<1>15. ASSUME NEW t \in Tickets, ~longPass PROVE Reached(t, given)
  <2>1. Safe(t, j.at)
    BY <1>3, <1>15 DEF DeliverySafe
  <2>2. CASE covered[t] = version[t]
    BY <2>2 DEF Reached
  <2>3. CASE j.at.offset > 0 /\ changed[t] >= j.at.began
    <3>1. at.began = j.at.began
      BY <1>10, <1>11, <2>3
    <3> QED BY <2>3, <3>1 DEF Reached
  <2>4. CASE AheadOf(t, j.at)
    <3> DEFINE n == Before(t, j.at.from)
    <3>1. t \in L /\ n >= j.at.offset
      BY <2>4 DEF AheadOf, Listed
    <3>2. n \in 0 .. total - 1 /\ At(j.at.from, n) = t
      BY <1>1, <1>4, <3>1, Offsets DEF total
    <3> HIDE DEF n
    <3>3. CASE n < j.at.offset + size
      <4>1. n - j.at.offset + 1 \in 1 .. size
        BY <1>4, <1>6, <1>7, <3>1, <3>2, <3>3
      <4>2. j.at.offset + (n - j.at.offset + 1) - 1 = n
        BY <1>4, <1>6, <3>2
      <4>3. page[n - j.at.offset + 1][1] = t
        BY <1>13, <3>2, <4>1, <4>2
      <4> QED BY <1>13, <4>1, <4>3 DEF Reached
    <3>4. CASE ~(n < j.at.offset + size)
      <4>1. ~short
        BY <1>4, <1>6, <1>7, <3>2, <3>4
      <4>2. at.from = j.at.from /\ at.offset = j.at.offset + PageSize
        BY <1>11, <4>1
      <4>3. at.offset > 0 /\ n >= at.offset
        BY <1>4, <1>6, <1>7, <3>2, <3>4, <4>1, <4>2
      <4>4. AheadOf(t, at)
        BY <2>4, <4>2, <4>3 DEF AheadOf, n
      <4> QED BY <4>3, <4>4 DEF Reached
    <3> QED BY <3>3, <3>4
  <2> QED BY <2>1, <2>2, <2>3, <2>4 DEF Safe
<1>16. DeliverySafe(given)
  <2>1. ASSUME NEW i \in 1 .. Len(page) PROVE Fresh(page[i], at)
    <3> HIDE DEF there, left, short, total
    <3>1. there(i) \in Tickets /\ page[i] = <<there(i), version[there(i)]>>
      BY <1>9, <1>13, <2>1
    <3>2. version[there(i)] \in Nat
      BY <1>4, <3>1
    <3> QED BY <3>1, <3>2 DEF Fresh
  <2>2. given.pc = "request" <=> given.page # <<>>
    <3>1. size = 0 <=> page = <<>>
      BY <1>13
    <3> QED BY <3>1
  <2>3. given # Idle
    BY <1>4, DiscoveryAssumption DEF Idle
  <2> QED BY <1>4, <1>12, <1>15, <2>1, <2>2 DEF DeliverySafe
<1> HIDE DEF given
<1>17. PICK n \in Deliveries :
         /\ n = given /\ DeliverySafe(n) /\ Len(n.page) <= PageSize
         /\ worker' = [worker EXCEPT ![w] = n]
  <2>1. given.page = page /\ Len(page) <= PageSize
    BY <1>4, <1>7, <1>13 DEF given
  <2> QED BY <1>5, <1>14, <1>16, <2>1
<1>18. /\ [DiscoveryNext]_discoveryVars /\ UNCHANGED jitbit
       /\ cursor' = cursor /\ requests' = requests /\ covered' = covered
       /\ longPass' = longPass
  BY DEF Fetch, DiscoveryNext, Work, jitbit
<1>19. /\ cursor' \in Cursors /\ covered' \in [Tickets -> Nat] /\ longPass' \in BOOLEAN
       /\ requests' \subseteq Commands \X Tickets \X Nat
  BY <1>1, <1>18 DEF DiscoveryTypeOK
<1>20. /\ longPass => longPass'
       /\ \A q \in requests' : q \in requests \/ q[3] <= covered'[q[2]]
       /\ \A c \in Cursors : c = cursor' => c = cursor \/ SavedSafe(c)'
       /\ \A t \in Tickets : covered'[t] = covered[t] \/ covered'[t] = version[t]
  BY <1>18
<1> QED BY <1>17, <1>18, <1>19, <1>20, WorkerStep

\* The ticket of a request is captured as it is, unless its key is known: then the
\* fingerprint in the key has been captured, and only a change in this pass is missing.
LEMMA RequestSafe ==
  ASSUME DiscoveryInv, NEW w \in Workers, CreateRequest(w)
  PROVE  DiscoveryInv'
<1>1. DiscoveryTypeOK /\ Past /\ worker \in [Workers -> Deliveries]
  BY DEF DiscoveryInv, DiscoveryTypeOK, Deliveries
<1>2. PICK j \in Deliveries : j = worker[w]
  BY <1>1
<1>3. /\ DeliverySafe(j) /\ j # Idle /\ j.pc = "request" /\ j.page # <<>>
      /\ j.command \in Commands /\ j.at \in Cursors /\ j.page \in Seq(Tickets \X Nat)
      /\ Len(j.page) <= PageSize
  BY <1>1, <1>2 DEF DiscoveryInv, CreateRequest, DeliverySafe, Deliveries, DiscoveryTypeOK
<1>4. PICK item \in Tickets \X Nat : item = Head(j.page) /\ item = j.page[1]
  BY <1>3
<1>5. PICK rest \in Seq(Tickets \X Nat) :
        /\ rest = Tail(j.page) /\ Len(rest) = Len(j.page) - 1
        /\ \A i \in 1 .. Len(rest) : rest[i] = j.page[i + 1]
  <2>1. PICK q \in Seq(Tickets \X Nat) : q = j.page /\ q # <<>>
    BY <1>3
  <2>2. Tail(q) \in Seq(Tickets \X Nat) /\ Len(Tail(q)) = Len(q) - 1
    BY <2>1, HeadTailProperties
  <2>3. \A i \in 1 .. Len(Tail(q)) : Tail(q)[i] = q[i + 1]
    BY <2>1, <2>2
  <2> QED BY <2>1, <2>2, <2>3
<1> DEFINE pc == IF rest = <<>> THEN "advance" ELSE "request"
           key == <<j.command, item[1], item[2]>>
<1>6. PICK n \in Deliveries :
        n = [command |-> j.command, pc |-> pc, at |-> j.at, page |-> rest]
  BY <1>3 DEF Deliveries, Pcs
<1>7. worker' = [worker EXCEPT ![w] = n]
  <2>1. worker' = [worker EXCEPT ![w].page = rest, ![w].pc = pc]
    BY <1>1, <1>2, <1>5 DEF CreateRequest
  <2>2. j = [command |-> j.command, pc |-> j.pc, at |-> j.at, page |-> j.page]
    BY DEF Deliveries
  <2> HIDE DEF pc
  <2>3. [j EXCEPT !.page = rest]
          = [command |-> j.command, pc |-> j.pc, at |-> j.at, page |-> rest]
    BY <2>2
  <2>4. [[command |-> j.command, pc |-> j.pc, at |-> j.at, page |-> rest] EXCEPT !.pc = pc]
          = [command |-> j.command, pc |-> pc, at |-> j.at, page |-> rest]
    OBVIOUS
  <2>5. [worker[w] EXCEPT !.page = rest, !.pc = pc] = n
    BY <1>2, <1>6, <2>3, <2>4
  <2> QED BY <2>1, <2>5
<1>8. /\ requests' = requests \union {key}
      /\ covered' = IF key \in requests THEN covered
                    ELSE [covered EXCEPT ![item[1]] = version[item[1]]]
      /\ today' = today /\ place' = place /\ changed' = changed /\ version' = version
      /\ cursor' = cursor /\ longPass' = longPass
  BY <1>2, <1>4 DEF CreateRequest, jitbit
<1>9. /\ covered \in [Tickets -> Nat] /\ version \in [Tickets -> Nat]
      /\ requests \subseteq Commands \X Tickets \X Nat
      /\ changed \in [Tickets -> 0 .. MaxDay] /\ j.at.began \in 0 .. MaxDay
      /\ \A t \in Tickets : covered[t] <= version[t]
      /\ \A q \in requests : q[3] <= covered[q[2]]
  BY <1>1, <1>3 DEF DiscoveryTypeOK, Days, Cursors, Past
<1>10. item[1] \in Tickets /\ item[2] \in Nat /\ Fresh(item, j.at)
  <2>1. 1 \in 1 .. Len(j.page)
    BY <1>3
  <2> QED BY <1>3, <1>4, <2>1 DEF DeliverySafe
<1>11. covered' \in [Tickets -> Nat]
       /\ \A t \in Tickets : covered'[t] = covered[t] \/ covered'[t] = version[t]
  BY <1>8, <1>9, <1>10
<1>12. covered'[item[1]] = version[item[1]] \/ changed[item[1]] >= j.at.began
  <2>1. CASE key \in requests
    <3>1. item[2] <= covered[item[1]]
      BY <1>9, <1>10, <2>1
    <3> QED BY <1>8, <1>9, <1>10, <2>1, <3>1 DEF Fresh
  <2>2. CASE key \notin requests
    BY <1>8, <1>9, <1>10, <2>2
  <2> QED BY <2>1, <2>2
<1>13. item[2] <= covered'[item[1]]
  <2>1. CASE key \in requests
    BY <1>8, <1>9, <1>10, <2>1
  <2>2. CASE key \notin requests
    <3>1. covered'[item[1]] = version[item[1]]
      BY <1>8, <1>9, <1>10, <2>2
    <3> QED BY <1>10, <3>1 DEF Fresh
  <2> QED BY <2>1, <2>2
<1>14. ASSUME NEW t \in Tickets, ~longPass PROVE Reached(t, n)'
  <2>1. Reached(t, j)
    BY <1>3, <1>14 DEF DeliverySafe
  <2>2. n.at = j.at /\ n.page = rest
    BY <1>6
  <2>3. CASE t = item[1]
    BY <1>8, <1>12, <2>2, <2>3 DEF Reached
  <2>4. CASE covered[t] = version[t]
    BY <1>8, <1>11, <2>4 DEF Reached
  <2>5. CASE changed[t] >= j.at.began
    BY <1>8, <2>2, <2>5 DEF Reached
  <2>6. ASSUME NEW i \in 1 .. Len(j.page), j.page[i][1] = t, t # item[1]
        PROVE  Reached(t, n)'
    <3>1. i # 1
      BY <1>4, <2>6
    <3>2. i - 1 \in 1 .. Len(rest) /\ rest[i - 1] = j.page[i]
      BY <1>3, <1>5, <3>1
    <3> QED BY <2>2, <2>6, <3>2 DEF Reached
  <2>7. CASE j.at.offset > 0 /\ AheadOf(t, j.at)
    <3>1. AheadOf(t, j.at)'
      BY <1>8, <2>7 DEF AheadOf, Before, Listed
    <3> QED BY <2>2, <2>7, <3>1 DEF Reached
  <2> QED BY <2>1, <2>3, <2>4, <2>5, <2>6, <2>7 DEF Reached
<1>15. DeliverySafe(n)'
  <2>1. n.at = j.at /\ n.page = rest /\ n.command = j.command /\ n.pc = pc
    BY <1>6
  <2>2. Within(n.at)'
    BY <1>3, <1>8, <2>1 DEF DeliverySafe, Within, Listed
  <2>3. ASSUME NEW i \in 1 .. Len(n.page) PROVE Fresh(n.page[i], n.at)'
    <3>1. i \in 1 .. Len(rest) /\ n.page[i] = rest[i] /\ Len(j.page) \in Nat
      BY <1>3, <2>1
    <3>2. n.page[i] = j.page[i + 1]
      BY <1>5, <3>1
    <3>3. i + 1 \in 1 .. Len(j.page)
      <4> HIDE DEF pc, key
      <4>1. Len(rest) = Len(j.page) - 1
        BY <1>5
      <4> QED BY <3>1, <4>1
    <3>4. Fresh(n.page[i], n.at)
      BY <1>3, <2>1, <3>2, <3>3 DEF DeliverySafe
    <3> QED BY <1>8, <3>4 DEF Fresh
  <2>4. n.pc = "request" <=> n.page # <<>>
    BY <2>1
  <2>5. n.pc # "fetch"
    BY <2>1
  <2> QED BY <1>3, <1>8, <1>14, <2>1, <2>2, <2>3, <2>4, <2>5 DEF DeliverySafe
<1>16. /\ [DiscoveryNext]_discoveryVars /\ UNCHANGED jitbit
  BY <1>8 DEF CreateRequest, DiscoveryNext, Work, jitbit
<1>17. /\ cursor' \in Cursors /\ longPass' \in BOOLEAN /\ Len(n.page) <= PageSize
       /\ requests' \subseteq Commands \X Tickets \X Nat
  <2>1. Len(rest) <= PageSize
    BY <1>3, <1>5, DiscoveryAssumption
  <2>2. cursor \in Cursors /\ longPass \in BOOLEAN /\ n.page = rest
    BY <1>1, <1>6 DEF DiscoveryTypeOK
  <2>3. requests \union {key} \subseteq Commands \X Tickets \X Nat
    <3>1. key \in Commands \X Tickets \X Nat
      BY <1>3, <1>10
    <3> HIDE DEF key
    <3> QED BY <1>9, <3>1
  <2> QED BY <1>8, <2>1, <2>2, <2>3
<1>18. /\ longPass => longPass'
       /\ \A q \in requests' : q \in requests \/ q[3] <= covered'[q[2]]
       /\ \A c \in Cursors : c = cursor' => c = cursor \/ SavedSafe(c)'
  BY <1>8, <1>13
<1> QED BY <1>7, <1>11, <1>15, <1>16, <1>17, <1>18, WorkerStep

\* The saved cursor is one from which the pass can go on or, after its last page, one
\* from which the next pass starts: the overlap takes it back to the day on which the
\* pass began.
LEMMA AdvanceSafe ==
  ASSUME DiscoveryInv, NEW w \in Workers, AdvanceCursor(w)
  PROVE  DiscoveryInv'
<1>1. DiscoveryTypeOK /\ worker \in [Workers -> Deliveries]
  BY DEF DiscoveryInv, DiscoveryTypeOK, Deliveries
<1>2. PICK j \in Deliveries : j = worker[w]
  BY <1>1
<1>3. /\ DeliverySafe(j) /\ j # Idle /\ j.pc = "advance" /\ j.page = <<>>
      /\ j.command \in Commands /\ j.at \in Cursors /\ Within(j.at)
  BY <1>2 DEF DiscoveryInv, AdvanceCursor, DeliverySafe, Deliveries
<1>4. PICK at \in Cursors : at = j.at
  BY <1>3
<1>5. /\ at.from \in 0 .. MaxDay /\ at.began \in 0 .. MaxDay
      /\ at.offset \in 0 .. Cardinality(Tickets) /\ Overlap \in Nat /\ PageSize \in Nat
      /\ at = [from |-> at.from, offset |-> at.offset, began |-> at.began]
      /\ at.from <= today /\ at.began <= today /\ at.offset <= Cardinality(Listed(at.from))
      /\ today \in 0 .. MaxDay /\ MaxDay \in Nat
      /\ changed \in [Tickets -> 0 .. MaxDay]
  <2>1. at.from <= today /\ at.began <= today /\ at.offset <= Cardinality(Listed(at.from))
    BY <1>3, <1>4 DEF Within
  <2>2. /\ at.from \in 0 .. MaxDay /\ at.began \in 0 .. MaxDay
        /\ at.offset \in 0 .. Cardinality(Tickets)
        /\ at = [from |-> at.from, offset |-> at.offset, began |-> at.began]
    BY DEF Cursors, Days
  <2> QED BY <1>1, <2>1, <2>2, DiscoveryAssumption DEF DiscoveryTypeOK, Days
<1> DEFINE pc == IF at.offset = 0 THEN "complete" ELSE "fetch"
<1>6. PICK n \in Deliveries :
        n = [command |-> j.command, pc |-> pc, at |-> at, page |-> <<>>]
  BY <1>3 DEF Deliveries, Pcs
<1>7. worker' = [worker EXCEPT ![w] = n]
  <2>1. worker' = [worker EXCEPT ![w].pc = pc]
    BY <1>1, <1>2, <1>4 DEF AdvanceCursor
  <2>2. j = [command |-> j.command, pc |-> j.pc, at |-> j.at, page |-> j.page]
    BY DEF Deliveries
  <2> HIDE DEF pc
  <2>3. [j EXCEPT !.pc = pc] = n
    BY <1>3, <1>4, <1>6, <2>2
  <2> QED BY <1>2, <2>1, <2>3
<1>8. /\ cursor' = IF at.offset = 0 THEN [at EXCEPT !.began = 0] ELSE at
      /\ longPass' = (longPass \/ (at.offset = 0 /\ at.from - at.began > Overlap))
      /\ today' = today /\ place' = place /\ changed' = changed /\ version' = version
      /\ covered' = covered /\ requests' = requests
  BY <1>2, <1>4 DEF AdvanceCursor, jitbit
<1>9. ASSUME NEW t \in Tickets, ~longPass
      PROVE  \/ covered[t] = version[t] \/ changed[t] >= at.began
             \/ at.offset > 0 /\ AheadOf(t, at)
  <2>1. Reached(t, j)
    BY <1>3, <1>9 DEF DeliverySafe
  <2> QED BY <1>3, <1>4, <2>1 DEF Reached
<1>10. DeliverySafe(n)
  <2>1. at.offset # 0 => \A t \in Tickets : ~longPass => Safe(t, at)
    <3>1. at.offset # 0 => at.offset > 0
      BY <1>5
    <3> QED BY <1>9, <3>1 DEF Safe
  <2>2. n.command = j.command /\ n.pc = pc /\ n.at = at /\ n.page = <<>>
    BY <1>6
  <2> QED BY <1>3, <1>4, <2>1, <2>2 DEF DeliverySafe
<1>11. PICK c \in Cursors :
         /\ c = cursor' /\ c.from = at.from /\ c.offset = at.offset
         /\ c.began <= at.began /\ Within(c) /\ (at.offset # 0 => c = at)
  <2>1. CASE at.offset = 0
    <3> DEFINE c == [from |-> at.from, offset |-> at.offset, began |-> 0]
    <3>1. cursor' = c
      BY <1>5, <1>8, <2>1
    <3>2. c \in Cursors
      BY <1>5 DEF Cursors, Days
    <3>3. Within(c)
      BY <1>5 DEF Within
    <3>4. c.from = at.from /\ c.offset = at.offset /\ c.began <= at.began
      BY <1>5
    <3> HIDE DEF c
    <3> QED BY <2>1, <3>1, <3>2, <3>3, <3>4
  <2>2. CASE at.offset # 0
    <3>1. cursor' = at
      BY <1>8, <2>2
    <3> QED BY <1>3, <1>4, <1>5, <3>1
  <2> QED BY <2>1, <2>2
<1>12. PICK o \in Cursors :
         /\ o = Opened(c) /\ o.offset = at.offset
         /\ at.offset = 0 => o.from = 0 \/ o.from = at.from - Overlap
         /\ at.offset # 0 => o = at
  <2>1. Within(c) /\ c.from = at.from /\ c.offset = at.offset /\ (at.offset # 0 => c = at)
    BY <1>11
  <2>2. /\ Opened(c) \in Cursors /\ Opened(c).offset = c.offset
        /\ c.offset = 0 => Opened(c).from = 0 \/ Opened(c).from = c.from - Overlap
        /\ c.offset # 0 => Opened(c) = c
    BY <1>1, <2>1, OpenedIsEarlier
  <2> QED BY <2>1, <2>2
<1>13. ASSUME NEW t \in Tickets, ~longPass' PROVE Safe(t, o)'
  <2>1. ~longPass
    BY <1>8, <1>13
  <2>2. Safe(t, o)
    <3>1. CASE at.offset # 0
      BY <1>5, <1>9, <1>12, <2>1, <3>1 DEF Safe
    <3>2. CASE at.offset = 0
      <4>1. o.from <= at.began /\ o.from \in Nat
        <5>1. at.from - at.began <= Overlap
          <6>1. ~(at.from - at.began > Overlap)
            BY <1>8, <1>13, <3>2, Zenon
          <6> QED BY <1>5, <6>1
        <5>2. o.from \in 0 .. MaxDay
          BY DEF Cursors, Days
        <5> QED BY <1>5, <1>12, <3>2, <5>1, <5>2
      <4>2. covered[t] = version[t] \/ changed[t] >= at.began
        BY <1>9, <2>1, <3>2, <1>5
      <4>3. ASSUME changed[t] >= at.began PROVE AheadOf(t, o)
        <5>1. t \in Listed(o.from)
          BY <1>5, <4>1, <4>3 DEF Listed
        <5>2. Before(t, o.from) >= 0
          BY <1>1, <4>1, <5>1, Offsets
        <5> QED BY <1>5, <1>12, <3>2, <4>1, <4>3, <5>2 DEF AheadOf
      <4> QED BY <4>2, <4>3 DEF Safe
    <3> QED BY <3>1, <3>2
  <2> QED BY <1>8, <2>2 DEF Safe, AheadOf, Before, Listed
<1>14. SavedSafe(c)'
  <2>1. today' = today /\ Listed(c.from)' = Listed(c.from)
    BY <1>8 DEF Listed
  <2>2. Within(c)'
    BY <1>11, <2>1 DEF Within
  <2> QED BY <1>12, <1>13, <2>2 DEF SavedSafe
<1>15. [DiscoveryNext]_discoveryVars /\ UNCHANGED jitbit
  BY <1>8 DEF AdvanceCursor, DiscoveryNext, Work, jitbit
<1>16. /\ cursor' \in Cursors /\ covered' \in [Tickets -> Nat] /\ longPass' \in BOOLEAN
       /\ requests' \subseteq Commands \X Tickets \X Nat
  BY <1>1, <1>8, <1>11 DEF DiscoveryTypeOK
<1>17. /\ Len(n.page) <= PageSize /\ (longPass => longPass')
       /\ \A q \in requests' : q \in requests \/ q[3] <= covered'[q[2]]
       /\ \A d \in Cursors : d = cursor' => d = cursor \/ SavedSafe(d)'
       /\ \A t \in Tickets : covered'[t] = covered[t] \/ covered'[t] = version[t]
  <2>1. Len(n.page) <= PageSize
    BY <1>5, <1>6
  <2>2. longPass => longPass'
    BY <1>8, Zenon
  <2>3. \A d \in Cursors : d = cursor' => SavedSafe(d)'
    BY <1>11, <1>14
  <2> QED BY <1>8, <2>1, <2>2, <2>3
<1> QED BY <1>7, <1>10, <1>15, <1>16, <1>17, WorkerStep

\* A worker starts from the saved cursor, moved back at the start of a pass.
LEMMA ClaimSafe ==
  ASSUME DiscoveryInv, NEW w \in Workers, NEW c \in Commands,
         Claim(w, c)
  PROVE  DiscoveryInv'
<1>1. DiscoveryTypeOK
  BY DEF DiscoveryInv
<1>2. PICK at \in Cursors : at = cursor /\ SavedSafe(at)
  BY <1>1 DEF DiscoveryTypeOK, DiscoveryInv
<1>3. PICK o \in Cursors : o = Opened(at) /\ Within(o)
  BY <1>1, <1>2, OpenedIsEarlier DEF SavedSafe
<1>4. PICK n \in Deliveries : n = [command |-> c, pc |-> "fetch", at |-> o, page |-> <<>>]
  <2>1. <<>> \in Seq(Tickets \X Nat)
    OBVIOUS
  <2> QED BY <2>1 DEF Deliveries, Pcs
<1>5. worker' = [worker EXCEPT ![w] = n]
  <2>1. Idle = [command |-> Nothing, pc |-> "fetch", at |-> Start, page |-> <<>>]
    BY DEF Idle
  <2>2. [Idle EXCEPT !.command = c]
          = [command |-> c, pc |-> "fetch", at |-> Start, page |-> <<>>]
    BY <2>1
  <2>3. [[command |-> c, pc |-> "fetch", at |-> Start, page |-> <<>>] EXCEPT !.at = o]
          = [command |-> c, pc |-> "fetch", at |-> o, page |-> <<>>]
    OBVIOUS
  <2>4. [Idle EXCEPT !.command = c, !.at = o] = n
    BY <1>4, <2>2, <2>3
  <2> QED BY <1>2, <1>3, <2>4 DEF Claim
<1>6. DeliverySafe(n)
  <2>1. n.command = c /\ n.pc = "fetch" /\ n.at = o /\ n.page = <<>>
    BY <1>4
  <2> QED BY <1>2, <1>3, <2>1 DEF DeliverySafe, SavedSafe
<1>7. /\ [DiscoveryNext]_discoveryVars /\ UNCHANGED jitbit
      /\ cursor' = cursor /\ requests' = requests /\ covered' = covered
      /\ longPass' = longPass
  BY DEF Claim, DiscoveryNext, Deliver, jitbit
<1>8. /\ cursor' \in Cursors /\ covered' \in [Tickets -> Nat] /\ longPass' \in BOOLEAN
      /\ requests' \subseteq Commands \X Tickets \X Nat
  BY <1>1, <1>7 DEF DiscoveryTypeOK
<1>9. /\ Len(n.page) <= PageSize /\ (longPass => longPass')
      /\ \A q \in requests' : q \in requests \/ q[3] <= covered'[q[2]]
      /\ \A d \in Cursors : d = cursor' => d = cursor \/ SavedSafe(d)'
      /\ \A t \in Tickets : covered'[t] = covered[t] \/ covered'[t] = version[t]
  <2>1. Len(n.page) <= PageSize
    BY <1>4, DiscoveryAssumption
  <2> QED BY <1>7, <2>1
<1> QED BY <1>5, <1>6, <1>7, <1>8, <1>9, WorkerStep

\* The calendar moves on and tickets change.
LEMMA SourceSafe ==
  ASSUME DiscoveryInv, NewDay \/ \E t \in Tickets : Change(t)
  PROVE  DiscoveryInv'
<1>1. DiscoveryTypeOK /\ Past
  BY DEF DiscoveryInv
<1>2. /\ today \in 0 .. MaxDay /\ MaxDay \in Nat /\ changed \in [Tickets -> 0 .. MaxDay]
      /\ version \in [Tickets -> Nat] /\ place \in Places
      /\ \A t \in Tickets : changed[t] <= today
  BY <1>1, DiscoveryAssumption DEF DiscoveryTypeOK, Days, Past
<1>3. /\ cursor' = cursor /\ row' = row /\ stage' = stage /\ worker' = worker
      /\ requests' = requests /\ covered' = covered /\ longPass' = longPass
      /\ troubles' = troubles
  BY DEF NewDay, Change
<1>4. /\ today' \in Days /\ today <= today' /\ place' \in Places
      /\ changed' \in [Tickets -> Days] /\ version' \in [Tickets -> Nat]
  <2>1. CASE NewDay
    BY <1>2, <2>1 DEF NewDay, Days
  <2>2. ASSUME NEW t \in Tickets, Change(t)
        PROVE  /\ today' \in Days /\ today <= today' /\ place' \in Places
               /\ changed' \in [Tickets -> Days] /\ version' \in [Tickets -> Nat]
    <3>1. place' \in Places
      BY <1>1, <1>2, <2>2, ChangeMovesBack
    <3> QED BY <1>2, <2>2, <3>1 DEF Change, Days
  <2> QED BY <2>1, <2>2
<1>5. DiscoveryTypeOK'
  BY <1>1, <1>3, <1>4 DEF DiscoveryTypeOK
<1>6. Later
  <2>1. CASE NewDay
    BY <1>3, <1>4, <2>1 DEF Later, NewDay
  <2>2. CASE \E t \in Tickets : Change(t)
    BY <1>3, <1>4, <2>2 DEF Later
  <2> QED BY <2>1, <2>2
<1> QED BY <1>3, <1>5, <1>6, Follows

\* The initial states.
LEMMA InitDiscovery ==
  ASSUME DiscoveryInit
  PROVE  DiscoveryInv
<1>1. Start \in Cursors /\ Start.offset = 0 /\ Start.from = 0 /\ Start.began = 0
  <2>1. Cardinality(Tickets) \in Nat /\ MaxDay \in Nat
    BY FS_CardinalityType, DiscoveryAssumption
  <2> QED BY <2>1 DEF Start, Cursors, Days
<1>2. Idle \in Deliveries /\ Len(Idle.page) = 0
  BY <1>1 DEF Idle, Deliveries, Pcs
<1>3. DiscoveryTypeOK
  <2>1. today \in Days /\ changed \in [Tickets -> Days]
    BY DiscoveryAssumption DEF DiscoveryInit, Days
  <2>2. row \in [state : RowStates, fence : Workers \union {Nothing}, leased : BOOLEAN]
    BY DEF DiscoveryInit, RowStates
  <2>3. /\ worker \in [Workers -> Deliveries]
        /\ \A w \in Workers : Len(worker[w].page) <= PageSize
    BY <1>2, DiscoveryAssumption DEF DiscoveryInit
  <2>4. troubles \in 0 .. MaxTroubles
    BY DiscoveryAssumption DEF DiscoveryInit
  <2> QED BY <1>1, <2>1, <2>2, <2>3, <2>4 DEF DiscoveryInit, DiscoveryTypeOK, Deliveries
<1>4. Past
  BY DEF DiscoveryInit, Past
<1>5. DeliverySafe(Idle)
  BY <1>3, IdleSafe
<1>6. SavedSafe(Start)
  <2>1. Within(Start)
    BY <1>5 DEF DeliverySafe, Idle
  <2>2. /\ Opened(Start) \in Cursors /\ Opened(Start).offset = 0
        /\ Opened(Start).from = 0
    <3>1. Overlap \in Nat
      BY DiscoveryAssumption
    <3>2. /\ Opened(Start) \in Cursors /\ Opened(Start).offset = 0
          /\ Opened(Start).from <= 0
      BY <1>1, <1>3, <2>1, OpenedIsEarlier
    <3>3. Opened(Start).from \in 0 .. MaxDay
      BY <3>2 DEF Cursors, Days
    <3> QED BY <3>2, <3>3
  <2>3. \A t \in Tickets : changed[t] = 0
    BY DEF DiscoveryInit
  <2>4. \A t \in Tickets : Before(t, 0) >= 0
    <3>1. \A t \in Tickets : t \in Listed(0)
      BY <2>3 DEF Listed
    <3> QED BY <1>3, <3>1, Offsets
  <2>5. \A t \in Tickets : AheadOf(t, Opened(Start))
    BY <2>2, <2>3, <2>4 DEF AheadOf
  <2> QED BY <2>1, <2>5 DEF SavedSafe, Safe
<1> QED BY <1>3, <1>4, <1>5, <1>6 DEF DiscoveryInv, DiscoveryInit

\* Every step keeps the invariant.
LEMMA DiscoveryStep ==
  ASSUME DiscoveryInv, [DiscoveryNext]_discoveryVars
  PROVE  DiscoveryInv'
<1>1. CASE UNCHANGED discoveryVars
  <2>1. DiscoveryTypeOK /\ DiscoveryTypeOK'
    BY <1>1 DEF DiscoveryInv, DiscoveryTypeOK, discoveryVars
  <2>2. Later
    BY <1>1, <2>1 DEF Later, discoveryVars, DiscoveryTypeOK, Days
  <2> QED BY <1>1, <2>1, <2>2, Follows DEF discoveryVars
<1>2. CASE NewDay \/ \E t \in Tickets : Change(t)
  BY <1>2, SourceSafe
<1>3. CASE CursorLeaseLapses \/ \E c \in Commands : Enqueue(c)
  <2>1. /\ UNCHANGED <<jitbit, cursor, covered, longPass>> /\ requests' = requests
        /\ worker' = worker
    BY <1>3 DEF CursorLeaseLapses, Enqueue
  <2>2. DiscoveryTypeOK /\ DiscoveryTypeOK'
    <3>1. DiscoveryTypeOK
      BY DEF DiscoveryInv
    <3>2. /\ row' \in [state : RowStates, fence : Workers \union {Nothing}, leased : BOOLEAN]
          /\ stage' \in [Commands -> {"created", "active", "acknowledged"}]
          /\ troubles' \in 0 .. MaxTroubles
      BY <3>1, RowTypes
    <3> QED BY <2>1, <3>1, <3>2 DEF DiscoveryTypeOK, jitbit
  <2>3. Later
    BY <2>1, <2>2 DEF Later, jitbit, DiscoveryTypeOK, Days
  <2> QED BY <2>1, <2>2, <2>3, Follows
<1>4. ASSUME NEW w \in Workers, NEW c \in Commands,
             ClaimAlreadyRunning(w, c) \/ ClaimThrows(w, c)
      PROVE  DiscoveryInv'
  <2>1. /\ UNCHANGED <<jitbit, cursor, covered, longPass>> /\ requests' \subseteq requests
        /\ worker' = worker
    BY <1>4 DEF ClaimAlreadyRunning, ClaimThrows, Acknowledge
  <2> QED BY <2>1, PutDown
<1>5. ASSUME NEW w \in Workers, Complete(w) \/ ClaimLost(w) \/ Throws(w) \/ WorkerDies(w)
      PROVE  DiscoveryInv'
  <2>1. /\ UNCHANGED <<jitbit, cursor, covered, longPass>> /\ requests' \subseteq requests
        /\ worker' = [worker EXCEPT ![w] = Idle]
    BY <1>5 DEF Complete, ClaimLost, Throws, WorkerDies, Acknowledge, Reject
  <2> QED BY <2>1, PutDown
<1>6. ASSUME NEW w \in Workers, Fetch(w) \/ CreateRequest(w) \/ AdvanceCursor(w)
      PROVE  DiscoveryInv'
  BY <1>6, FetchSafe, RequestSafe, AdvanceSafe
<1> QED BY <1>1, <1>2, <1>3, <1>4, <1>5, <1>6, ClaimSafe
        DEF DiscoveryNext, Deliver, Work

\* The invariant holds in every reachable state.
LEMMA DiscoveryInvariance == Discovery => []DiscoveryInv
<1>1. DiscoveryInit => DiscoveryInv
  BY InitDiscovery
<1>2. DiscoveryInv /\ [DiscoveryNext]_discoveryVars => DiscoveryInv'
  BY DiscoveryStep
<1> QED BY <1>1, <1>2, PTL DEF Discovery

\* The cursor row, the deliveries and the listing have the states the code and the
\* source give them: an offset is never beyond the tickets, a page never longer than
\* was asked for.
THEOREM DiscoveryTypeCorrect == Discovery => []DiscoveryTypeOK
<1>1. DiscoveryInv => DiscoveryTypeOK
  BY DEF DiscoveryInv
<1> QED BY <1>1, DiscoveryInvariance, PTL

\* A pass that has ended leaves no change behind that the next pass will not list,
\* unless a pass lasted longer than the overlap (the offsets of fetchPage, the cursor
\* saved by advance after every page, and parseCursor's overlap).
THEOREM PassesComplete == Discovery => []NothingMissed
<1>1. DiscoveryInv => NothingMissed
  <2> SUFFICES ASSUME DiscoveryInv, cursor.offset = 0, ~longPass, NEW t \in Tickets
               PROVE  covered[t] = version[t] \/ changed[t] >= Opened(cursor).from
    BY DEF NothingMissed
  <2>1. DiscoveryTypeOK
    BY DEF DiscoveryInv
  <2>2. PICK c \in Cursors : c = cursor /\ SavedSafe(c)
    BY <2>1 DEF DiscoveryTypeOK, DiscoveryInv
  <2>3. Opened(c).offset = 0
    BY <2>1, <2>2, OpenedIsEarlier DEF SavedSafe
  <2> QED BY <2>2, <2>3 DEF SavedSafe, Safe, AheadOf
<1> QED BY <1>1, DiscoveryInvariance, PTL
=============================================================================
