------------------------------ MODULE Schedules ------------------------------
(***************************************************************************)
(* Schedules, the replicas that poll them and the administrators that      *)
(* enable and disable them.                                                *)
(*                                                                         *)
(* A run of a scheduler reads the due schedules without a lock, then takes *)
(* them one by one: a short lease in one statement, and in a transaction   *)
(* the occurrence, the command in the outbox, the next run and the release *)
(* of the lease, which DELETES the row: the fencing token starts again at  *)
(* 1.  Any error ends the run and leaves the rest of its batch.            *)
(*                                                                         *)
(* Knowledge schedules are one row that administration rewrites; a case    *)
(* schedule pins a version, is never rewritten, and its enqueue compares   *)
(* the pins under the row lock.  Time is counted in occurrences: the one   *)
(* after t is t + 1, whatever the cadence.                                 *)
(***************************************************************************)
EXTENDS Integers, FiniteSets

CONSTANTS
  Schedules,
  Pinned,          \* the schedules of cases: immutable, their pins compared
  Runs,            \* pollers, one per replica and kind of schedule
  CaseRuns,        \* those that poll the schedules of cases
  MaxTime,         \* BOUND: the clock
  MaxTransitions,  \* BOUND: changes made by administrators
  MaxFaults,       \* BOUND: crashes, and leases that lapse under their holder
  None

ASSUME ScheduleAssumption ==
  /\ Pinned \subseteq Schedules /\ CaseRuns \subseteq Runs
  /\ MaxTime \in Nat /\ MaxTransitions \in Nat /\ MaxFaults \in Nat
  /\ None \notin Schedules

VARIABLES
  now,
  next,         \* next[s]: next_run_at
  enabled,      \* enabled[s]
  current,      \* current[s]: the pinned version is the current, active one
  lease,        \* lease[s]: the token of the row, 0 without one, and if it lasts
  occurrences,  \* the rows of the occurrence tables
  commands,     \* commands[s][t]: envelopes appended for s at t
  run,          \* run[r]: the due schedules as read, the one held and its token
  admin,        \* the next_run_at each open transition has read, 0 without one
  overwritten,  \* history: schedules whose next run a transition set back
  transitions,
  faults

vars == <<now, next, enabled, current, lease, occurrences, commands, run, admin,
          overwritten, transitions, faults>>

Times == 1 .. MaxTime

NoLease == [token |-> 0, live |-> FALSE]

NoRun == [found |-> [s \in Schedules |-> 0], held |-> None, token |-> 0]

Init ==
  /\ now = 0
  /\ next = [s \in Schedules |-> 1]
  /\ enabled = [s \in Schedules |-> TRUE]
  /\ current = [s \in Schedules |-> TRUE]
  /\ lease = [s \in Schedules |-> NoLease]
  /\ occurrences = {}
  /\ commands = [s \in Schedules |-> [t \in Times |-> 0]]
  /\ run = [r \in Runs |-> NoRun]
  /\ admin = [s \in Schedules |-> 0]
  /\ overwritten = {}
  /\ transitions = 0
  /\ faults = 0

Tick ==
  /\ now < MaxTime
  /\ now' = now + 1
  /\ UNCHANGED <<next, enabled, current, lease, occurrences, commands, run,
                 admin, overwritten, transitions, faults>>

Fault == faults < MaxFaults /\ faults' = faults + 1

-----------------------------------------------------------------------------
(* A run of a scheduler                                                      *)

Polled(r) == IF r \in CaseRuns THEN Pinned ELSE Schedules \ Pinned

Due(r) == {s \in Polled(r) : enabled[s] /\ current[s] /\ next[s] <= now}

\* findDue, when no run of the poller is in flight.
FindDue(r) ==
  /\ run[r] = NoRun
  /\ Due(r) # {}
  /\ run' = [run EXCEPT ![r] = [NoRun EXCEPT !.found =
               [s \in Schedules |-> IF s \in Due(r) THEN next[s] ELSE 0]]]
  /\ UNCHANGED <<now, next, enabled, current, lease, occurrences, commands,
                 admin, overwritten, transitions, faults>>

\* The schedule is done with; the run takes the next one of its batch.
Continue(r, s) ==
  [run EXCEPT ![r] = [NoRun EXCEPT !.found = [run[r].found EXCEPT ![s] = 0]]]

\* Mutant of Take: a lease that lapsed is never taken over.
TakeOnce(s) ==
  /\ lease[s].token = 0
  /\ lease' = [lease EXCEPT ![s] = [token |-> @.token + 1, live |-> TRUE]]

\* INSERT .. ON CONFLICT DO UPDATE .. WHERE expires_at <= NOW()
Take(s) ==
  /\ ~lease[s].live
  /\ lease' = [lease EXCEPT ![s] = [token |-> @.token + 1, live |-> TRUE]]

AcquireLease(r, s) ==
  /\ run[r].held = None /\ run[r].found[s] # 0
  /\ Take(s)
  /\ run' = [run EXCEPT ![r] = [found |-> @.found, held |-> s,
                               token |-> lease'[s].token]]
  /\ UNCHANGED <<now, next, enabled, current, occurrences, commands, admin,
                 overwritten, transitions, faults>>

LeaseIsTaken(r, s) ==
  /\ run[r].held = None /\ run[r].found[s] # 0
  /\ lease[s].live
  /\ run' = Continue(r, s)
  /\ UNCHANGED <<now, next, enabled, current, lease, occurrences, commands,
                 admin, overwritten, transitions, faults>>

\* SELECT .. FROM leases WHERE fencing_token = $3 AND expires_at > NOW()
HasLease(r, s) ==
  run[r].held = s /\ lease[s] = [token |-> run[r].token, live |-> TRUE]

\* enqueueOccurrence compares the pins of a case schedule, and nothing else of
\* what was read: neither next_run_at nor the cadence.
PinsAreCurrent(s) == s \in Pinned => current[s]

Recorded(s, t) == <<s, t>> \in occurrences

ReleaseLease(s) == lease' = [lease EXCEPT ![s] = NoLease]

\* Mutant of Advance: the next run is computed from the clock.
AdvanceFromNow(s, t) == next' = [next EXCEPT ![s] = now + 1]

Advance(s, t) == next' = [next EXCEPT ![s] = t + 1]

\* Mutant of EnqueueOccurrence: no unique key stops a second insert.
EnqueueAgain(r, s) ==
  LET t == run[r].found[s] IN
  /\ HasLease(r, s) /\ PinsAreCurrent(s) /\ enabled[s]
  /\ occurrences' = occurrences \union {<<s, t>>}
  /\ commands' = [commands EXCEPT ![s][t] = @ + 1]
  /\ Advance(s, t)
  /\ ReleaseLease(s)
  /\ run' = Continue(r, s)
  /\ UNCHANGED <<now, enabled, current, admin, overwritten, transitions, faults>>

\* One transaction: occurrence, command, next run, lease.
EnqueueOccurrence(r, s) ==
  LET t == run[r].found[s] IN
  /\ HasLease(r, s) /\ PinsAreCurrent(s) /\ enabled[s] /\ ~Recorded(s, t)
  /\ occurrences' = occurrences \union {<<s, t>>}
  /\ commands' = [commands EXCEPT ![s][t] = @ + 1]
  /\ Advance(s, t)
  /\ ReleaseLease(s)
  /\ run' = Continue(r, s)
  /\ UNCHANGED <<now, enabled, current, admin, overwritten, transitions, faults>>

\* ON CONFLICT DO NOTHING: the lease goes, the next run stays where it is.
EnqueueDuplicate(r, s) ==
  /\ HasLease(r, s) /\ PinsAreCurrent(s) /\ Recorded(s, run[r].found[s])
  /\ ReleaseLease(s)
  /\ run' = Continue(r, s)
  /\ UNCHANGED <<now, next, enabled, current, occurrences, commands, admin,
                 overwritten, transitions, faults>>

\* The lease, the pins or the schedule are gone: rollback, the run rejects and
\* the rest of its batch waits for the next poll.  The lease row stays.
EnqueueThrows(r, s) ==
  /\ run[r].held = s
  /\ \/ ~HasLease(r, s)
     \/ ~PinsAreCurrent(s)
     \/ ~enabled[s] /\ ~Recorded(s, run[r].found[s])
  /\ run' = [run EXCEPT ![r] = NoRun]
  /\ UNCHANGED <<now, next, enabled, current, lease, occurrences, commands,
                 admin, overwritten, transitions, faults>>

\* The process dies, or a statement fails.
Crash(r) ==
  /\ run[r] # NoRun /\ Fault
  /\ run' = [run EXCEPT ![r] = NoRun]
  /\ UNCHANGED <<now, next, enabled, current, lease, occurrences, commands,
                 admin, overwritten, transitions>>

\* leaseMs passes.  Nobody holds the lease any more, or its holder is slow.
LeaseLapses(s) ==
  /\ lease[s].live
  /\ IF \E r \in Runs : HasLease(r, s) THEN Fault ELSE UNCHANGED faults
  /\ lease' = [lease EXCEPT ![s].live = FALSE]
  /\ UNCHANGED <<now, next, enabled, current, occurrences, commands, run, admin,
                 overwritten, transitions>>

-----------------------------------------------------------------------------
(* Administration                                                            *)

Transition == transitions < MaxTransitions /\ transitions' = transitions + 1

\* transitionKnowledgeSchedule reads the row, next_run_at included, without a
\* lock ...
ReadForTransition(s) ==
  /\ s \notin Pinned /\ admin[s] = 0
  /\ Transition
  /\ admin' = [admin EXCEPT ![s] = next[s]]
  /\ UNCHANGED <<now, next, enabled, current, lease, occurrences, commands, run,
                 overwritten, faults>>

\* Mutant of WriteTransition: the next run is cleared.
WriteCleared(s) ==
  /\ admin[s] # 0
  /\ \E active \in BOOLEAN : enabled' = [enabled EXCEPT ![s] = active]
  /\ next' = [next EXCEPT ![s] = 0]
  /\ admin' = [admin EXCEPT ![s] = 0]
  /\ UNCHANGED <<now, current, lease, occurrences, commands, run, overwritten,
                 transitions, faults>>

\* ... and at its end writes all of it back, under the revision of the
\* configuration, which the scheduler does not change.
WriteTransition(s) ==
  /\ admin[s] # 0
  /\ \E active \in BOOLEAN : enabled' = [enabled EXCEPT ![s] = active]
  /\ next' = [next EXCEPT ![s] = admin[s]]
  /\ overwritten' = IF admin[s] < next[s] THEN overwritten \union {s}
                    ELSE overwritten
  /\ admin' = [admin EXCEPT ![s] = 0]
  /\ UNCHANGED <<now, current, lease, occurrences, commands, run, transitions,
                 faults>>

\* A case schedule's configuration, trigger or connector gets another current
\* version, or is disabled: this row's pins hold no more.
Supersede(s) ==
  /\ s \in Pinned /\ current[s]
  /\ Transition
  /\ current' = [current EXCEPT ![s] = FALSE]
  /\ UNCHANGED <<now, next, enabled, lease, occurrences, commands, run, admin,
                 overwritten, faults>>

Poll(r) ==
  \/ FindDue(r)
  \/ \E s \in Schedules : \/ AcquireLease(r, s) \/ LeaseIsTaken(r, s)
                          \/ EnqueueOccurrence(r, s) \/ EnqueueDuplicate(r, s)
                          \/ EnqueueThrows(r, s)

Next ==
  \/ Tick
  \/ \E r \in Runs : Poll(r) \/ Crash(r)
  \/ \E s \in Schedules : LeaseLapses(s) \/ ReadForTransition(s)
                          \/ WriteTransition(s) \/ Supersede(s)

Spec == Init /\ [][Next]_vars

\* The poll timer fires for ever, a lease without a holder runs out, time passes.
FairSpec ==
  /\ Spec
  /\ WF_vars(Tick)
  /\ \A r \in Runs : WF_vars(Poll(r))
  /\ \A s \in Schedules :
       WF_vars(LeaseLapses(s) /\ ~\E r \in Runs : HasLease(r, s))

-----------------------------------------------------------------------------
(* Properties                                                                *)

TypeOK ==
  /\ now \in 0 .. MaxTime
  /\ next \in [Schedules -> 1 .. MaxTime + 1]
  /\ enabled \in [Schedules -> BOOLEAN]
  /\ current \in [Schedules -> BOOLEAN]
  /\ lease \in [Schedules -> [token : Nat, live : BOOLEAN]]
  /\ occurrences \subseteq Schedules \X Times
  /\ commands \in [Schedules -> [Times -> Nat]]
  /\ run \in [Runs -> [found : [Schedules -> 0 .. MaxTime],
                       held : Schedules \union {None}, token : Nat]]
  /\ admin \in [Schedules -> 0 .. MaxTime + 1]
  /\ overwritten \subseteq Schedules \ Pinned
  /\ transitions \in 0 .. MaxTransitions
  /\ faults \in 0 .. MaxFaults

\* However many replicas poll, whatever they read before they had the lease, and
\* although the token starts again at 1 so that an old holder can pass the fence
\* of a new one: an occurrence has exactly one command in the outbox (guide 19:
\* "Multiple scheduler replicas must not duplicate an occurrence.").
OneCommandPerOccurrence ==
  \A s \in Schedules, t \in Times : commands[s][t] = IF Recorded(s, t) THEN 1 ELSE 0

\* No occurrence is passed over: every one before the next run is recorded, also
\* when a run that read the schedule long ago is the one that advances it.
NothingSkipped ==
  \A s \in Schedules, t \in Times : t < next[s] => Recorded(s, t)

\* What those who carry out the commands may rely on: each schedule sends them in
\* the order of its occurrences, and each of them once.
Clock == INSTANCE OccurrenceClock WITH sent <- commands

ImplementsClock == Clock!Spec

\* A schedule that stays enabled runs at each of its times, through crashes and
\* lost leases - unless a transition wrote back a next run it had read before an
\* enqueue advanced it: from then on every poll finds a duplicate, which does
\* not advance the schedule.
EveryOccurrenceRuns ==
  \A s \in Schedules, t \in Times :
    (t <= now) ~> \/ Recorded(s, t) \/ ~enabled[s] \/ ~current[s]
                  \/ s \in overwritten
=============================================================================
