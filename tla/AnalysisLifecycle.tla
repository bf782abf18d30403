-------------------------- MODULE AnalysisLifecycle --------------------------
(***************************************************************************)
(* What the domain promises of an analysis job: the transitions of         *)
(* packages/domain/src/analysis.ts, with no queue, worker or lease.  The   *)
(* SQL of the execution and operations stores does not call these          *)
(* functions; AnalysisJobs is shown to implement them.                     *)
(***************************************************************************)
EXTENDS Integers

CONSTANTS Jobs, MaxAttempts, NoAttempt

VARIABLES
  state,   \* state[j]: the job's state, "absent" before it is requested
  started, \* started[j]: attempts so far
  active,  \* active[j]: the attempt at work, or NoAttempt
  winner   \* winner[j]: the attempt whose result completed the job

vars == <<state, started, active, winner>>

Init ==
  /\ state   = [j \in Jobs |-> "absent"]
  /\ started = [j \in Jobs |-> 0]
  /\ active  = [j \in Jobs |-> NoAttempt]
  /\ winner  = [j \in Jobs |-> NoAttempt]

Queue(j) ==
  /\ state[j] = "absent"
  /\ state' = [state EXCEPT ![j] = "queued"]
  /\ UNCHANGED <<started, active, winner>>

\* queued -> running, with the next attempt.
Start(j) ==
  /\ state[j] = "queued"
  /\ started[j] < MaxAttempts
  /\ state'   = [state EXCEPT ![j] = "running"]
  /\ active'  = [active EXCEPT ![j] = started[j]]
  /\ started' = [started EXCEPT ![j] = @ + 1]
  /\ UNCHANGED winner

\* running -> completed | failed | cancelled, decided by the active attempt.
Finish(j, outcome) ==
  /\ state[j] = "running"
  /\ state'  = [state EXCEPT ![j] = outcome]
  /\ winner' = IF outcome = "completed"
               THEN [winner EXCEPT ![j] = active[j]] ELSE winner
  /\ active' = [active EXCEPT ![j] = NoAttempt]
  /\ UNCHANGED started

\* queued -> cancelled.
CancelQueued(j) ==
  /\ state[j] = "queued"
  /\ state' = [state EXCEPT ![j] = "cancelled"]
  /\ UNCHANGED <<started, active, winner>>

\* recoverAnalysisJob: back to queued once the attempt is terminal.
Recover(j) ==
  /\ state[j] = "running"
  /\ state'  = [state EXCEPT ![j] = "queued"]
  /\ active' = [active EXCEPT ![j] = NoAttempt]
  /\ UNCHANGED <<started, winner>>

Next == \E j \in Jobs :
  \/ Queue(j) \/ Start(j) \/ CancelQueued(j) \/ Recover(j)
  \/ \E outcome \in {"completed", "failed", "cancelled"} : Finish(j, outcome)

Spec == Init /\ [][Next]_vars
=============================================================================
