--------------------------- MODULE PublicationProofs ---------------------------
(***************************************************************************)
(* Safety of Publication for every set of intents and executors, every     *)
(* retry limit and any number of faults and late writes.                   *)
(*                                                                         *)
(* The lease plays no part in the exclusion.  One executor at a time is    *)
(* between preparing and recording an intent because preparing takes an    *)
(* intent that is pending or failed, under the lock of its row, and leaves *)
(* it publishing, which only the recording ends.  This holds in the system *)
(* as it is wired: a reconciliation also takes intents whose outcome is    *)
(* unknown, which an executor may be about to record as failed.  That no   *)
(* command is used up while its intent is pending does rest on the lease:  *)
(* a handler that finds it taken returns.                                  *)
(***************************************************************************)
EXTENDS Publication, FiniteSetTheorems, TLAPS

Pcs == {"idle", "preparing", "looking", "posting", "recordPublished",
        "recordUnknown", "recordFailure", "releasing", "answering"}

\* Who is not idle serves an intent.
Serving == \A x \in Executors : executor[x].pc # "idle" => executor[x].intent \in Intents

\* The bound on late writes.
LateCounted == \A i \in Intents : late[i] + arrived[i] <= MaxLate

\* Nothing has been done yet for an intent that is not there or not approved.
Untouched ==
  \A i \in Intents :
    intent[i] \in {"absent", "awaitingApproval"} =>
      /\ command[i] = "none" /\ comments[i] = 0 /\ late[i] = 0
      /\ \A x \in Executors : executor[x].intent # i

\* Without an approval an intent that asks for one waits for it.
Awaiting ==
  \A i \in Intents :
    policy[i] = "approval" /\ ~approved[i] => intent[i] = "awaitingApproval"

\* A request that has seen the job completed sees its result.
ReadsInOrder ==
  /\ event # "none" => done
  /\ \A i \in Intents :
       request[i].sawCompleted =>
         done /\ (request[i].pc = "write" => request[i].sawResult)

IInv == TypeOK /\ Serving /\ LateCounted /\ Untouched /\ Awaiting /\ ReadsInOrder

-----------------------------------------------------------------------------
(* Parts of the steps *)

LEMMA IdleTyped ==
  Idle \in ExecutorStates /\ Idle.pc = "idle" /\ Idle.intent = NoIntent
BY DEF Idle, ExecutorStates

\* A step of one executor on the intent it serves.
LEMMA OneMoves ==
  ASSUME TypeOK, NEW x \in Executors, NEW pc \in Pcs,
         Goto(x, pc) \/ Throw(x, pc)
  PROVE  /\ executor' \in [Executors -> ExecutorStates]
         /\ executor'[x].pc = pc
         /\ executor'[x].intent = executor[x].intent
         /\ executor'[x].delivery = executor[x].delivery
         /\ Throw(x, pc) => executor'[x].threw = TRUE
         /\ ~Throw(x, pc) => executor'[x].threw = executor[x].threw
         /\ \A y \in Executors \ {x} : executor'[y] = executor[y]
<1>1. executor \in [Executors -> ExecutorStates]
  BY DEF TypeOK
<1>2. executor[x] \in ExecutorStates
  BY <1>1
<1>3. PICK threw \in BOOLEAN :
        /\ executor' = [executor EXCEPT ![x] = [@ EXCEPT !.pc = pc, !.threw = threw]]
        /\ Throw(x, pc) => threw = TRUE
        /\ ~Throw(x, pc) => threw = executor[x].threw
  <2>1. CASE ~Throw(x, pc)
    <3>1. Goto(x, pc)
      BY <2>1
    <3>2. executor' = [executor EXCEPT ![x] = [@ EXCEPT !.pc = pc,
                                                        !.threw = executor[x].threw]]
      BY <1>1, <1>2, <3>1 DEF Goto, ExecutorStates
    <3>3. executor[x].threw \in BOOLEAN
      BY <1>2 DEF ExecutorStates
    <3> QED BY <2>1, <3>2, <3>3
  <2>2. CASE Throw(x, pc)
    <3>1. executor' = [executor EXCEPT ![x] = [@ EXCEPT !.pc = pc, !.threw = TRUE]]
      BY <1>1, <1>2, <2>2 DEF Throw
    <3> QED BY <2>2, <3>1
  <2> QED BY <2>1, <2>2
<1> DEFINE moved == [executor[x] EXCEPT !.pc = pc, !.threw = threw]
<1>4. /\ moved \in ExecutorStates
      /\ moved.pc = pc
      /\ moved.intent = executor[x].intent
      /\ moved.delivery = executor[x].delivery
      /\ moved.threw = threw
  BY <1>2 DEF ExecutorStates, Pcs
<1>5. executor' = [executor EXCEPT ![x] = moved]
  BY <1>3
<1> HIDE DEF moved
<1> QED BY <1>1, <1>3, <1>4, <1>5

\* Commands are appended, never changed, by the transactions on intents.
LEMMA EnqueueSays ==
  ASSUME TypeOK, NEW ready \in SUBSET Intents, Enqueue(ready)
  PROVE  /\ command' \in [Intents -> {"none", "ready", "active", "done", "dead"}]
         /\ \A i \in Intents :
              command'[i] = IF i \in ready /\ command[i] = "none"
                            THEN "ready" ELSE command[i]
BY DEF TypeOK, Enqueue

\* A rejected or expired command comes again or is dead; the others stay.
LEMMA RedeliverSays ==
  ASSUME TypeOK, NEW i \in Intents, Redeliver(i)
  PROVE  /\ command' \in [Intents -> {"none", "ready", "active", "done", "dead"}]
         /\ retries' \in [Intents -> 0 .. RetryLimit]
         /\ command'[i] \in {"ready", "dead"}
         /\ \A k \in Intents \ {i} : command'[k] = command[k]
<1>1. RetryLimit \in Nat /\ retries \in [Intents -> 0 .. RetryLimit]
  BY PublicationAssumption DEF TypeOK
<1>2. \/ retries' = retries
      \/ /\ retries[i] + 1 \in 0 .. RetryLimit
         /\ retries' = [retries EXCEPT ![i] = @ + 1]
  BY <1>1 DEF Redeliver
<1>3. retries' \in [Intents -> 0 .. RetryLimit]
  BY <1>1, <1>2
<1>4. \/ command' = [command EXCEPT ![i] = "ready"]
      \/ command' = [command EXCEPT ![i] = "dead"]
  BY DEF Redeliver
<1> QED BY <1>3, <1>4 DEF TypeOK

LEMMA FaultTyped == ASSUME TypeOK, Fault PROVE faults' \in Nat
<1>1. faults \in Nat /\ faults' = faults + 1
  BY DEF TypeOK, Fault
<1> QED BY <1>1

-----------------------------------------------------------------------------
(* The invariant, for steps of one kind *)

\* A step of an executor on its intent.
LEMMA HandlerStep ==
  ASSUME IInv, NEW x \in Executors, NEW pc \in Pcs \ {"idle"},
         executor[x].pc # "idle",
         Goto(x, pc) \/ Throw(x, pc),
         UNCHANGED <<analysis, request, policy, bound, approved, queue, lookups>>,
         intent' \in [Intents -> IntentStates],
         intent'[executor[x].intent] \notin {"absent", "awaitingApproval"},
         lease' \in [Intents -> [token : Nat, live : BOOLEAN]],
         comments' \in [Intents -> Nat],
         late' \in [Intents -> 0 .. MaxLate], arrived' = arrived, LateCounted',
         \A i \in Intents \ {executor[x].intent} :
           intent'[i] = intent[i] /\ comments'[i] = comments[i] /\ late'[i] = late[i],
         faults' \in Nat
  PROVE  IInv'
<1>1. /\ executor' \in [Executors -> ExecutorStates]
      /\ executor'[x].pc = pc
      /\ executor'[x].intent = executor[x].intent
      /\ \A y \in Executors \ {x} : executor'[y] = executor[y]
  BY OneMoves DEF IInv
<1>2. UNCHANGED <<done, event, request, policy, bound, approved, command, retries, lookups>>
  BY DEF analysis, queue
<1>3. TypeOK'
  BY <1>1, <1>2 DEF IInv, TypeOK
<1>4. Serving'
  BY <1>1 DEF IInv, Serving
<1>5. Untouched'
  <2> SUFFICES ASSUME NEW i \in Intents,
                      intent'[i] \in {"absent", "awaitingApproval"}
               PROVE  /\ command'[i] = "none" /\ comments'[i] = 0 /\ late'[i] = 0
                      /\ \A y \in Executors : executor'[y].intent # i
    BY DEF Untouched
  <2>1. i # executor[x].intent
    OBVIOUS
  <2>2. intent'[i] = intent[i] /\ comments'[i] = comments[i] /\ late'[i] = late[i]
    BY <2>1
  <2> QED BY <1>1, <1>2, <2>2 DEF IInv, Untouched
<1>6. Awaiting'
  <2> SUFFICES ASSUME NEW i \in Intents, policy[i] = "approval", ~approved[i]
               PROVE  intent'[i] = "awaitingApproval"
    BY <1>2 DEF Awaiting
  <2>1. intent[i] = "awaitingApproval"
    BY DEF IInv, Awaiting
  <2>2. i # executor[x].intent
    BY <2>1 DEF IInv, Untouched
  <2> QED BY <2>1, <2>2
<1>7. ReadsInOrder'
  BY <1>2 DEF IInv, ReadsInOrder
<1> QED BY <1>3, <1>4, <1>5, <1>6, <1>7 DEF IInv

\* A step of the queue.
LEMMA QueueStep ==
  ASSUME IInv,
         UNCHANGED <<analysis, request, record, lease, remote>>,
         executor' \in [Executors -> ExecutorStates], Serving',
         command' \in [Intents -> {"none", "ready", "active", "done", "dead"}],
         retries' \in [Intents -> 0 .. RetryLimit],
         \A i \in Intents : intent[i] \in {"absent", "awaitingApproval"} =>
           command'[i] = "none" /\ \A y \in Executors : executor'[y].intent # i,
         lookups' \in Nat, faults' \in Nat
  PROVE  IInv'
<1>1. UNCHANGED <<done, event, request, intent, policy, bound, approved, lease,
                  comments, late, arrived>>
  BY DEF analysis, record, remote
<1>2. TypeOK'
  BY <1>1 DEF IInv, TypeOK
<1>3. Untouched' /\ Awaiting' /\ ReadsInOrder' /\ LateCounted'
  BY <1>1 DEF IInv, Untouched, Awaiting, ReadsInOrder, LateCounted
<1> QED BY <1>2, <1>3 DEF IInv

-----------------------------------------------------------------------------
(* The invariant, step by step *)

\* Nothing has been requested yet.
LEMMA InitInvariant == Init => IInv
<1> SUFFICES ASSUME Init PROVE IInv
  OBVIOUS
<1>1. NoRequest \in [pc : {"idle", "read", "write"},
                     sawCompleted : BOOLEAN, sawResult : BOOLEAN]
      /\ NoRequest.sawCompleted = FALSE
  BY DEF NoRequest
<1>2. TypeOK
  <2>1. /\ request \in [Intents -> [pc : {"idle", "read", "write"},
                                    sawCompleted : BOOLEAN, sawResult : BOOLEAN]]
        /\ executor \in [Executors -> ExecutorStates]
    BY <1>1, IdleTyped DEF Init
  <2>2. /\ lease \in [Intents -> [token : Nat, live : BOOLEAN]]
        /\ late \in [Intents -> 0 .. MaxLate] /\ arrived \in [Intents -> 0 .. MaxLate]
        /\ retries \in [Intents -> 0 .. RetryLimit]
    BY PublicationAssumption DEF Init
  <2> QED BY <2>1, <2>2 DEF Init, TypeOK, IntentStates
<1>3. Serving /\ LateCounted /\ Awaiting /\ ReadsInOrder
  BY <1>1, IdleTyped, PublicationAssumption
     DEF Init, Serving, LateCounted, Awaiting, ReadsInOrder
<1>4. Untouched
  <2>1. \A x \in Executors, i \in Intents : executor[x].intent # i
    BY IdleTyped, PublicationAssumption DEF Init
  <2> QED BY <2>1 DEF Init, Untouched
<1> QED BY <1>2, <1>3, <1>4 DEF IInv

\* The job completes, its event is given up, or a request reads.
LEMMA AnalysisSteps ==
  ASSUME IInv,
         \/ AnalysisCompletes \/ CompletionDeadLettered
         \/ \E i \in Intents : RequestReadsJob(i) \/ RequestReadsResult(i)
  PROVE  IInv'
<1>1. UNCHANGED <<intent, policy, bound, approved, command, retries, lease, executor,
                  comments, late, arrived, lookups>>
  BY DEF AnalysisCompletes, CompletionDeadLettered, RequestReadsJob,
         RequestReadsResult, record, queue, remote, counters
<1>2. Serving' /\ LateCounted' /\ Untouched' /\ Awaiting'
  BY <1>1 DEF IInv, Serving, LateCounted, Untouched, Awaiting
<1>6. faults' \in Nat
  BY FaultTyped DEF IInv, TypeOK, AnalysisCompletes, CompletionDeadLettered,
       RequestReadsJob, RequestReadsResult, counters
<1> DEFINE Reads == [pc : {"idle", "read", "write"},
                     sawCompleted : BOOLEAN, sawResult : BOOLEAN]
<1>3. done \in BOOLEAN /\ request \in [Intents -> Reads]
  BY DEF IInv, TypeOK
<1>4. /\ done' \in BOOLEAN /\ event' \in {"none", "pending", "consumed", "dead"}
      /\ request' \in [Intents -> Reads] /\ ReadsInOrder'
  <2>1. CASE AnalysisCompletes
    BY <1>3, <2>1 DEF AnalysisCompletes, IInv, ReadsInOrder
  <2>5. CASE CompletionDeadLettered
    BY <1>3, <2>5 DEF CompletionDeadLettered, IInv, ReadsInOrder
  <2>2. ASSUME NEW i \in Intents, RequestReadsJob(i)
        PROVE  done' = done /\ event' = event
               /\ request' \in [Intents -> Reads] /\ ReadsInOrder'
    <3> DEFINE r == [pc |-> "read", sawCompleted |-> done, sawResult |-> FALSE]
    <3>1. r \in Reads /\ r.pc = "read" /\ r.sawCompleted = done
      BY <1>3
    <3>2. request' = [request EXCEPT ![i] = r] /\ UNCHANGED <<done, event>>
      BY <2>2 DEF RequestReadsJob, analysis
    <3> HIDE DEF r
    <3> QED BY <1>3, <3>1, <3>2 DEF IInv, ReadsInOrder
  <2>3. ASSUME NEW i \in Intents, RequestReadsResult(i)
        PROVE  done' = done /\ event' = event
               /\ request' \in [Intents -> Reads] /\ ReadsInOrder'
    <3> DEFINE r == [request[i] EXCEPT !.pc = "write", !.sawResult = done]
    <3>1. /\ r \in Reads /\ r.sawCompleted = request[i].sawCompleted
          /\ r.sawResult = done
      BY <1>3
    <3>2. request' = [request EXCEPT ![i] = r] /\ UNCHANGED <<done, event>>
      BY <1>3, <2>3 DEF RequestReadsResult, analysis
    <3> HIDE DEF r
    <3> QED BY <1>3, <3>1, <3>2 DEF IInv, ReadsInOrder
  <2> HIDE DEF Reads
  <2>4. event \in {"none", "pending", "consumed", "dead"}
    BY DEF IInv, TypeOK
  <2> QED BY <1>3, <2>1, <2>2, <2>3, <2>4, <2>5
<1>5. TypeOK'
  BY <1>1, <1>4, <1>6 DEF IInv, TypeOK
<1> QED BY <1>2, <1>4, <1>5 DEF IInv

\* A transaction on the records and the commands of the intents.
LEMMA RecordStep ==
  ASSUME IInv,
         UNCHANGED <<retries, lease, executor, remote, counters>>,
         request' \in [Intents -> [pc : {"idle", "read", "write"},
                                   sawCompleted : BOOLEAN, sawResult : BOOLEAN]],
         intent' \in [Intents -> IntentStates],
         policy' \in [Intents -> {"none", "approval", "automatic"}],
         bound' \in [Intents -> BOOLEAN], approved' \in [Intents -> BOOLEAN],
         command' \in [Intents -> {"none", "ready", "active", "done", "dead"}],
         done' = done, event' \in {"none", "pending", "consumed", "dead"},
         \A i \in Intents : intent'[i] \in {"absent", "awaitingApproval"} =>
           intent[i] \in {"absent", "awaitingApproval"} /\ command'[i] = command[i],
         Awaiting', ReadsInOrder'
  PROVE  IInv'
<1>1. UNCHANGED <<comments, late, arrived, lookups, faults>>
  BY DEF remote, counters
<1>2. TypeOK'
  BY <1>1 DEF IInv, TypeOK
<1>3. Serving' /\ LateCounted' /\ Untouched'
  BY <1>1 DEF IInv, Serving, LateCounted, Untouched
<1> QED BY <1>2, <1>3 DEF IInv

\* A new intent waits for approval if its profile asks for one.
LEMMA RequestCommitsPreserves ==
  ASSUME IInv, NEW i \in Intents, RequestCommits(i)
  PROVE  IInv'
<1> DEFINE Reads == [pc : {"idle", "read", "write"},
                     sawCompleted : BOOLEAN, sawResult : BOOLEAN]
           ready == {k \in {i} : request[i].sawCompleted /\ intent'[i] = "pending"}
<1>1. NoRequest \in Reads /\ NoRequest.sawCompleted = FALSE
  BY DEF NoRequest
<1>2. /\ request \in [Intents -> Reads] /\ bound \in [Intents -> BOOLEAN]
      /\ intent \in [Intents -> IntentStates]
      /\ policy \in [Intents -> {"none", "approval", "automatic"}]
      /\ approved \in [Intents -> BOOLEAN]
  BY DEF IInv, TypeOK
<1>3. request' = [request EXCEPT ![i] = NoRequest]
  BY DEF RequestCommits
<1>4. request' \in [Intents -> Reads]
  BY <1>1, <1>2, <1>3
<1>5. bound' \in [Intents -> BOOLEAN]
  BY <1>2 DEF RequestCommits
<1>6. \/ intent[i] # "absent" /\ UNCHANGED <<policy, intent>>
      \/ /\ intent[i] = "absent"
         /\ \/ /\ policy' = [policy EXCEPT ![i] = "approval"]
               /\ intent' = [intent EXCEPT ![i] = "awaitingApproval"]
            \/ /\ policy' = [policy EXCEPT ![i] = "automatic"]
               /\ intent' = [intent EXCEPT ![i] = "pending"]
  BY DEF RequestCommits
<1>7. /\ intent' \in [Intents -> IntentStates]
      /\ policy' \in [Intents -> {"none", "approval", "automatic"}]
      /\ \A k \in Intents \ {i} : intent'[k] = intent[k] /\ policy'[k] = policy[k]
  BY <1>2, <1>6 DEF IntentStates
<1>8. Enqueue(ready) /\ ready \in SUBSET Intents
  BY DEF RequestCommits
<1>9. UNCHANGED <<done, event, approved, retries, lease, executor, remote, counters>>
  BY DEF RequestCommits, analysis
<1>10. ReadsInOrder'
  BY <1>1, <1>2, <1>3, <1>9 DEF IInv, ReadsInOrder
<1>11. Awaiting'
  BY <1>2, <1>6, <1>7, <1>9 DEF IInv, Awaiting
<1>12. /\ command' \in [Intents -> {"none", "ready", "active", "done", "dead"}]
       /\ \A k \in Intents : command'[k] = IF k \in ready /\ command[k] = "none"
                                           THEN "ready" ELSE command[k]
  BY <1>8, EnqueueSays DEF IInv
<1>13. \A k \in Intents : intent'[k] \in {"absent", "awaitingApproval"} =>
         intent[k] \in {"absent", "awaitingApproval"} /\ command'[k] = command[k]
  BY <1>6, <1>7, <1>12
<1> QED BY <1>2, <1>4, <1>5, <1>7, <1>9, <1>10, <1>11, <1>12, <1>13, RecordStep
        DEF IInv, TypeOK

\* An approved intent leaves its waiting.
LEMMA ApprovePreserves ==
  ASSUME IInv, NEW i \in Intents, ApprovePublication(i)
  PROVE  IInv'
<1>1. /\ intent \in [Intents -> IntentStates] /\ approved \in [Intents -> BOOLEAN]
      /\ bound \in [Intents -> BOOLEAN]
  BY DEF IInv, TypeOK
<1>2. /\ intent' = [intent EXCEPT ![i] = "pending"]
      /\ approved' = [approved EXCEPT ![i] = TRUE]
      /\ UNCHANGED <<done, event, request, policy, bound, retries, lease, executor,
                     remote, counters>>
  BY DEF ApprovePublication, analysis
<1>3. intent' \in [Intents -> IntentStates] /\ approved' \in [Intents -> BOOLEAN]
  BY <1>1, <1>2 DEF IntentStates
<1> DEFINE ready == Ready(intent', bound) \intersect {i}
<1>4. Enqueue(ready) /\ ready \in SUBSET Intents
  BY DEF ApprovePublication
<1>5. /\ command' \in [Intents -> {"none", "ready", "active", "done", "dead"}]
      /\ \A k \in Intents : command'[k] = IF k \in ready /\ command[k] = "none"
                                          THEN "ready" ELSE command[k]
  BY <1>4, EnqueueSays DEF IInv
<1>6. \A k \in Intents : intent'[k] \in {"absent", "awaitingApproval"} =>
        intent[k] \in {"absent", "awaitingApproval"} /\ command'[k] = command[k]
  BY <1>1, <1>2, <1>5
<1>7. Awaiting' /\ ReadsInOrder'
  BY <1>1, <1>2 DEF IInv, Awaiting, ReadsInOrder
<1> QED BY <1>2, <1>3, <1>5, <1>6, <1>7, RecordStep DEF IInv, TypeOK

\* The consumer of analysis.completed.v1 binds, and enqueues what is pending.
LEMMA SchedulePreserves ==
  ASSUME IInv, SchedulePublication
  PROVE  IInv'
<1>1. bound' \in [Intents -> BOOLEAN]
  BY DEF IInv, TypeOK, SchedulePublication
<1>2. UNCHANGED <<done, request, intent, policy, approved, retries, lease, executor,
                  remote, counters>> /\ event = "pending" /\ event' \in {"pending", "consumed"}
  BY DEF SchedulePublication
<1>3. Enqueue(Ready(intent, bound')) /\ Ready(intent, bound') \in SUBSET Intents
  BY DEF SchedulePublication, Ready
<1>4. /\ command' \in [Intents -> {"none", "ready", "active", "done", "dead"}]
      /\ \A k \in Intents : command'[k] =
           IF k \in Ready(intent, bound') /\ command[k] = "none"
           THEN "ready" ELSE command[k]
  BY <1>3, EnqueueSays DEF IInv
<1>5. \A k \in Intents : intent'[k] \in {"absent", "awaitingApproval"} =>
        intent[k] \in {"absent", "awaitingApproval"} /\ command'[k] = command[k]
  BY <1>2, <1>4 DEF Ready
<1>6. Awaiting' /\ ReadsInOrder'
  BY <1>2 DEF IInv, Awaiting, ReadsInOrder
<1> QED BY <1>1, <1>2, <1>4, <1>5, <1>6, RecordStep DEF IInv, TypeOK

\* The executor's steps that leave the intent as it is.
LEMMA QuietHandlerSteps ==
  ASSUME IInv, NEW x \in Executors,
         \/ PrepareDeclines(x) \/ PrepareThrows(x) \/ Look(x) \/ DestinationThrows(x)
         \/ PostWritten(x) \/ PostUnknown(x) \/ Release(x) \/ ReleaseThrows(x)
  PROVE  IInv'
<1> DEFINE i == executor[x].intent
<1>1. executor[x].pc # "idle"
  BY DEF PrepareDeclines, PrepareThrows, Look, DestinationThrows, PostWritten,
         PostUnknown, Release, ReleaseThrows
<1>2. i \in Intents
  BY <1>1 DEF IInv, Serving
<1>3. intent[i] \notin {"absent", "awaitingApproval"}
  BY <1>2 DEF IInv, Untouched
<1>4. PICK pc \in Pcs \ {"idle"} : Goto(x, pc) \/ Throw(x, pc)
  <2>1. CASE Look(x)
    BY <2>1 DEF Look, Pcs
  <2>2. CASE ~Look(x)
    BY <2>2 DEF PrepareDeclines, PrepareThrows, DestinationThrows, PostWritten,
                PostUnknown, Release, ReleaseThrows, Pcs
  <2> QED BY <2>1, <2>2
<1>5. UNCHANGED <<analysis, request, intent, policy, bound, approved, queue, lookups,
                  arrived>>
  BY DEF PrepareDeclines, PrepareThrows, Look, DestinationThrows, PostWritten,
         PostUnknown, Release, ReleaseThrows, record, remote, counters
<1>6. /\ lease \in [Intents -> [token : Nat, live : BOOLEAN]]
      /\ comments \in [Intents -> Nat] /\ late \in [Intents -> 0 .. MaxLate]
      /\ arrived \in [Intents -> 0 .. MaxLate] /\ faults \in Nat
  BY DEF IInv, TypeOK
<1>7. lease' \in [Intents -> [token : Nat, live : BOOLEAN]]
  <2>1. [token |-> 0, live |-> FALSE] \in [token : Nat, live : BOOLEAN]
    OBVIOUS
  <2>2. lease' = lease \/ lease' = [lease EXCEPT ![i] = [token |-> 0, live |-> FALSE]]
    BY DEF PrepareDeclines, PrepareThrows, Look, DestinationThrows, PostWritten,
           PostUnknown, Release, ReleaseThrows
  <2> QED BY <1>6, <2>1, <2>2
<1>8. comments' = comments \/ comments' = [comments EXCEPT ![i] = @ + 1]
  BY DEF PrepareDeclines, PrepareThrows, Look, DestinationThrows, PostWritten,
         PostUnknown, Release, ReleaseThrows, remote
<1>9. \/ late' = late
      \/ late[i] + arrived[i] < MaxLate /\ late' = [late EXCEPT ![i] = @ + 1]
  BY DEF PrepareDeclines, PrepareThrows, Look, DestinationThrows, PostWritten,
         PostUnknown, Release, ReleaseThrows, remote
<1>10. /\ comments' \in [Intents -> Nat]
       /\ \A k \in Intents \ {i} : comments'[k] = comments[k]
  BY <1>2, <1>6, <1>8
<1>11. /\ late' \in [Intents -> 0 .. MaxLate] /\ LateCounted'
       /\ \A k \in Intents \ {i} : late'[k] = late[k]
  <2>1. CASE late' = late
    BY <1>5, <1>6, <2>1 DEF IInv, LateCounted
  <2>2. CASE late[i] + arrived[i] < MaxLate /\ late' = [late EXCEPT ![i] = @ + 1]
    <3>1. MaxLate \in Nat /\ late[i] \in Nat /\ arrived[i] \in Nat
      BY <1>2, <1>6, PublicationAssumption
    <3>2. late[i] + 1 \in 0 .. MaxLate /\ late[i] + 1 + arrived[i] <= MaxLate
      BY <2>2, <3>1
    <3>3. late'[i] = late[i] + 1 /\ \A k \in Intents \ {i} : late'[k] = late[k]
      BY <1>2, <1>6, <2>2
    <3>4. late' \in [Intents -> 0 .. MaxLate]
      BY <1>6, <2>2, <3>2
    <3> QED BY <1>5, <3>2, <3>3, <3>4 DEF IInv, LateCounted
  <2> QED BY <1>9, <2>1, <2>2
<1>12. faults' \in Nat
  BY <1>6, FaultTyped
     DEF IInv, PrepareDeclines, PrepareThrows, Look, DestinationThrows, PostWritten,
         PostUnknown, Release, ReleaseThrows, counters
<1> HIDE DEF i
<1>13. intent' \in [Intents -> IntentStates] /\ intent'[i] = intent[i]
       /\ \A k \in Intents \ {i} : intent'[k] = intent[k]
  BY <1>5 DEF IInv, TypeOK
<1> QED BY <1>1, <1>3, <1>4, <1>5, <1>7, <1>10, <1>11, <1>12, <1>13, HandlerStep DEF i

\* Those that write the state of the intent.
LEMMA PreparePreserves ==
  ASSUME IInv, NEW x \in Executors, Prepare(x)
  PROVE  IInv'
<1> DEFINE i == executor[x].intent
           ready == [executor[x] EXCEPT !.pc = "looking", !.token = lease[i].token + 1]
<1>1. i \in Intents
  BY DEF IInv, Serving, Prepare
<1>2. /\ executor \in [Executors -> ExecutorStates]
      /\ lease \in [Intents -> [token : Nat, live : BOOLEAN]]
      /\ intent \in [Intents -> IntentStates]
  BY DEF IInv, TypeOK
<1>3. lease[i].token + 1 \in Nat
  BY <1>1, <1>2
<1>4. ready \in ExecutorStates /\ ready.intent = i /\ ready.pc = "looking"
  BY <1>2, <1>3 DEF ExecutorStates
<1>5. executor' = [executor EXCEPT ![x] = ready]
  BY <1>2 DEF Prepare
<1>6. lease' = [lease EXCEPT ![i] = [token |-> @.token + 1, live |-> TRUE]]
  BY DEF Prepare, Acquired
<1>7. lease' \in [Intents -> [token : Nat, live : BOOLEAN]]
  BY <1>1, <1>2, <1>3, <1>6
<1>8. intent' = [intent EXCEPT ![i] = "publishing"]
      /\ UNCHANGED <<analysis, request, policy, bound, approved, queue, remote, counters>>
  BY DEF Prepare
<1>9. UNCHANGED <<done, event, request, policy, bound, approved, command, retries,
                  comments, late, arrived, lookups, faults>>
  BY <1>8 DEF analysis, queue, remote, counters
<1>10. intent' \in [Intents -> IntentStates]
  BY <1>2, <1>8 DEF IntentStates
<1> HIDE DEF ready, i
<1>11. executor' \in [Executors -> ExecutorStates] /\ Serving'
  BY <1>1, <1>2, <1>4, <1>5 DEF IInv, Serving
<1>12. TypeOK'
  BY <1>7, <1>9, <1>10, <1>11 DEF IInv, TypeOK
<1>13. intent[i] \notin {"absent", "awaitingApproval"}
  BY <1>1 DEF IInv, Untouched, i
<1>14. \A y \in Executors : executor'[y].intent = executor[y].intent
  BY <1>2, <1>4, <1>5 DEF i
<1>15. Untouched'
  BY <1>2, <1>8, <1>9, <1>14 DEF IInv, Untouched
<1>16. Awaiting' /\ ReadsInOrder' /\ LateCounted'
  BY <1>2, <1>8, <1>9, <1>13 DEF IInv, Awaiting, ReadsInOrder, LateCounted
<1> QED BY <1>11, <1>12, <1>15, <1>16 DEF IInv

\* The same transaction, whose answer is lost.
LEMMA AnswerLostPreserves ==
  ASSUME IInv, NEW x \in Executors, PrepareAnswerLost(x)
  PROVE  IInv'
<1> DEFINE i == executor[x].intent
<1>1. i \in Intents /\ executor[x].pc # "idle"
  BY DEF IInv, Serving, PrepareAnswerLost
<1>2. /\ lease \in [Intents -> [token : Nat, live : BOOLEAN]]
      /\ intent \in [Intents -> IntentStates]
      /\ comments \in [Intents -> Nat] /\ late \in [Intents -> 0 .. MaxLate]
  BY DEF IInv, TypeOK
<1>3. lease' = [lease EXCEPT ![i] = [token |-> @.token + 1, live |-> TRUE]]
  BY DEF PrepareAnswerLost, Acquired
<1>4. lease' \in [Intents -> [token : Nat, live : BOOLEAN]]
  BY <1>1, <1>2, <1>3
<1>5. intent' = [intent EXCEPT ![i] = "publishing"]
      /\ UNCHANGED <<analysis, request, policy, bound, approved, queue, remote, lookups>>
  BY DEF PrepareAnswerLost
<1>6. Throw(x, "answering") /\ "answering" \in Pcs \ {"idle"} /\ faults' \in Nat
  BY FaultTyped DEF PrepareAnswerLost, Pcs, IInv
<1>7. UNCHANGED <<comments, late, arrived>> /\ LateCounted'
  BY <1>5 DEF remote, IInv, LateCounted
<1> HIDE DEF i
<1>8. /\ intent' \in [Intents -> IntentStates] /\ intent'[i] = "publishing"
      /\ \A k \in Intents \ {i} : intent'[k] = intent[k]
  BY <1>1, <1>2, <1>5 DEF IntentStates
<1> QED BY <1>1, <1>2, <1>4, <1>5, <1>6, <1>7, <1>8, HandlerStep DEF i

\* The state that a recording executor writes.
LEMMA RecordingSays ==
  /\ DOMAIN Recording = {"recordPublished", "recordUnknown", "recordFailure"}
  /\ Recording["recordPublished"] = "published"
  /\ Recording["recordUnknown"] = "outcomeUnknown"
  /\ Recording["recordFailure"] = "failed"
BY DEF Recording

\* Recording ends in a decided state.
LEMMA RecordPreserves ==
  ASSUME IInv, NEW x \in Executors, Record(x) \/ RecordThrows(x)
  PROVE  IInv'
<1> DEFINE i == executor[x].intent
           new == Recording[executor[x].pc]
<1>1. /\ executor[x].pc \in {"recordPublished", "recordUnknown", "recordFailure"}
      /\ new \in {"published", "outcomeUnknown", "failed"}
  BY RecordingSays DEF Record, RecordThrows
<1>2. i \in Intents
  BY <1>1 DEF IInv, Serving
<1>3. intent[i] \notin {"absent", "awaitingApproval"}
  BY <1>2 DEF IInv, Untouched
<1>4. PICK pc \in Pcs \ {"idle"} : Goto(x, pc) \/ Throw(x, pc)
  <2>1. CASE Record(x)
    BY <2>1 DEF Record, Pcs
  <2>2. CASE RecordThrows(x)
    BY <2>2 DEF RecordThrows, Pcs
  <2> QED BY <2>1, <2>2
<1>5. UNCHANGED <<analysis, request, policy, bound, approved, queue, lease, comments,
                  late, arrived, lookups>>
  BY DEF Record, RecordThrows, remote, counters
<1>6. intent' = intent \/ intent' = [intent EXCEPT ![i] = new]
  BY DEF Record, RecordThrows
<1>7. faults' \in Nat
  BY FaultTyped DEF IInv, TypeOK, Record, RecordThrows, counters
<1> HIDE DEF i, new
<1>8. /\ intent' \in [Intents -> IntentStates]
      /\ intent'[i] \notin {"absent", "awaitingApproval"}
      /\ \A k \in Intents \ {i} : intent'[k] = intent[k]
  BY <1>1, <1>2, <1>3, <1>6 DEF IInv, TypeOK, IntentStates, Decided
<1>9. LateCounted' /\ lease' = lease /\ comments' = comments
  BY <1>5 DEF IInv, LateCounted
<1>10. /\ lease \in [Intents -> [token : Nat, live : BOOLEAN]]
       /\ comments \in [Intents -> Nat] /\ late \in [Intents -> 0 .. MaxLate]
  BY DEF IInv, TypeOK
<1>11. executor[x].pc # "idle"
  BY <1>1
<1> QED BY <1>4, <1>5, <1>7, <1>8, <1>9, <1>10, <1>11, HandlerStep DEF i

-----------------------------------------------------------------------------

\* An executor that takes up an intent.
LEMMA FetchSays ==
  ASSUME NEW x \in Executors, NEW i \in Intents, Fetch(x, i) \/ Reconcile(x, i)
  PROVE  \E begun \in ExecutorStates :
           /\ begun.pc = "preparing" /\ begun.intent = i
           /\ Fetch(x, i) => begun.delivery
           /\ executor' = [executor EXCEPT ![x] = begun]
<1>1. CASE Fetch(x, i)
  <2> DEFINE begun == [Idle EXCEPT !.pc = "preparing", !.intent = i, !.delivery = TRUE]
  <2>1. /\ begun \in ExecutorStates /\ begun.pc = "preparing" /\ begun.intent = i
        /\ begun.delivery
    BY DEF Idle, ExecutorStates
  <2>2. executor' = [executor EXCEPT ![x] = begun]
    BY <1>1 DEF Fetch
  <2> HIDE DEF begun
  <2> QED BY <2>1, <2>2
<1>2. CASE Reconcile(x, i) /\ ~Fetch(x, i)
  <2> DEFINE begun == [Idle EXCEPT !.pc = "preparing", !.intent = i]
  <2>1. begun \in ExecutorStates /\ begun.pc = "preparing" /\ begun.intent = i
    BY DEF Idle, ExecutorStates
  <2>2. executor' = [executor EXCEPT ![x] = begun]
    BY <1>2 DEF Reconcile
  <2> HIDE DEF begun
  <2> QED BY <1>2, <2>1, <2>2
<1> QED BY <1>1, <1>2

\* Only intents that left their waiting are taken up.
LEMMA FetchPreserves ==
  ASSUME IInv, NEW x \in Executors, NEW i \in Intents, Fetch(x, i) \/ Reconcile(x, i)
  PROVE  IInv'
<1>1. PICK begun \in ExecutorStates :
        begun.intent = i /\ executor' = [executor EXCEPT ![x] = begun]
  BY FetchSays
<1>3. executor \in [Executors -> ExecutorStates]
  BY DEF IInv, TypeOK
<1>4. intent[i] \notin {"absent", "awaitingApproval"}
  BY DEF Fetch, Reconcile, IInv, Untouched
<1>5. /\ command' = command \/ command' = [command EXCEPT ![i] = "active"]
      /\ UNCHANGED <<analysis, request, record, retries, lease, remote>>
  BY DEF Fetch, Reconcile, queue
<1>6. command' \in [Intents -> {"none", "ready", "active", "done", "dead"}]
      /\ \A k \in Intents \ {i} : command'[k] = command[k]
  BY <1>5 DEF IInv, TypeOK
<1>7. lookups' \in Nat /\ faults' \in Nat
  BY DEF Fetch, Reconcile, IInv, TypeOK, counters
<1>8. /\ executor' \in [Executors -> ExecutorStates]
      /\ \A y \in Executors : executor'[y].intent \in {i, executor[y].intent}
      /\ Serving'
  BY <1>1, <1>3 DEF IInv, Serving
<1>9. \A k \in Intents : intent[k] \in {"absent", "awaitingApproval"} =>
        command'[k] = "none" /\ \A y \in Executors : executor'[y].intent # k
  BY <1>4, <1>6, <1>8 DEF IInv, Untouched
<1>10. retries' \in [Intents -> 0 .. RetryLimit]
  BY <1>5 DEF IInv, TypeOK
<1> QED BY <1>5, <1>6, <1>7, <1>8, <1>9, <1>10, QueueStep

\* The executor is done with its intent, or dead.
LEMMA AnswerPreserves ==
  ASSUME IInv, NEW x \in Executors, Answer(x) \/ Crash(x)
  PROVE  IInv'
<1> DEFINE i == executor[x].intent
<1>1. i \in Intents
  BY DEF IInv, Serving, Answer, Crash
<1>2. intent[i] \notin {"absent", "awaitingApproval"}
  BY <1>1 DEF IInv, Untouched
<1>3. /\ command \in [Intents -> {"none", "ready", "active", "done", "dead"}]
      /\ retries \in [Intents -> 0 .. RetryLimit]
      /\ executor \in [Executors -> ExecutorStates] /\ lookups \in Nat /\ faults \in Nat
  BY DEF IInv, TypeOK
<1>4. \/ UNCHANGED queue
      \/ Redeliver(i)
      \/ command' = [command EXCEPT ![i] = "done"] /\ UNCHANGED retries
  BY DEF Answer, Crash
<1>5. /\ command' \in [Intents -> {"none", "ready", "active", "done", "dead"}]
      /\ retries' \in [Intents -> 0 .. RetryLimit]
      /\ \A k \in Intents \ {i} : command'[k] = command[k]
  <2>1. CASE UNCHANGED queue
    BY <1>3, <2>1 DEF queue
  <2>2. CASE Redeliver(i)
    BY <1>1, <2>2, RedeliverSays DEF IInv
  <2>3. CASE command' = [command EXCEPT ![i] = "done"] /\ UNCHANGED retries
    BY <1>1, <1>3, <2>3
  <2> QED BY <1>4, <2>1, <2>2, <2>3
<1>6. /\ executor' = [executor EXCEPT ![x] = Idle]
      /\ UNCHANGED <<analysis, request, record, lease, remote, lookups>>
  BY DEF Answer, Crash, counters
<1>7. faults' \in Nat
  BY FaultTyped DEF IInv, TypeOK, Answer, Crash, counters
<1>8. /\ executor' \in [Executors -> ExecutorStates] /\ Serving'
      /\ \A y \in Executors : executor'[y].intent \in {NoIntent, executor[y].intent}
  BY <1>3, <1>6, IdleTyped DEF IInv, Serving
<1> HIDE DEF i
<1>9. \A k \in Intents : intent[k] \in {"absent", "awaitingApproval"} =>
        command'[k] = "none" /\ \A y \in Executors : executor'[y].intent # k
  BY <1>2, <1>5, <1>8, PublicationAssumption DEF IInv, Untouched
<1> QED BY <1>3, <1>5, <1>6, <1>7, <1>8, <1>9, QueueStep

\* The handlers of an expired delivery go on.
LEMMA ExpireDeliveryPreserves ==
  ASSUME IInv, NEW i \in Intents, ExpireDelivery(i)
  PROVE  IInv'
<1>1. executor \in [Executors -> ExecutorStates]
  BY DEF IInv, TypeOK
<1>2. /\ executor' \in [Executors -> ExecutorStates]
      /\ \A y \in Executors : /\ executor'[y].intent = executor[y].intent
                              /\ executor'[y].pc = executor[y].pc
  <2>1. executor' = [y \in Executors |->
                       IF Delivering(y, i)
                       THEN [executor[y] EXCEPT !.expired = TRUE] ELSE executor[y]]
    BY DEF ExpireDelivery
  <2> QED BY <1>1, <2>1 DEF ExecutorStates
<1>3. Redeliver(i)
  BY DEF ExpireDelivery
<1>4. /\ command' \in [Intents -> {"none", "ready", "active", "done", "dead"}]
      /\ retries' \in [Intents -> 0 .. RetryLimit]
      /\ \A k \in Intents \ {i} : command'[k] = command[k]
  BY <1>3, RedeliverSays DEF IInv
<1>5. intent[i] \notin {"absent", "awaitingApproval"}
  BY DEF ExpireDelivery, IInv, Untouched
<1>6. \A k \in Intents : intent[k] \in {"absent", "awaitingApproval"} =>
        command'[k] = "none" /\ \A y \in Executors : executor'[y].intent # k
  BY <1>2, <1>4, <1>5 DEF IInv, Untouched
<1>7. Serving'
  BY <1>2 DEF IInv, Serving
<1>8. /\ UNCHANGED <<analysis, request, record, lease, remote>>
      /\ lookups' \in Nat /\ faults' \in Nat
  BY FaultTyped DEF ExpireDelivery, IInv, TypeOK
<1> QED BY <1>2, <1>4, <1>6, <1>7, <1>8, QueueStep

\* A lease that runs out changes nothing else.
LEMMA LeaseExpiresPreserves ==
  ASSUME IInv, NEW i \in Intents, LeaseExpires(i)
  PROVE  IInv'
<1>1. lease' \in [Intents -> [token : Nat, live : BOOLEAN]] /\ faults' \in Nat
  <2>1. lease \in [Intents -> [token : Nat, live : BOOLEAN]] /\ faults \in Nat
    BY DEF IInv, TypeOK
  <2>2. lease' = [lease EXCEPT ![i].live = FALSE] /\ (Fault \/ UNCHANGED faults)
    BY DEF LeaseExpires
  <2> QED BY <2>1, <2>2, FaultTyped DEF IInv
<1>2. UNCHANGED <<done, event, request, intent, policy, bound, approved, command,
                  retries, executor, comments, late, arrived, lookups>>
  BY DEF LeaseExpires, analysis, record, queue, remote
<1>3. TypeOK'
  BY <1>1, <1>2 DEF IInv, TypeOK
<1> QED BY <1>2, <1>3 DEF IInv, Serving, LateCounted, Untouched, Awaiting, ReadsInOrder

\* A late write was sent by an executor: its intent is not waiting.
LEMMA LateWritePreserves ==
  ASSUME IInv, NEW i \in Intents, LateWriteArrives(i)
  PROVE  IInv'
<1>1. /\ late \in [Intents -> 0 .. MaxLate] /\ arrived \in [Intents -> 0 .. MaxLate]
      /\ comments \in [Intents -> Nat] /\ MaxLate \in Nat
  BY PublicationAssumption DEF IInv, TypeOK
<1>2. /\ late' = [late EXCEPT ![i] = @ - 1]
      /\ arrived' = [arrived EXCEPT ![i] = @ + 1]
      /\ comments' = [comments EXCEPT ![i] = @ + 1]
      /\ late[i] > 0
      /\ UNCHANGED <<done, event, request, intent, policy, bound, approved, command,
                     retries, lease, executor, lookups, faults>>
  BY DEF LateWriteArrives, analysis, record, queue, counters
<1>3. late[i] + arrived[i] <= MaxLate
  BY DEF IInv, LateCounted
<1>4. late[i] - 1 \in 0 .. MaxLate /\ arrived[i] + 1 \in 0 .. MaxLate
      /\ late[i] - 1 + (arrived[i] + 1) <= MaxLate
  BY <1>1, <1>2, <1>3
<1>5. /\ late' \in [Intents -> 0 .. MaxLate] /\ arrived' \in [Intents -> 0 .. MaxLate]
      /\ comments' \in [Intents -> Nat]
  BY <1>1, <1>2, <1>4
<1>6. TypeOK'
  BY <1>2, <1>5 DEF IInv, TypeOK
<1>7. LateCounted'
  BY <1>1, <1>2, <1>4 DEF IInv, LateCounted
<1>8. intent[i] \notin {"absent", "awaitingApproval"}
  BY <1>2 DEF IInv, Untouched
<1>9. Untouched'
  BY <1>1, <1>2, <1>8 DEF IInv, Untouched
<1> QED BY <1>2, <1>6, <1>7, <1>9 DEF IInv, Serving, Awaiting, ReadsInOrder

\* Each step preserves the invariant.
LEMMA Invariance == IInv /\ [Next]_vars => IInv'
<1> SUFFICES ASSUME IInv, [Next]_vars PROVE IInv'
  OBVIOUS
<1>1. CASE UNCHANGED vars
  BY <1>1 DEF vars, analysis, record, queue, remote, counters, IInv, TypeOK, Serving,
         LateCounted, Untouched, Awaiting, ReadsInOrder
<1>2. CASE Next
  <2>1. CASE AnalysisCompletes \/ CompletionDeadLettered
    BY <2>1, AnalysisSteps
  <2>2. CASE SchedulePublication
    BY <2>2, SchedulePreserves
  <2>3. ASSUME NEW i \in Intents,
               \/ Request(i) \/ ApprovePublication(i) \/ ExpireDelivery(i)
               \/ LeaseExpires(i) \/ LateWriteArrives(i)
        PROVE  IInv'
    BY <2>3, AnalysisSteps, RequestCommitsPreserves, ApprovePreserves,
       ExpireDeliveryPreserves, LeaseExpiresPreserves, LateWritePreserves DEF Request
  <2>4. ASSUME NEW i \in Intents, NEW x \in Executors, Fetch(x, i) \/ Reconcile(x, i)
        PROVE  IInv'
    BY <2>4, FetchPreserves
  <2>5. ASSUME NEW x \in Executors, Execute(x) \/ Crash(x)
        PROVE  IInv'
    BY <2>5, QuietHandlerSteps, PreparePreserves, RecordPreserves, AnswerPreserves
       DEF Execute
  <2>6. ASSUME NEW x \in Executors,
               PrepareThrows(x) \/ PrepareAnswerLost(x) \/ ReleaseThrows(x)
        PROVE  IInv'
    BY <2>6, QuietHandlerSteps, AnswerLostPreserves
  <2> QED BY <1>2, <2>1, <2>2, <2>3, <2>4, <2>5, <2>6 DEF Next
<1> QED BY <1>1, <1>2

\* It holds in every reachable state.
LEMMA Invariant == Spec => []IInv
BY InitInvariant, Invariance, PTL DEF Spec

\* The rows, the queue, the executors and the case stay within their types.
THEOREM TypeCorrect == Spec => []TypeOK
<1>1. IInv => TypeOK
  BY DEF IInv
<1> QED BY <1>1, Invariant, PTL

-----------------------------------------------------------------------------
(* Approval *)

\* Nothing is sent or written for an intent that waits for approval: whatever has
\* happened for an intent happened after it left its waiting (Untouched).
THEOREM ApprovalFirst == Spec => []NothingWithoutApproval
<1>1. IInv => NothingWithoutApproval
  <2> SUFFICES ASSUME IInv, NEW i \in Intents,
                      policy[i] = "approval", ~approved[i]
               PROVE  command[i] = "none" /\ ~(comments[i] > 0)
    BY DEF NothingWithoutApproval, IInv, TypeOK
  <2>1. intent[i] = "awaitingApproval"
    BY DEF IInv, Awaiting
  <2> QED BY <2>1 DEF IInv, Untouched
<1> QED BY <1>1, Invariant, PTL

-----------------------------------------------------------------------------
(* Exclusion, in the system as it is wired: nothing reconciles *)

Wired == \A b \in Bounds : b.lookups = 0

\* Every executor runs a delivery.
Delivers == \A x \in Executors : executor[x].pc # "idle" => executor[x].delivery

\* One executor at a time is between preparing and recording an intent; if the
\* answer to its recording is lost, the state it wrote is one that nobody leaves.
Alone ==
  \A i \in Intents, x \in Executors :
    Publishing(x, i) =>
      /\ \A y \in Executors : Publishing(y, i) => y = x
      /\ \/ intent[i] = "publishing"
         \/ /\ executor[x].pc = "recordFailure"
            /\ intent[i] \in {"published", "outcomeUnknown"}

\* Who is about to write has found no comment but those that came late since; who
\* records the intent as published has seen one.
Looked ==
  \A x \in Executors, i \in Intents :
    executor[x].intent = i =>
      /\ executor[x].pc = "posting" => comments[i] <= arrived[i]
      /\ executor[x].pc = "recordPublished" => comments[i] > 0

WInv == IInv /\ Delivers /\ Alone /\ Looked /\ PublishedOnce

PublishingPcs == {"looking", "posting", "recordPublished", "recordUnknown",
                  "recordFailure"}

\* Who publishes an intent, by its program counter.
LEMMA PublishingSays ==
  ASSUME NEW x, NEW i
  PROVE  /\ Publishing(x, i) <=> executor[x].intent = i /\ executor[x].pc \in PublishingPcs
         /\ Publishing(x, i)' <=> executor'[x].intent = i /\ executor'[x].pc \in PublishingPcs
BY RecordingSays DEF Publishing, PublishingPcs

\* Steps of others than the executors.
LEMMA StillPreserves ==
  ASSUME WInv, IInv',
         \A x \in Executors : /\ executor'[x].pc = executor[x].pc
                              /\ executor'[x].intent = executor[x].intent
                              /\ executor'[x].delivery = executor[x].delivery,
         comments' = comments, arrived' = arrived,
         \A i \in Intents : \/ intent'[i] = intent[i]
                            \/ /\ intent[i] \in {"absent", "awaitingApproval"}
                               /\ intent'[i] \in {"awaitingApproval", "pending"}
  PROVE  WInv'
<1>1. Delivers'
  BY DEF WInv, Delivers
<1>2. \A i \in Intents, x \in Executors : Publishing(x, i)' <=> Publishing(x, i)
  BY PublishingSays
<1>3. Alone'
  <2> SUFFICES ASSUME NEW i \in Intents, NEW x \in Executors, Publishing(x, i)'
               PROVE  /\ \A y \in Executors : Publishing(y, i)' => y = x
                      /\ \/ intent'[i] = "publishing"
                         \/ /\ executor'[x].pc = "recordFailure"
                            /\ intent'[i] \in {"published", "outcomeUnknown"}
    BY DEF Alone
  <2> QED BY <1>2 DEF WInv, Alone
<1>4. Looked' /\ PublishedOnce'
  BY DEF WInv, Looked, PublishedOnce
<1> QED BY <1>1, <1>3, <1>4 DEF WInv

\* A step of one executor.
LEMMA MovePreserves ==
  ASSUME WInv, IInv', NEW x \in Executors, NEW i \in Intents,
         executor'[x].pc # "idle" => executor'[x].intent = i /\ executor'[x].delivery,
         \A y \in Executors \ {x} : executor'[y] = executor[y],
         \A k \in Intents \ {i} : intent'[k] = intent[k] /\ comments'[k] = comments[k],
         arrived' = arrived,
         \A y \in Executors \ {x} : Publishing(y, i) =>
           intent'[i] = intent[i] /\ comments'[i] = comments[i] /\ ~Publishing(x, i)',
         Publishing(x, i)' => \/ intent'[i] = "publishing"
                              \/ /\ executor'[x].pc = "recordFailure"
                                 /\ intent'[i] \in {"published", "outcomeUnknown"},
         executor'[x].pc = "posting" => comments'[i] <= arrived[i],
         executor'[x].pc = "recordPublished" => comments'[i] > 0,
         comments'[i] <= 1 + arrived[i],
         intent'[i] = "published" => comments'[i] > 0
  PROVE  WInv'
<1>1. Delivers'
  BY DEF WInv, Delivers
<1>2. \A k \in Intents, y \in Executors \ {x} : Publishing(y, k)' <=> Publishing(y, k)
  BY PublishingSays
<1>3. \A k \in Intents : Publishing(x, k)' => k = i
  <2> SUFFICES ASSUME NEW k \in Intents, Publishing(x, k)' PROVE k = i
    OBVIOUS
  <2>1. executor'[x].intent = k /\ executor'[x].pc # "idle"
    BY PublishingSays DEF PublishingPcs
  <2> QED BY <2>1
<1>4. Alone'
  <2> SUFFICES ASSUME NEW k \in Intents, NEW y \in Executors, Publishing(y, k)'
               PROVE  /\ \A z \in Executors : Publishing(z, k)' => z = y
                      /\ \/ intent'[k] = "publishing"
                         \/ /\ executor'[y].pc = "recordFailure"
                            /\ intent'[k] \in {"published", "outcomeUnknown"}
    BY DEF Alone
  <2>1. CASE y = x
    BY <1>2, <1>3, <2>1
  <2>2. CASE y # x
    <3>1. Publishing(y, k)
      BY <1>2, <2>2
    <3>2. /\ \A z \in Executors : Publishing(z, k) => z = y
          /\ \/ intent[k] = "publishing"
             \/ /\ executor[y].pc = "recordFailure"
                /\ intent[k] \in {"published", "outcomeUnknown"}
      BY <3>1 DEF WInv, Alone
    <3>3. intent'[k] = intent[k] /\ executor'[y] = executor[y] /\ ~Publishing(x, k)'
      BY <1>3, <2>2, <3>1
    <3> QED BY <1>2, <3>2, <3>3
  <2> QED BY <2>1, <2>2
<1>5. Looked'
  <2> SUFFICES ASSUME NEW y \in Executors, NEW k \in Intents, executor'[y].intent = k
               PROVE  /\ executor'[y].pc = "posting" => comments'[k] <= arrived[k]
                      /\ executor'[y].pc = "recordPublished" => comments'[k] > 0
    BY DEF Looked
  <2>1. CASE y = x
    BY <2>1
  <2>2. CASE y # x
    <3>1. executor[y] = executor'[y]
      BY <2>2
    <3>2. CASE executor[y].pc \in {"posting", "recordPublished"}
      <4>1. Publishing(y, k)
        BY <3>1, <3>2, PublishingSays DEF PublishingPcs
      <4>2. comments'[k] = comments[k]
        BY <2>2, <4>1
      <4> QED BY <3>1, <4>2 DEF WInv, Looked
    <3> QED BY <3>1, <3>2
  <2> QED BY <2>1, <2>2
<1>6. PublishedOnce'
  BY DEF WInv, PublishedOnce
<1> QED BY <1>1, <1>4, <1>5, <1>6 DEF WInv

\* Requests, approvals and the queue do not touch an intent that is publishing.
LEMMA OthersPreserve ==
  ASSUME WInv, IInv',
         \/ AnalysisCompletes \/ SchedulePublication \/ CompletionDeadLettered
         \/ \E i \in Intents : \/ Request(i) \/ ApprovePublication(i)
                               \/ ExpireDelivery(i) \/ LeaseExpires(i)
  PROVE  WInv'
<1>1. comments' = comments /\ arrived' = arrived
  BY DEF AnalysisCompletes, CompletionDeadLettered, SchedulePublication, Request,
         RequestReadsJob, RequestReadsResult, RequestCommits, ApprovePublication,
         ExpireDelivery, LeaseExpires, remote
<1>2. \A x \in Executors : /\ executor'[x].pc = executor[x].pc
                           /\ executor'[x].intent = executor[x].intent
                           /\ executor'[x].delivery = executor[x].delivery
  <2>1. CASE executor' = executor
    BY <2>1
  <2>2. CASE \E i \in Intents : ExpireDelivery(i)
    <3>1. executor \in [Executors -> ExecutorStates]
      BY DEF WInv, IInv, TypeOK
    <3> QED BY <2>2, <3>1 DEF ExpireDelivery, ExecutorStates
  <2> QED BY <2>1, <2>2
          DEF AnalysisCompletes, CompletionDeadLettered, SchedulePublication, Request,
              RequestReadsJob, RequestReadsResult, RequestCommits, ApprovePublication,
              LeaseExpires
<1>3. \A i \in Intents : \/ intent'[i] = intent[i]
                         \/ /\ intent[i] \in {"absent", "awaitingApproval"}
                            /\ intent'[i] \in {"awaitingApproval", "pending"}
  <2>1. CASE intent' = intent
    BY <2>1
  <2>2. ASSUME NEW i \in Intents, RequestCommits(i) \/ ApprovePublication(i)
        PROVE  /\ \A k \in Intents \ {i} : intent'[k] = intent[k]
               /\ \/ intent'[i] = intent[i]
                  \/ /\ intent[i] \in {"absent", "awaitingApproval"}
                     /\ intent'[i] \in {"awaitingApproval", "pending"}
    <3>1. intent \in [Intents -> IntentStates]
      BY DEF WInv, IInv, TypeOK
    <3>2. CASE RequestCommits(i)
      <4>1. \/ intent' = intent
            \/ /\ intent[i] = "absent"
               /\ \/ intent' = [intent EXCEPT ![i] = "awaitingApproval"]
                  \/ intent' = [intent EXCEPT ![i] = "pending"]
        BY <3>2 DEF RequestCommits
      <4> QED BY <3>1, <4>1
    <3>3. CASE ApprovePublication(i)
      BY <3>1, <3>3 DEF ApprovePublication
    <3> QED BY <2>2, <3>2, <3>3
  <2> QED BY <2>1, <2>2
          DEF AnalysisCompletes, CompletionDeadLettered, SchedulePublication, Request,
              RequestReadsJob, RequestReadsResult, ExpireDelivery, LeaseExpires, record
<1> QED BY <1>1, <1>2, <1>3, StillPreserves

\* A late write is counted on both sides.
LEMMA LateWriteKeepsOrder ==
  ASSUME WInv, IInv', NEW i \in Intents, LateWriteArrives(i)
  PROVE  WInv'
<1>1. comments \in [Intents -> Nat] /\ arrived \in [Intents -> 0 .. MaxLate]
  BY DEF WInv, IInv, TypeOK
<1>2. /\ arrived' = [arrived EXCEPT ![i] = @ + 1]
      /\ comments' = [comments EXCEPT ![i] = @ + 1]
      /\ intent' = intent /\ executor' = executor
  BY DEF LateWriteArrives, record
<1>3. \A k \in Intents :
        /\ comments[k] \in Nat /\ arrived[k] \in Nat
        /\ \/ comments'[k] = comments[k] /\ arrived'[k] = arrived[k]
           \/ comments'[k] = comments[k] + 1 /\ arrived'[k] = arrived[k] + 1
  BY <1>1, <1>2
<1>4. Alone' /\ Delivers'
  BY <1>2 DEF WInv, Alone, Delivers, Publishing
<1>5. Looked'
  <2> SUFFICES ASSUME NEW x \in Executors, NEW k \in Intents, executor[x].intent = k
               PROVE  /\ executor[x].pc = "posting" => comments'[k] <= arrived'[k]
                      /\ executor[x].pc = "recordPublished" => comments'[k] > 0
    BY <1>2 DEF Looked
  <2> QED BY <1>3 DEF WInv, Looked
<1>6. PublishedOnce'
  <2> SUFFICES ASSUME NEW k \in Intents
               PROVE  /\ comments'[k] <= 1 + arrived'[k]
                      /\ intent[k] = "published" => comments'[k] > 0
    BY <1>2 DEF PublishedOnce
  <2> QED BY <1>3 DEF WInv, PublishedOnce
<1> QED BY <1>4, <1>5, <1>6 DEF WInv

\* An executor that begins is preparing, one that ends is idle; none reconciles.
LEMMA ComingAndGoing ==
  ASSUME WInv, IInv', Wired, NEW x \in Executors,
         \/ \E i \in Intents : Fetch(x, i) \/ Reconcile(x, i)
         \/ Answer(x) \/ Crash(x)
  PROVE  WInv'
<1>1. \A i \in Intents : ~Reconcile(x, i)
  <2> SUFFICES ASSUME NEW i \in Intents, Within(faults, lookups + 1) PROVE FALSE
    BY DEF Reconcile
  <2>1. PICK b \in Bounds : lookups + 1 <= b.lookups
    BY DEF Within
  <2> QED BY <2>1 DEF Wired, WInv, IInv, TypeOK
<1>2. executor \in [Executors -> ExecutorStates]
  BY DEF WInv, IInv, TypeOK
<1>3. PICK i \in Intents :
        /\ executor'[x].pc \in {"idle", "preparing"}
        /\ executor'[x].pc # "idle" => executor'[x].intent = i /\ executor'[x].delivery
        /\ \A y \in Executors \ {x} : executor'[y] = executor[y]
  <2>1. ASSUME NEW i \in Intents, Fetch(x, i)
        PROVE  /\ executor'[x].pc = "preparing"
               /\ executor'[x].intent = i /\ executor'[x].delivery
               /\ \A y \in Executors \ {x} : executor'[y] = executor[y]
    BY <1>2, <2>1, FetchSays
  <2>2. ASSUME Answer(x) \/ Crash(x)
        PROVE  /\ executor'[x].pc = "idle" /\ executor[x].intent \in Intents
               /\ \A y \in Executors \ {x} : executor'[y] = executor[y]
    <3>1. executor' = [executor EXCEPT ![x] = Idle] /\ executor[x].pc # "idle"
      BY <2>2 DEF Answer, Crash
    <3> QED BY <1>2, <3>1, IdleTyped DEF WInv, IInv, Serving
  <2> QED BY <1>1, <2>1, <2>2
<1>4. UNCHANGED <<intent, comments, arrived>>
  BY <1>1 DEF Fetch, Answer, Crash, record, remote
<1>5. ~Publishing(x, i)'
  BY <1>3, PublishingSays DEF PublishingPcs
<1>6. /\ executor'[x].pc # "posting" /\ executor'[x].pc # "recordPublished"
      /\ comments'[i] <= 1 + arrived[i]
      /\ intent'[i] = "published" => comments'[i] > 0
  BY <1>3, <1>4 DEF WInv, PublishedOnce
<1> QED BY <1>3, <1>4, <1>5, <1>6, MovePreserves

\* While x is publishing i nobody else is.
LEMMA OnlyPublisher ==
  ASSUME WInv, NEW x \in Executors, executor[x].pc \in PublishingPcs
  PROVE  /\ executor[x].intent \in Intents
         /\ \A y \in Executors \ {x} : ~Publishing(y, executor[x].intent)
         /\ \/ intent[executor[x].intent] = "publishing"
            \/ /\ executor[x].pc = "recordFailure"
               /\ intent[executor[x].intent] \in {"published", "outcomeUnknown"}
<1>1. executor[x].intent \in Intents
  BY DEF PublishingPcs, WInv, IInv, Serving
<1>2. Publishing(x, executor[x].intent)
  BY PublishingSays
<1> QED BY <1>1, <1>2 DEF WInv, Alone

\* Between lookup and answer the executor is alone with the comments of its intent,
\* but for late writes.
LEMMA DestinationSteps ==
  ASSUME WInv, IInv', NEW x \in Executors,
         Look(x) \/ DestinationThrows(x) \/ PostWritten(x) \/ PostUnknown(x)
  PROVE  WInv'
<1> DEFINE i == executor[x].intent
<1>1. executor[x].pc \in {"looking", "posting"}
  BY DEF Look, DestinationThrows, PostWritten, PostUnknown
<1>2. /\ i \in Intents /\ intent[i] = "publishing"
      /\ \A y \in Executors \ {x} : ~Publishing(y, i)
  BY <1>1, OnlyPublisher DEF PublishingPcs
<1>3. comments \in [Intents -> Nat] /\ arrived[i] \in Nat /\ comments[i] \in Nat
  BY <1>2 DEF WInv, IInv, TypeOK
<1>4. PICK pc \in {"posting", "recordPublished", "recordUnknown", "recordFailure"} :
        Goto(x, pc) \/ Throw(x, pc)
  <2>1. CASE Look(x)
    BY <2>1 DEF Look
  <2>2. CASE ~Look(x)
    BY <2>2 DEF DestinationThrows, PostWritten, PostUnknown
  <2> QED BY <2>1, <2>2
<1>5. /\ executor'[x].pc = pc /\ executor'[x].intent = i
      /\ executor'[x].delivery
      /\ \A y \in Executors \ {x} : executor'[y] = executor[y]
  BY <1>1, <1>4, OneMoves DEF Pcs, WInv, IInv, Delivers
<1>6. intent' = intent /\ arrived' = arrived
  BY DEF Look, DestinationThrows, PostWritten, PostUnknown, record, remote
<1>7. \A k \in Intents \ {i} : comments'[k] = comments[k]
  BY <1>3 DEF Look, DestinationThrows, PostWritten, PostUnknown, remote
<1>8. /\ pc = "posting" => comments'[i] <= arrived[i]
      /\ pc = "recordPublished" => comments'[i] > 0
      /\ comments'[i] <= 1 + arrived[i]
  <2>1. CASE Look(x)
    <3>1. /\ comments' = comments
          /\ executor' = [executor EXCEPT ![x].pc =
                            IF comments[i] > 0 THEN "recordPublished" ELSE "posting"]
      BY <2>1 DEF Look, remote, Goto
    <3>2. executor \in [Executors -> ExecutorStates]
      BY DEF WInv, IInv, TypeOK
    <3>3. pc = IF comments[i] > 0 THEN "recordPublished" ELSE "posting"
      BY <1>5, <3>1, <3>2 DEF ExecutorStates
    <3> HIDE DEF i
    <3> QED BY <1>2, <1>3, <3>1, <3>3 DEF WInv, PublishedOnce
  <2>2. CASE PostWritten(x)
    <3>1. comments' = [comments EXCEPT ![i] = @ + 1] /\ executor[x].pc = "posting"
      BY <2>2 DEF PostWritten
    <3>2. comments[i] <= arrived[i]
      BY <1>2, <3>1 DEF WInv, Looked
    <3>3. comments'[i] = comments[i] + 1
      BY <1>2, <1>3, <3>1
    <3>4. pc # "posting"
      <4>1. executor \in [Executors -> ExecutorStates]
        BY DEF WInv, IInv, TypeOK
      <4> QED BY <1>5, <2>2, <4>1 DEF PostWritten, Goto, Throw, ExecutorStates
    <3> HIDE DEF i
    <3> QED BY <1>3, <3>2, <3>3, <3>4
  <2>3. CASE DestinationThrows(x) \/ PostUnknown(x)
    <3>1. comments' = comments
      BY <2>3 DEF DestinationThrows, PostUnknown, remote
    <3>2. pc \in {"recordUnknown", "recordFailure"}
      <4>1. executor \in [Executors -> ExecutorStates]
        BY DEF WInv, IInv, TypeOK
      <4> QED BY <1>5, <2>3, <4>1
              DEF DestinationThrows, PostUnknown, Goto, Throw, ExecutorStates
    <3> QED BY <1>2, <3>1, <3>2 DEF WInv, PublishedOnce
  <2> QED BY <2>1, <2>2, <2>3
<1> HIDE DEF i
<1> QED BY <1>2, <1>5, <1>6, <1>7, <1>8, MovePreserves

\* The state it asks for shows that nobody else is publishing the intent.
LEMMA PrepareKeepsAlone ==
  ASSUME WInv, IInv', NEW x \in Executors, Prepare(x)
  PROVE  WInv'
<1> DEFINE i == executor[x].intent
<1>1. i \in Intents /\ executor[x].delivery
  BY DEF WInv, IInv, Serving, Delivers, Prepare
<1>2. intent[i] \in {"pending", "failed"}
  BY <1>1 DEF Prepare, Preparable
<1>3. \A y \in Executors : ~Publishing(y, i)
  BY <1>1, <1>2 DEF WInv, Alone
<1>4. executor \in [Executors -> ExecutorStates] /\ intent \in [Intents -> IntentStates]
  BY DEF WInv, IInv, TypeOK
<1>5. executor' = [executor EXCEPT ![x].pc = "looking", ![x].token = lease[i].token + 1]
  BY DEF Prepare
<1>6. /\ executor'[x].pc = "looking" /\ executor'[x].intent = i
      /\ executor'[x].delivery
      /\ \A y \in Executors \ {x} : executor'[y] = executor[y]
  BY <1>1, <1>4, <1>5 DEF ExecutorStates
<1>7. /\ intent' = [intent EXCEPT ![i] = "publishing"]
      /\ comments' = comments /\ arrived' = arrived
  BY DEF Prepare, remote
<1> HIDE DEF i
<1>8. intent'[i] = "publishing" /\ \A k \in Intents \ {i} : intent'[k] = intent[k]
  BY <1>1, <1>4, <1>7
<1>9. comments'[i] <= 1 + arrived[i]
  BY <1>1, <1>7 DEF WInv, PublishedOnce
<1> QED BY <1>1, <1>3, <1>6, <1>7, <1>8, <1>9, MovePreserves

\* If the answer is lost nobody publishes the intent, and nobody will.
LEMMA AnswerLostKeepsAlone ==
  ASSUME WInv, IInv', NEW x \in Executors, PrepareAnswerLost(x)
  PROVE  WInv'
<1> DEFINE i == executor[x].intent
<1>1. i \in Intents /\ executor[x].delivery
  BY DEF WInv, IInv, Serving, Delivers, PrepareAnswerLost
<1>2. intent[i] \in {"pending", "failed"}
  BY <1>1 DEF PrepareAnswerLost, Preparable
<1>3. \A y \in Executors : ~Publishing(y, i)
  BY <1>1, <1>2 DEF WInv, Alone
<1>4. intent \in [Intents -> IntentStates]
  BY DEF WInv, IInv, TypeOK
<1>5. Throw(x, "answering")
  BY DEF PrepareAnswerLost
<1>6. /\ executor'[x].pc = "answering" /\ executor'[x].intent = i
      /\ executor'[x].delivery
      /\ \A y \in Executors \ {x} : executor'[y] = executor[y]
  BY <1>1, <1>5, OneMoves DEF Pcs, WInv, IInv
<1>7. /\ intent' = [intent EXCEPT ![i] = "publishing"]
      /\ comments' = comments /\ arrived' = arrived
  BY DEF PrepareAnswerLost, remote
<1> HIDE DEF i
<1>8. intent'[i] = "publishing" /\ \A k \in Intents \ {i} : intent'[k] = intent[k]
  BY <1>1, <1>4, <1>7
<1>9. comments'[i] <= 1 + arrived[i] /\ ~Publishing(x, i)'
  BY <1>1, <1>6, <1>7, PublishingSays DEF WInv, PublishedOnce, PublishingPcs
<1> QED BY <1>1, <1>3, <1>6, <1>7, <1>8, <1>9, MovePreserves

\* The recording ends the publishing, or is itself to be recorded as a failure.
LEMMA RecordKeepsAlone ==
  ASSUME WInv, IInv', NEW x \in Executors, Record(x) \/ RecordThrows(x)
  PROVE  WInv'
<1> DEFINE new == Recording[executor[x].pc]
<1>1. /\ executor[x].pc \in {"recordPublished", "recordUnknown", "recordFailure"}
      /\ new = "published" => executor[x].pc = "recordPublished"
      /\ executor[x].pc # "recordFailure" => new \in {"published", "outcomeUnknown"}
  BY RecordingSays DEF Record, RecordThrows
<1>2. PICK i \in Intents :
      /\ i = executor[x].intent
      /\ \A y \in Executors \ {x} : ~Publishing(y, i)
      /\ \/ intent[i] = "publishing"
         \/ executor[x].pc = "recordFailure" /\ intent[i] \in {"published", "outcomeUnknown"}
  BY <1>1, OnlyPublisher DEF PublishingPcs
<1>3. executor \in [Executors -> ExecutorStates] /\ intent \in [Intents -> IntentStates]
  BY DEF WInv, IInv, TypeOK
<1>4. PICK pc \in {"releasing", "recordFailure"} :
        /\ Goto(x, pc) \/ Throw(x, pc)
        /\ pc = "recordFailure" => executor[x].pc # "recordFailure"
  <2>1. CASE Record(x)
    BY <2>1 DEF Record
  <2>2. CASE RecordThrows(x)
    BY <2>2 DEF RecordThrows
  <2> QED BY <2>1, <2>2
<1>5. /\ executor'[x].pc = pc /\ executor'[x].intent = i
      /\ executor'[x].delivery
      /\ \A y \in Executors \ {x} : executor'[y] = executor[y]
  BY <1>1, <1>2, <1>4, OneMoves DEF Pcs, WInv, IInv, Delivers
<1>6. /\ intent' = intent \/ intent' = [intent EXCEPT ![i] = new]
      /\ comments' = comments /\ arrived' = arrived
  BY <1>2 DEF Record, RecordThrows, remote
<1> HIDE DEF new
<1>7. intent'[i] \in {intent[i], new} /\ \A k \in Intents \ {i} : intent'[k] = intent[k]
  BY <1>2, <1>3, <1>6
<1>8. executor[x].pc = "recordPublished" => comments[i] > 0
  BY <1>2 DEF WInv, Looked
<1>9. /\ comments'[i] <= 1 + arrived[i]
      /\ intent'[i] = "published" => comments'[i] > 0
  BY <1>1, <1>2, <1>6, <1>7, <1>8 DEF WInv, PublishedOnce
<1>10. Publishing(x, i)' => \/ intent'[i] = "publishing"
                            \/ /\ executor'[x].pc = "recordFailure"
                               /\ intent'[i] \in {"published", "outcomeUnknown"}
  <2>1. Publishing(x, i)' => pc = "recordFailure"
    BY <1>5, PublishingSays DEF PublishingPcs
  <2> QED BY <1>1, <1>2, <1>4, <1>5, <1>7, <2>1
<1> QED BY <1>2, <1>5, <1>6, <1>7, <1>9, <1>10, MovePreserves

\* Steps before and after the publishing.
LEMMA QuietKeepAlone ==
  ASSUME WInv, IInv', NEW x \in Executors,
         \/ PrepareDeclines(x) \/ PrepareThrows(x) \/ Release(x) \/ ReleaseThrows(x)
  PROVE  WInv'
<1>1. PICK i \in Intents : i = executor[x].intent /\ executor[x].delivery
  BY DEF WInv, IInv, Serving, Delivers, PrepareDeclines, PrepareThrows, Release,
         ReleaseThrows
<1>2. Goto(x, "answering") \/ Throw(x, "answering")
  BY DEF PrepareDeclines, PrepareThrows, Release, ReleaseThrows
<1>3. /\ executor'[x].pc = "answering" /\ executor'[x].intent = i
      /\ executor'[x].delivery
      /\ \A y \in Executors \ {x} : executor'[y] = executor[y]
  BY <1>1, <1>2, OneMoves DEF Pcs, WInv, IInv
<1>4. UNCHANGED <<intent, comments, arrived>>
  BY DEF PrepareDeclines, PrepareThrows, Release, ReleaseThrows, record, remote
<1>5. ~Publishing(x, i)'
  BY <1>3, PublishingSays DEF PublishingPcs
<1>6. /\ comments'[i] <= 1 + arrived[i]
      /\ intent'[i] = "published" => comments'[i] > 0
  BY <1>1, <1>4 DEF WInv, PublishedOnce
<1> QED BY <1>1, <1>3, <1>4, <1>5, <1>6, MovePreserves

\* Each step preserves the exclusion.
LEMMA WiredInvariance ==
  ASSUME Wired, WInv, [Next]_vars
  PROVE  WInv'
<1>1. IInv'
  BY Invariance DEF WInv
<1>2. CASE UNCHANGED vars
  BY <1>1, <1>2
     DEF vars, record, remote, WInv, Delivers, Alone, Looked, PublishedOnce, Publishing
<1>3. CASE Next
  <2>1. CASE AnalysisCompletes \/ SchedulePublication \/ CompletionDeadLettered
    BY <1>1, <2>1, OthersPreserve
  <2>2. ASSUME NEW i \in Intents,
               \/ Request(i) \/ ApprovePublication(i) \/ ExpireDelivery(i)
               \/ LeaseExpires(i) \/ LateWriteArrives(i)
        PROVE  WInv'
    BY <1>1, <2>2, OthersPreserve, LateWriteKeepsOrder
  <2>3. ASSUME NEW i \in Intents, NEW x \in Executors, Fetch(x, i) \/ Reconcile(x, i)
        PROVE  WInv'
    BY <1>1, <2>3, ComingAndGoing
  <2>4. ASSUME NEW x \in Executors, Execute(x) \/ Crash(x)
        PROVE  WInv'
    BY <1>1, <2>4, ComingAndGoing, DestinationSteps, PrepareKeepsAlone,
       RecordKeepsAlone, QuietKeepAlone DEF Execute
  <2>5. ASSUME NEW x \in Executors,
               PrepareThrows(x) \/ PrepareAnswerLost(x) \/ ReleaseThrows(x)
        PROVE  WInv'
    BY <1>1, <2>5, QuietKeepAlone, AnswerLostKeepsAlone
  <2> QED BY <1>3, <2>1, <2>2, <2>3, <2>4, <2>5 DEF Next
<1> QED BY <1>2, <1>3

LEMMA InitWired == Init => WInv
<1> SUFFICES ASSUME Init PROVE WInv
  OBVIOUS
<1>1. IInv
  BY InitInvariant
<1>2. \A x \in Executors : executor[x].pc = "idle"
  BY IdleTyped DEF Init
<1>3. \A x \in Executors, i \in Intents : ~Publishing(x, i)
  BY <1>2, PublishingSays DEF PublishingPcs
<1>4. Delivers /\ Alone /\ Looked
  BY <1>2, <1>3 DEF Delivers, Alone, Looked
<1>5. PublishedOnce
  BY DEF Init, PublishedOnce
<1> QED BY <1>1, <1>4, <1>5 DEF WInv

\* The exclusion holds in every reachable state of the wired system.
LEMMA WiredInvariant == ASSUME Wired PROVE Spec => []WInv
BY InitWired, WiredInvariance, PTL DEF Spec

\* Expired leases, restarted tokens and redelivered commands never let two
\* executors write for one intent.
THEOREM OneWriter == ASSUME Wired PROVE Spec => []OneWriterPerIntent
<1>1. WInv => OneWriterPerIntent
  <2> SUFFICES ASSUME WInv, NEW i \in Intents
               PROVE  /\ Cardinality(Writers(i)) <= 1
                      /\ Writers(i) # {} => intent[i] = "publishing"
    BY DEF OneWriterPerIntent
  <2>1. CASE Writers(i) = {}
    BY <2>1, FS_EmptySet
  <2>2. CASE Writers(i) # {}
    <3>1. PICK x \in Executors : x \in Writers(i)
      BY <2>2 DEF Writers
    <3>2. \A y \in Writers(i) : y \in Executors /\ Publishing(y, i)
      BY PublishingSays DEF Writers, PublishingPcs
    <3>3. Writers(i) = {x}
      BY <3>1, <3>2 DEF WInv, Alone
    <3>4. intent[i] = "publishing"
      BY <3>1, <3>2 DEF WInv, Alone, Writers
    <3>5. Cardinality(Writers(i)) = 1
      BY <3>3, FS_Singleton, Zenon
    <3> QED BY <3>4, <3>5
  <2> QED BY <2>1, <2>2
<1> QED BY <1>1, WiredInvariant, PTL

\* A write whose answer was lost is not repeated, and what is recorded as published
\* is on the case.
THEOREM CommentedOnce == ASSUME Wired PROVE Spec => []PublishedOnce
<1>1. WInv => PublishedOnce
  BY DEF WInv
<1> QED BY <1>1, WiredInvariant, PTL

-----------------------------------------------------------------------------
(* Nothing is forgotten *)

\* The intents that an executor has taken at least once.
Taken == {i \in Intents : intent[i] \notin {"absent", "awaitingApproval", "pending"}}

\* What is enqueued, served or taken is bound; a live lease, and an executor that
\* is about to return, show that the intent has been taken.
Followed ==
  /\ \A i \in Intents : /\ command[i] # "none" \/ i \in Taken => bound[i]
                        /\ lease[i].live => i \in Taken
  /\ \A x \in Executors :
       executor[x].pc # "idle" =>
         /\ bound[executor[x].intent]
         /\ executor[x].pc # "preparing" /\ ~executor[x].threw =>
              executor[x].intent \in Taken

FInv == IInv /\ Followed

\* A step that keeps every intent's progress keeps it in sight.
LEMMA FollowedStep ==
  ASSUME FInv,
         \A i \in Intents :
           /\ bound[i] => bound'[i]
           /\ i \in Taken => i \in Taken'
           /\ command'[i] # "none" => command[i] # "none" \/ bound'[i]
           /\ i \in Taken' => i \in Taken \/ bound'[i]
           /\ lease'[i].live => lease[i].live \/ i \in Taken',
         \A x \in Executors :
           executor'[x].pc # "idle" =>
             /\ \/ executor[x].pc # "idle" /\ executor'[x].intent = executor[x].intent
                \/ executor'[x].intent \in Intents /\ bound'[executor'[x].intent]
             /\ executor'[x].pc # "preparing" /\ ~executor'[x].threw =>
                  \/ executor'[x].intent \in Taken'
                  \/ /\ executor[x].pc \notin {"idle", "preparing"}
                     /\ ~executor[x].threw
                     /\ executor'[x].intent = executor[x].intent
  PROVE  Followed'
<1>1. \A x \in Executors : executor[x].pc # "idle" => executor[x].intent \in Intents
  BY DEF FInv, IInv, Serving
<1>2. ASSUME NEW i \in Intents
      PROVE  /\ command'[i] # "none" \/ i \in Taken' => bound'[i]
             /\ lease'[i].live => i \in Taken'
  BY DEF FInv, Followed
<1>3. ASSUME NEW x \in Executors, executor'[x].pc # "idle"
      PROVE  /\ bound'[executor'[x].intent]
             /\ executor'[x].pc # "preparing" /\ ~executor'[x].threw =>
                  executor'[x].intent \in Taken'
  <2>1. bound'[executor'[x].intent]
    BY <1>1, <1>3 DEF FInv, Followed
  <2>2. ASSUME executor[x].pc \notin {"idle", "preparing"}, ~executor[x].threw,
               executor'[x].intent = executor[x].intent
        PROVE  executor'[x].intent \in Taken'
    <3> DEFINE i == executor[x].intent
    <3>1. i \in Intents /\ i \in Taken /\ executor'[x].intent = i
      BY <1>1, <2>2 DEF FInv, Followed
    <3> HIDE DEF i
    <3>2. i \in Taken'
      BY <3>1
    <3> QED BY <3>1, <3>2 DEF Taken
  <2> QED BY <1>3, <2>1, <2>2
<1>4. \A i \in Intents : /\ command'[i] # "none" \/ i \in Taken' => bound'[i]
                         /\ lease'[i].live => i \in Taken'
  BY <1>2
<1> QED BY <1>3, <1>4 DEF Followed, Taken

\* Requests, approvals and the event bind what they enqueue.
LEMMA RecordsFollowed ==
  ASSUME FInv,
         \/ AnalysisCompletes \/ SchedulePublication \/ CompletionDeadLettered
         \/ \E i \in Intents : Request(i) \/ ApprovePublication(i)
  PROVE  Followed'
<1>1. /\ intent \in [Intents -> IntentStates] /\ bound \in [Intents -> BOOLEAN]
      /\ command \in [Intents -> {"none", "ready", "active", "done", "dead"}]
  BY DEF FInv, IInv, TypeOK
<1>2. executor' = executor /\ lease' = lease
  BY DEF AnalysisCompletes, SchedulePublication, CompletionDeadLettered, Request,
         RequestReadsJob, RequestReadsResult, RequestCommits, ApprovePublication
<1>3. \A i \in Intents :
        /\ bound[i] => bound'[i]
        /\ (i \in Taken <=> i \in Taken')
        /\ command'[i] # "none" => command[i] # "none" \/ bound'[i]
  <2>1. CASE UNCHANGED <<intent, bound, command>>
    BY <2>1 DEF Taken
  <2>2. CASE SchedulePublication
    <3>1. /\ bound' = [i \in Intents |-> bound[i] \/ intent[i] # "absent"]
          /\ intent' = intent
          /\ command' = [i \in Intents |->
                           IF i \in Ready(intent, bound') /\ command[i] = "none"
                           THEN "ready" ELSE command[i]]
      BY <2>2 DEF SchedulePublication, Enqueue
    <3> QED BY <1>1, <3>1 DEF Taken, Ready
  <2>3. ASSUME NEW k \in Intents, RequestCommits(k)
        PROVE  \A i \in Intents :
                 /\ bound[i] => bound'[i]
                 /\ (i \in Taken <=> i \in Taken')
                 /\ command'[i] # "none" => command[i] # "none" \/ bound'[i]
    <3> DEFINE ready == {j \in {k} : request[k].sawCompleted /\ intent'[k] = "pending"}
    <3>1. /\ \/ intent' = intent
             \/ /\ intent[k] = "absent"
                /\ \/ intent' = [intent EXCEPT ![k] = "awaitingApproval"]
                   \/ intent' = [intent EXCEPT ![k] = "pending"]
          /\ bound' = [bound EXCEPT ![k] = @ \/ request[k].sawResult]
          /\ request[k].pc = "write"
      BY <2>3 DEF RequestCommits
    <3>2. command' = [j \in Intents |-> IF j \in ready /\ command[j] = "none"
                                        THEN "ready" ELSE command[j]]
      BY <2>3 DEF RequestCommits, Enqueue
    <3>3. request[k].sawCompleted => bound'[k]
      BY <1>1, <3>1 DEF FInv, IInv, ReadsInOrder
    <3>4. \A i \in Intents : (i \in Taken <=> i \in Taken')
      BY <1>1, <3>1 DEF Taken
    <3>5. \A i \in Intents : bound[i] => bound'[i]
      BY <1>1, <3>1
    <3>6. \A i \in Intents : command'[i] # "none" => command[i] # "none" \/ bound'[i]
      BY <3>2, <3>3
    <3> QED BY <3>4, <3>5, <3>6
  <2>4. ASSUME NEW k \in Intents, ApprovePublication(k)
        PROVE  \A i \in Intents :
                 /\ bound[i] => bound'[i]
                 /\ (i \in Taken <=> i \in Taken')
                 /\ command'[i] # "none" => command[i] # "none" \/ bound'[i]
    <3>1. /\ intent[k] = "awaitingApproval"
          /\ intent' = [intent EXCEPT ![k] = "pending"]
          /\ bound' = bound
          /\ command' = [i \in Intents |->
                           IF i \in Ready(intent', bound) \intersect {k}
                              /\ command[i] = "none"
                           THEN "ready" ELSE command[i]]
      BY <2>4 DEF ApprovePublication, Enqueue
    <3>2. \A i \in Intents : (i \in Taken <=> i \in Taken')
      BY <1>1, <3>1 DEF Taken
    <3> QED BY <3>1, <3>2 DEF Ready
  <2> QED BY <2>1, <2>2, <2>3, <2>4
          DEF AnalysisCompletes, CompletionDeadLettered, Request, RequestReadsJob,
              RequestReadsResult, record, queue
<1>4. \A x \in Executors :
        executor[x].pc # "idle" =>
          (executor[x].pc # "preparing" /\ ~executor[x].threw =>
             executor[x].intent \in Taken')
  <2> SUFFICES ASSUME NEW x \in Executors, executor[x].pc # "idle",
                      executor[x].pc # "preparing", ~executor[x].threw
               PROVE  executor[x].intent \in Taken'
    OBVIOUS
  <2> DEFINE i == executor[x].intent
  <2>1. i \in Intents /\ i \in Taken
    BY DEF FInv, IInv, Serving, Followed
  <2> HIDE DEF i
  <2>2. i \in Taken'
    BY <1>3, <2>1
  <2> QED BY <2>2 DEF i
<1> QED BY <1>2, <1>3, <1>4, FollowedStep

\* What expires or ends changes no record of an intent.
LEMMA QueueFollowed ==
  ASSUME FInv,
         \/ \E i \in Intents : \/ ExpireDelivery(i) \/ LeaseExpires(i)
                               \/ LateWriteArrives(i)
         \/ \E x \in Executors : \/ Answer(x) \/ Crash(x)
                                 \/ \E i \in Intents : Fetch(x, i) \/ Reconcile(x, i)
  PROVE  Followed'
<1>1. /\ executor \in [Executors -> ExecutorStates]
      /\ lease \in [Intents -> [token : Nat, live : BOOLEAN]]
      /\ command \in [Intents -> {"none", "ready", "active", "done", "dead"}]
  BY DEF FInv, IInv, TypeOK
<1>2. intent' = intent /\ bound' = bound
  BY DEF ExpireDelivery, LeaseExpires, LateWriteArrives, Answer, Crash, Fetch,
         Reconcile, record
<1>3. \A i \in Intents : lease'[i].live => lease[i].live
  BY <1>1 DEF ExpireDelivery, LeaseExpires, LateWriteArrives, Answer, Crash, Fetch,
              Reconcile
<1>4. \A i \in Intents : command'[i] # "none" => command[i] # "none" \/ bound[i]
  <2>1. CASE UNCHANGED queue
    BY <2>1 DEF queue
  <2>2. ASSUME NEW i \in Intents, command[i] # "none" \/ bound[i],
               \/ Redeliver(i)
               \/ \E s \in {"active", "done"} : command' = [command EXCEPT ![i] = s]
        PROVE  \A k \in Intents : command'[k] # "none" => command[k] # "none" \/ bound[k]
    <3>1. \A k \in Intents \ {i} : command'[k] = command[k]
      BY <1>1, <2>2, RedeliverSays DEF FInv, IInv
    <3> QED BY <2>2, <3>1
  <2>3. ASSUME NEW x \in Executors, Answer(x)
        PROVE  \A k \in Intents : command'[k] # "none" => command[k] # "none" \/ bound[k]
    <3>1. executor[x].intent \in Intents /\ bound[executor[x].intent]
      BY <2>3 DEF Answer, FInv, IInv, Serving, Followed
    <3>2. \/ UNCHANGED queue \/ Redeliver(executor[x].intent)
          \/ command' = [command EXCEPT ![executor[x].intent] = "done"]
      BY <2>3 DEF Answer
    <3> QED BY <2>1, <2>2, <3>1, <3>2
  <2>4. ASSUME NEW i \in Intents, ExpireDelivery(i)
        PROVE  \A k \in Intents : command'[k] # "none" => command[k] # "none" \/ bound[k]
    BY <2>2, <2>4 DEF ExpireDelivery
  <2>5. ASSUME NEW x \in Executors, NEW i \in Intents, Fetch(x, i)
        PROVE  \A k \in Intents : command'[k] # "none" => command[k] # "none" \/ bound[k]
    BY <2>2, <2>5 DEF Fetch
  <2> QED BY <2>1, <2>3, <2>4, <2>5 DEF LeaseExpires, LateWriteArrives, Crash, Reconcile
<1>5. \A x \in Executors :
        executor'[x].pc # "idle" =>
          /\ \/ executor[x].pc # "idle" /\ executor'[x].intent = executor[x].intent
             \/ executor'[x].intent \in Intents /\ bound'[executor'[x].intent]
          /\ executor'[x].pc # "preparing" =>
               /\ executor[x].pc \notin {"idle", "preparing"}
               /\ executor'[x].threw = executor[x].threw
               /\ executor'[x].intent = executor[x].intent
  <2>1. CASE executor' = executor
    BY <2>1
  <2>2. CASE \E y \in Executors : Answer(y) \/ Crash(y)
    <3>1. PICK y \in Executors : executor' = [executor EXCEPT ![y] = Idle]
      BY <2>2 DEF Answer, Crash
    <3> QED BY <1>1, <3>1, IdleTyped
  <2>3. CASE \E i \in Intents : ExpireDelivery(i)
    BY <1>1, <2>3 DEF ExpireDelivery, ExecutorStates
  <2>4. ASSUME NEW y \in Executors, NEW i \in Intents, Fetch(y, i) \/ Reconcile(y, i)
        PROVE  /\ executor'[y].pc = "preparing" /\ executor'[y].intent = i /\ bound[i]
               /\ \A x \in Executors \ {y} : executor'[x] = executor[x]
    <3>1. PICK begun \in ExecutorStates :
            /\ begun.pc = "preparing" /\ begun.intent = i
            /\ executor' = [executor EXCEPT ![y] = begun]
      BY <2>4, FetchSays
    <3>2. command[i] # "none" \/ i \in Taken
      BY <2>4 DEF Fetch, Reconcile, Taken
    <3> QED BY <1>1, <3>1, <3>2 DEF FInv, Followed
  <2> QED BY <1>2, <2>1, <2>2, <2>3, <2>4 DEF LeaseExpires, LateWriteArrives
<1>6. \A i \in Intents : (i \in Taken' <=> i \in Taken)
  BY <1>2 DEF Taken
<1> QED BY <1>2, <1>3, <1>4, <1>5, <1>6, FollowedStep

\* Once taken, an intent does not go back.
LEMMA ExecutorsFollowed ==
  ASSUME FInv, NEW x \in Executors,
         \/ Prepare(x) \/ PrepareDeclines(x) \/ PrepareThrows(x) \/ PrepareAnswerLost(x)
         \/ Look(x) \/ DestinationThrows(x) \/ PostWritten(x) \/ PostUnknown(x)
         \/ Record(x) \/ RecordThrows(x) \/ Release(x) \/ ReleaseThrows(x)
  PROVE  Followed'
<1> DEFINE i == executor[x].intent
<1>1. /\ executor \in [Executors -> ExecutorStates]
      /\ lease \in [Intents -> [token : Nat, live : BOOLEAN]]
      /\ intent \in [Intents -> IntentStates]
  BY DEF FInv, IInv, TypeOK
<1>2. executor[x].pc # "idle"
  BY RecordingSays
     DEF Prepare, PrepareDeclines, PrepareThrows, PrepareAnswerLost, Look,
         DestinationThrows, PostWritten, PostUnknown, Record, RecordThrows, Release,
         ReleaseThrows
<1>3. i \in Intents /\ bound[i] /\ intent[i] \notin {"absent", "awaitingApproval"}
  BY <1>2 DEF FInv, IInv, Serving, Followed, Untouched
<1>4. bound' = bound /\ command' = command
  BY DEF Prepare, PrepareDeclines, PrepareThrows, PrepareAnswerLost, Look,
         DestinationThrows, PostWritten, PostUnknown, Record, RecordThrows, Release,
         ReleaseThrows, record, queue
<1>5. PICK s \in {"publishing", "published", "outcomeUnknown", "failed"} :
        intent' = intent \/ intent' = [intent EXCEPT ![i] = s]
  BY RecordingSays
     DEF Prepare, PrepareDeclines, PrepareThrows, PrepareAnswerLost, Look,
         DestinationThrows, PostWritten, PostUnknown, Record, RecordThrows, Release,
         ReleaseThrows, record
<1>6. /\ \A y \in Executors \ {x} : executor'[y] = executor[y]
      /\ executor'[x].intent = i
      /\ executor'[x].pc # "preparing"
      /\ ~executor'[x].threw => ~executor[x].threw
  <2>1. CASE Prepare(x)
    BY <1>1, <2>1 DEF Prepare, ExecutorStates
  <2>2. CASE ~Prepare(x)
    <3>1. PICK pc \in Pcs \ {"preparing"} : Goto(x, pc) \/ Throw(x, pc)
      <4>1. CASE Look(x)
        BY <4>1 DEF Look, Pcs
      <4>2. CASE RecordThrows(x)
        BY <4>2 DEF RecordThrows, Pcs
      <4> QED BY <2>2, <4>1, <4>2
              DEF PrepareDeclines, PrepareThrows, PrepareAnswerLost, DestinationThrows,
                  PostWritten, PostUnknown, Record, Release, ReleaseThrows, Pcs
    <3> QED BY <3>1, OneMoves DEF FInv, IInv
  <2> QED BY <2>1, <2>2
<1> HIDE DEF i
<1>7. /\ \A k \in Intents \ {i} : intent'[k] = intent[k]
      /\ intent'[i] = intent[i] \/ intent'[i] = s
  BY <1>1, <1>3, <1>5
<1>8. /\ \A k \in Intents : k \in Taken => k \in Taken'
      /\ \A k \in Intents : k \in Taken' => k \in Taken \/ bound[k]
  BY <1>3, <1>7 DEF Taken
<1>9. \A k \in Intents : lease'[k].live => lease[k].live \/ k \in Taken'
  <2>1. CASE Prepare(x) \/ PrepareAnswerLost(x)
    <3>1. /\ lease' = [lease EXCEPT ![i] = [token |-> @.token + 1, live |-> TRUE]]
          /\ intent' = [intent EXCEPT ![i] = "publishing"]
      BY <2>1 DEF Prepare, PrepareAnswerLost, Acquired, i
    <3> QED BY <1>1, <1>3, <3>1 DEF Taken
  <2>2. CASE ~(Prepare(x) \/ PrepareAnswerLost(x))
    <3>1. lease' = lease \/ lease' = [lease EXCEPT ![i] = [token |-> 0, live |-> FALSE]]
      BY <2>2 DEF PrepareDeclines, PrepareThrows, Look, DestinationThrows, PostWritten,
                  PostUnknown, Record, RecordThrows, Release, ReleaseThrows, i
    <3> QED BY <1>1, <1>3, <3>1
  <2> QED BY <2>1, <2>2
<1>10. ~executor'[x].threw =>
         \/ i \in Taken'
         \/ executor[x].pc \notin {"idle", "preparing"} /\ ~executor[x].threw
  <2>1. CASE Prepare(x)
    <3>1. intent' = [intent EXCEPT ![i] = "publishing"]
      BY <2>1 DEF Prepare, i
    <3> QED BY <1>1, <1>3, <3>1 DEF Taken
  <2>2. CASE PrepareDeclines(x)
    <3>1. intent' = intent /\ (lease[i].live \/ ~Preparable(x, i))
      BY <2>2 DEF PrepareDeclines, record, i
    <3>2. i \in Taken
      BY <1>3, <3>1 DEF FInv, Followed, Preparable, Taken
    <3> QED BY <3>1, <3>2 DEF Taken
  <2>3. CASE PrepareThrows(x) \/ PrepareAnswerLost(x)
    <3>1. Throw(x, "answering")
      BY <2>3 DEF PrepareThrows, PrepareAnswerLost
    <3> QED BY <3>1, OneMoves DEF FInv, IInv, Pcs
  <2>4. CASE executor[x].pc # "preparing"
    BY <1>2, <1>6, <2>4
  <2> QED BY <2>1, <2>2, <2>3, <2>4, RecordingSays
          DEF Look, DestinationThrows, PostWritten, PostUnknown, Record, RecordThrows,
              Release, ReleaseThrows
<1>11. \A y \in Executors :
         executor'[y].pc # "idle" =>
           /\ executor[y].pc # "idle" /\ executor'[y].intent = executor[y].intent
           /\ executor'[y].pc # "preparing" /\ ~executor'[y].threw =>
                \/ executor'[y].intent \in Taken'
                \/ /\ executor[y].pc \notin {"idle", "preparing"}
                   /\ ~executor[y].threw
  <2> SUFFICES ASSUME NEW y \in Executors, executor'[y].pc # "idle"
               PROVE  /\ executor[y].pc # "idle" /\ executor'[y].intent = executor[y].intent
                      /\ executor'[y].pc # "preparing" /\ ~executor'[y].threw =>
                           \/ executor'[y].intent \in Taken'
                           \/ /\ executor[y].pc \notin {"idle", "preparing"}
                              /\ ~executor[y].threw
    OBVIOUS
  <2>1. CASE y # x
    BY <1>6, <2>1
  <2>2. CASE y = x
    <3>1. i \in Taken' => executor'[y].intent \in Taken'
      BY <1>6, <2>2 DEF Taken
    <3> QED BY <1>2, <1>6, <1>10, <2>2, <3>1 DEF i
  <2> QED BY <2>1, <2>2
<1> QED BY <1>4, <1>8, <1>9, <1>11, FollowedStep

\* Each step preserves both invariants.
LEMMA FollowedInvariance == FInv /\ [Next]_vars => FInv'
<1> SUFFICES ASSUME FInv, [Next]_vars PROVE FInv'
  OBVIOUS
<1>1. IInv'
  BY Invariance DEF FInv
<1>2. CASE UNCHANGED vars
  BY <1>1, <1>2 DEF vars, record, queue, FInv, Followed, Taken
<1>3. CASE Next
  <2>1. Followed'
    BY <1>3, RecordsFollowed, QueueFollowed, ExecutorsFollowed DEF Next, Execute
  <2> QED BY <1>1, <2>1 DEF FInv
<1> QED BY <1>2, <1>3

\* Nothing has been taken yet.
LEMMA InitFollowed == Init => FInv
BY InitInvariant, IdleTyped DEF Init, FInv, Followed, Taken

\* They hold in every reachable state.
LEMMA FollowedAlways == Spec => []FInv
BY InitFollowed, FollowedInvariance, PTL DEF Spec

\* A new or approved intent has at most a fresh command.
LEMMA BecomesPending ==
  ASSUME IInv, Next, NEW i \in Intents, intent[i] # "pending", intent'[i] = "pending"
  PROVE  command'[i] \in {"none", "ready"}
<1>1. /\ intent \in [Intents -> IntentStates]
      /\ command \in [Intents -> {"none", "ready", "active", "done", "dead"}]
  BY DEF IInv, TypeOK
<1>2. ASSUME NEW k \in Intents,
             intent[k] \in {"absent", "awaitingApproval"},
             \/ intent' = [intent EXCEPT ![k] = "awaitingApproval"]
             \/ intent' = [intent EXCEPT ![k] = "pending"],
             command'[i] \in {command[i], "ready"}
      PROVE  command'[i] \in {"none", "ready"}
  <2>1. i = k
    BY <1>1, <1>2
  <2>2. command[i] = "none"
    BY <1>2, <2>1 DEF IInv, Untouched
  <2> QED BY <1>2, <2>2
<1>3. ASSUME NEW k \in Intents, RequestCommits(k)
      PROVE  command'[i] \in {"none", "ready"}
  <2>1. /\ intent[k] = "absent"
        /\ \/ intent' = [intent EXCEPT ![k] = "awaitingApproval"]
           \/ intent' = [intent EXCEPT ![k] = "pending"]
    BY <1>3 DEF RequestCommits
  <2>2. command'[i] \in {command[i], "ready"}
    BY <1>3 DEF RequestCommits, Enqueue
  <2> QED BY <1>2, <2>1, <2>2
<1>4. ASSUME NEW k \in Intents, ApprovePublication(k)
      PROVE  command'[i] \in {"none", "ready"}
  <2>1. /\ intent[k] = "awaitingApproval"
        /\ intent' = [intent EXCEPT ![k] = "pending"]
    BY <1>4 DEF ApprovePublication
  <2>2. command'[i] \in {command[i], "ready"}
    BY <1>4 DEF ApprovePublication, Enqueue
  <2> QED BY <1>2, <2>1, <2>2
<1>5. ASSUME NEW x \in Executors,
             Prepare(x) \/ PrepareAnswerLost(x) \/ Record(x) \/ RecordThrows(x)
      PROVE  FALSE
  <2>1. PICK s \in {"publishing", "published", "outcomeUnknown", "failed"} :
          intent' = intent \/ intent' = [intent EXCEPT ![executor[x].intent] = s]
    BY <1>5, RecordingSays DEF Prepare, PrepareAnswerLost, Record, RecordThrows
  <2> QED BY <1>1, <2>1
<1>6. intent' # intent
  OBVIOUS
<1> QED BY <1>3, <1>4, <1>5, <1>6
        DEF Next, Request, Execute, AnalysisCompletes, CompletionDeadLettered,
            RequestReadsJob, RequestReadsResult, SchedulePublication, Fetch, Reconcile,
            Answer, ExpireDelivery, Crash, PrepareDeclines, PrepareThrows, Look,
            DestinationThrows, PostWritten, PostUnknown, LateWriteArrives, Release,
            ReleaseThrows, LeaseExpires, record

\* Only a handler that has not thrown has its command acknowledged.
LEMMA BecomesDone ==
  ASSUME IInv, Next, NEW i \in Intents, command[i] # "done", command'[i] = "done"
  PROVE  \E x \in Executors : /\ executor[x].pc = "answering"
                              /\ executor[x].intent = i /\ ~executor[x].threw
<1>1. command \in [Intents -> {"none", "ready", "active", "done", "dead"}]
  BY DEF IInv, TypeOK
<1>2. command' # command
  OBVIOUS
<1>3. ASSUME NEW k \in Intents, Redeliver(k) PROVE FALSE
  BY <1>3, RedeliverSays DEF IInv
<1>4. ASSUME NEW ready, Enqueue(ready) PROVE FALSE
  BY <1>4 DEF Enqueue
<1>5. ASSUME NEW k \in Intents, NEW x \in Executors, Fetch(x, k) PROVE FALSE
  <2>1. command' = [command EXCEPT ![k] = "active"]
    BY <1>5 DEF Fetch
  <2> QED BY <1>1, <2>1
<1>6. ASSUME NEW x \in Executors, Answer(x)
      PROVE  executor[x].pc = "answering" /\ executor[x].intent = i /\ ~executor[x].threw
  <2>1. executor[x].intent \in Intents /\ executor[x].pc = "answering"
    BY <1>6 DEF Answer, IInv, Serving
  <2>2. /\ ~executor[x].threw
        /\ command' = [command EXCEPT ![executor[x].intent] = "done"]
    BY <1>2, <1>3, <1>6, <2>1 DEF Answer, queue
  <2> QED BY <1>1, <2>1, <2>2
<1>7. CASE \/ AnalysisCompletes \/ SchedulePublication \/ CompletionDeadLettered
           \/ \E k \in Intents : \/ Request(k) \/ ApprovePublication(k)
                                 \/ ExpireDelivery(k) \/ LeaseExpires(k)
                                 \/ LateWriteArrives(k)
  BY <1>2, <1>3, <1>4, <1>7
     DEF AnalysisCompletes, SchedulePublication, CompletionDeadLettered, Request,
         RequestReadsJob, RequestReadsResult, RequestCommits, ApprovePublication,
         ExpireDelivery, LeaseExpires, LateWriteArrives, queue
<1>8. CASE \E x \in Executors :
             \/ Prepare(x) \/ PrepareDeclines(x) \/ PrepareThrows(x)
             \/ PrepareAnswerLost(x) \/ Look(x) \/ DestinationThrows(x)
             \/ PostWritten(x) \/ PostUnknown(x) \/ Record(x) \/ RecordThrows(x)
             \/ Release(x) \/ ReleaseThrows(x) \/ Crash(x)
             \/ \E k \in Intents : Reconcile(x, k)
  BY <1>2, <1>8
     DEF Prepare, PrepareDeclines, PrepareThrows, PrepareAnswerLost, Look,
         DestinationThrows, PostWritten, PostUnknown, Record, RecordThrows, Release,
         ReleaseThrows, Crash, Reconcile, queue
<1> QED BY <1>5, <1>6, <1>7, <1>8 DEF Next, Execute

\* An intent for which nobody enqueues a command.
Uncommanded(i) ==
  /\ event \in {"consumed", "dead"}
  /\ command[i] = "none"
  /\ intent[i] = "pending" \/ (intent[i] = "awaitingApproval" /\ ~bound[i])

\* That is the work of a request that read the job too early, or of a dead event.
LEMMA UncommandedByLateRequest ==
  ASSUME IInv, Next, NEW i \in Intents, ~Uncommanded(i), Uncommanded(i)'
  PROVE  LateRequest(i) \/ (event = "pending" /\ event' = "dead")
<1>1. /\ event' \in {"consumed", "dead"} /\ command'[i] = "none"
      /\ intent'[i] = "pending" \/ (intent'[i] = "awaitingApproval" /\ ~bound'[i])
  BY DEF Uncommanded
<1>2. /\ intent \in [Intents -> IntentStates] /\ bound \in [Intents -> BOOLEAN]
      /\ command \in [Intents -> {"none", "ready", "active", "done", "dead"}]
  BY DEF IInv, TypeOK
<1>3. ASSUME event' = event, intent'[i] = intent[i], bound'[i] = bound[i],
             command[i] = "none"
      PROVE  FALSE
  BY <1>1, <1>3 DEF Uncommanded
<1>4. CASE AnalysisCompletes
  BY <1>1, <1>4 DEF AnalysisCompletes
<1>5. CASE SchedulePublication
  <2>1. /\ bound' = [k \in Intents |-> bound[k] \/ intent[k] # "absent"]
        /\ Enqueue(Ready(intent, bound')) /\ intent' = intent /\ done
    BY <1>5 DEF SchedulePublication, record, IInv, ReadsInOrder
  <2>2. bound'[i] /\ intent[i] = "pending"
    BY <1>1, <2>1
  <2>3. i \in Ready(intent, bound')
    BY <2>1, <2>2 DEF Ready
  <2> QED BY <1>1, <1>2, <2>1, <2>3 DEF Enqueue
<1>6. ASSUME NEW k \in Intents, RequestCommits(k)
      PROVE  LateRequest(i)
  <2> DEFINE ready == {j \in {k} : request[k].sawCompleted /\ intent'[k] = "pending"}
  <2>1. /\ \/ UNCHANGED <<policy, intent>> /\ intent[k] # "absent"
           \/ /\ intent[k] = "absent"
              /\ \/ intent' = [intent EXCEPT ![k] = "awaitingApproval"]
                 \/ intent' = [intent EXCEPT ![k] = "pending"]
        /\ bound' = [bound EXCEPT ![k] = @ \/ request[k].sawResult]
        /\ request[k].pc = "write" /\ event' = event
    BY <1>6 DEF RequestCommits, analysis
  <2>2. command' = [j \in Intents |-> IF j \in ready /\ command[j] = "none"
                                      THEN "ready" ELSE command[j]]
    BY <1>6 DEF RequestCommits, Enqueue
  <2>3. command[i] = "none" /\ i \notin ready
    BY <1>1, <1>2, <2>2
  <2>4. CASE k # i
    BY <1>2, <1>3, <2>1, <2>3, <2>4
  <2>5. CASE k = i
    <3>1. CASE intent[i] = "absent"
      <4>1. request[i].sawCompleted => bound'[i]
        BY <1>2, <2>1, <2>5 DEF IInv, ReadsInOrder
      <4> QED BY <1>1, <2>1, <2>3, <2>5, <3>1, <4>1 DEF LateRequest
    <3>2. CASE intent[i] # "absent"
      <4>1. intent' = intent /\ (bound[i] => bound'[i])
        BY <1>2, <2>1, <2>5, <3>2
      <4> QED BY <1>1, <2>1, <2>3, <4>1 DEF Uncommanded
    <3> QED BY <3>1, <3>2
  <2> QED BY <2>4, <2>5
<1>7. ASSUME NEW k \in Intents, ApprovePublication(k)
      PROVE  FALSE
  <2>1. /\ intent[k] = "awaitingApproval" /\ intent' = [intent EXCEPT ![k] = "pending"]
        /\ bound' = bound /\ event' = event
        /\ Enqueue(Ready(intent', bound) \intersect {k})
    BY <1>7 DEF ApprovePublication, analysis
  <2>2. command[i] = "none" /\ i \notin Ready(intent', bound) \intersect {k}
    BY <1>1, <1>2, <2>1 DEF Enqueue
  <2>3. CASE k # i
    BY <1>2, <1>3, <2>1, <2>2, <2>3
  <2>4. CASE k = i
    <3>1. done
      BY <1>1, <2>1 DEF IInv, ReadsInOrder
    <3>2. ~bound[i]
      BY <1>2, <2>1, <2>2, <2>4, <3>1 DEF Ready
    <3> QED BY <1>1, <2>1, <2>2, <2>4, <3>2 DEF Uncommanded
  <2> QED BY <2>3, <2>4
<1>8. ASSUME NEW x \in Executors,
             Prepare(x) \/ PrepareAnswerLost(x) \/ Record(x) \/ RecordThrows(x)
      PROVE  FALSE
  <2>1. executor[x].intent \in Intents
    BY <1>8, RecordingSays DEF IInv, Serving, Prepare, PrepareAnswerLost, Record,
                                RecordThrows
  <2>2. PICK s \in {"publishing", "published", "outcomeUnknown", "failed"} :
          intent' = intent \/ intent' = [intent EXCEPT ![executor[x].intent] = s]
    BY <1>8, RecordingSays DEF Prepare, PrepareAnswerLost, Record, RecordThrows
  <2>3. intent'[i] = intent[i] \/ intent'[i] = s
    BY <1>2, <2>1, <2>2
  <2>4. event' = event /\ bound' = bound /\ command' = command
    BY <1>8 DEF Prepare, PrepareAnswerLost, Record, RecordThrows, analysis, queue
  <2> QED BY <1>1, <1>3, <2>3, <2>4
<1>9. CASE /\ UNCHANGED <<event, intent, bound>>
           /\ \A k \in Intents : command'[k] = "none" => command[k] = "none"
  BY <1>1, <1>3, <1>9
<1>10. CASE \E k \in Intents : \/ RequestReadsJob(k) \/ RequestReadsResult(k)
                               \/ LeaseExpires(k) \/ LateWriteArrives(k)
  BY <1>9, <1>10 DEF RequestReadsJob, RequestReadsResult, LeaseExpires,
                     LateWriteArrives, analysis, record, queue
<1>11. ASSUME NEW k \in Intents,
              \/ ExpireDelivery(k)
              \/ \E x \in Executors : \/ Fetch(x, k) \/ Reconcile(x, k)
                                      \/ Answer(x) /\ executor[x].intent = k
       PROVE  FALSE
  <2>1. \/ command' = command
        \/ \E s \in {"active", "done"} : command' = [command EXCEPT ![k] = s]
        \/ Redeliver(k)
    BY <1>11 DEF ExpireDelivery, Fetch, Reconcile, Answer, queue
  <2>2. \A j \in Intents : command'[j] = "none" => command[j] = "none"
    <3>1. CASE Redeliver(k)
      BY <3>1, RedeliverSays DEF IInv
    <3> QED BY <1>2, <2>1, <3>1
  <2>3. UNCHANGED <<event, intent, bound>>
    BY <1>11 DEF ExpireDelivery, Fetch, Reconcile, Answer, analysis, record
  <2> QED BY <1>9, <1>1, <1>3, <2>2, <2>3
<1>12. CASE \E x \in Executors :
              \/ PrepareDeclines(x) \/ PrepareThrows(x) \/ Look(x)
              \/ DestinationThrows(x) \/ PostWritten(x) \/ PostUnknown(x)
              \/ Release(x) \/ ReleaseThrows(x) \/ Crash(x)
  BY <1>9, <1>12 DEF PrepareDeclines, PrepareThrows, Look, DestinationThrows,
       PostWritten, PostUnknown, Release, ReleaseThrows, Crash, analysis, record, queue
<1>13. ASSUME NEW x \in Executors, Answer(x) PROVE FALSE
  <2>1. executor[x].intent \in Intents
    BY <1>13 DEF IInv, Serving, Answer
  <2> QED BY <1>11, <1>13, <2>1
<1>14. CASE CompletionDeadLettered
  BY <1>14 DEF CompletionDeadLettered
<1> QED BY <1>4, <1>5, <1>6, <1>7, <1>8, <1>10, <1>11, <1>12, <1>13, <1>14
        DEF Next, Request, Execute

\* A command is used up while its intent is pending only by being given up.
LEMMA StrandedSays ==
  ASSUME FInv, Next, NEW i \in Intents, ~Stranded(i), Stranded(i)'
  PROVE  LateRequest(i) \/ GivenUp(i)
<1>1. CASE Uncommanded(i)'
  <2>1. ~Uncommanded(i)
    BY DEF Stranded, Uncommanded
  <2> QED BY <1>1, <2>1, UncommandedByLateRequest DEF FInv, GivenUp
<1>2. CASE intent'[i] = "pending" /\ command'[i] \in {"done", "dead"}
  <2>1. intent[i] = "pending"
    BY <1>2, BecomesPending DEF FInv
  <2>2. command[i] \notin {"done", "dead"}
    BY <2>1 DEF Stranded
  <2>3. CASE command'[i] = "dead"
    BY <2>2, <2>3 DEF GivenUp
  <2>4. CASE command'[i] = "done"
    <3>1. PICK x \in Executors : /\ executor[x].pc = "answering"
                                 /\ executor[x].intent = i /\ ~executor[x].threw
      BY <2>2, <2>4, BecomesDone DEF FInv
    <3>2. i \in Taken
      BY <3>1 DEF FInv, Followed
    <3> QED BY <2>1, <3>2 DEF Taken
  <2> QED BY <1>2, <2>3, <2>4
<1> QED BY <1>1, <1>2 DEF Stranded, Uncommanded

\* Who leaves an intent publishing has died, has failed to record its failure, or
\* does not know that it has taken the intent.
LEMMA AbandonedByFailure ==
  ASSUME IInv, Next, NEW i \in Intents, ~Abandoned(i), Abandoned(i)'
  PROVE  \E x \in Executors : BreaksOff(x, i)
<1> SUFFICES ASSUME \A x \in Executors : ~BreaksOff(x, i)
             PROVE  FALSE
  OBVIOUS
<1>1. intent'[i] = "publishing" /\ \A x \in Executors : ~Publishing(x, i)'
  BY DEF Abandoned
<1>2. intent \in [Intents -> IntentStates] /\ executor \in [Executors -> ExecutorStates]
  BY DEF IInv, TypeOK
<1>3. ASSUME NEW x \in Executors, executor[x].intent = i, NEW pc \in PublishingPcs,
             Goto(x, pc) \/ Throw(x, pc)
      PROVE  FALSE
  <2>1. executor'[x].pc = pc /\ executor'[x].intent = i
    BY <1>3, OneMoves DEF IInv, PublishingPcs, Pcs
  <2> QED BY <1>1, <2>1, PublishingSays
<1>4. intent[i] = "publishing"
  <2>1. CASE intent' = intent
    BY <1>1, <2>1
  <2>2. ASSUME NEW k \in Intents, RequestCommits(k) \/ ApprovePublication(k)
        PROVE  intent[i] = "publishing"
    <3>1. \/ intent' = intent
          \/ \E s \in {"pending", "awaitingApproval"} : intent' = [intent EXCEPT ![k] = s]
      BY <2>2 DEF RequestCommits, ApprovePublication
    <3> QED BY <1>1, <1>2, <3>1
  <2>3. ASSUME NEW x \in Executors, Prepare(x)
        PROVE  intent[i] = "publishing"
    <3>1. /\ intent' = [intent EXCEPT ![executor[x].intent] = "publishing"]
          /\ executor' = [executor EXCEPT ![x].pc = "looking",
                            ![x].token = lease[executor[x].intent].token + 1]
      BY <2>3 DEF Prepare
    <3>2. CASE executor[x].intent = i
      <4>1. executor'[x].pc = "looking" /\ executor'[x].intent = i
        BY <1>2, <3>1, <3>2 DEF ExecutorStates
      <4> QED BY <1>1, <4>1, PublishingSays DEF PublishingPcs
    <3> QED BY <1>1, <1>2, <3>1, <3>2
  <2>5. ASSUME NEW x \in Executors, PrepareAnswerLost(x)
        PROVE  intent[i] = "publishing"
    <3>1. /\ intent' = [intent EXCEPT ![executor[x].intent] = "publishing"]
          /\ executor[x].pc = "preparing" /\ Throw(x, "answering")
      BY <2>5 DEF PrepareAnswerLost
    <3>2. executor'[x].threw
      BY <3>1, OneMoves DEF IInv, Pcs
    <3>3. executor[x].intent # i
      BY <3>1, <3>2 DEF BreaksOff
    <3> QED BY <1>1, <1>2, <3>1, <3>3
  <2>4. ASSUME NEW x \in Executors, Record(x) \/ RecordThrows(x)
        PROVE  intent[i] = "publishing"
    <3>1. PICK s \in {"published", "outcomeUnknown", "failed"} :
            intent' = intent \/ intent' = [intent EXCEPT ![executor[x].intent] = s]
      BY <2>4, RecordingSays DEF Record, RecordThrows
    <3> QED BY <1>1, <1>2, <3>1
  <2> QED BY <2>1, <2>2, <2>3, <2>4, <2>5
          DEF Next, Request, Execute, AnalysisCompletes, CompletionDeadLettered,
              RequestReadsJob, RequestReadsResult, SchedulePublication, Fetch, Reconcile, Answer,
              ExpireDelivery, Crash, PrepareDeclines, PrepareThrows, Look,
              DestinationThrows, PostWritten, PostUnknown, LateWriteArrives, Release,
              ReleaseThrows, LeaseExpires, record
<1>5. PICK x \in Executors : Publishing(x, i)
  BY <1>4 DEF Abandoned
<1>6. executor[x].intent = i /\ executor[x].pc \in PublishingPcs
  BY <1>5, PublishingSays
<1>7. executor'[x].pc # executor[x].pc \/ executor'[x].intent # i
  BY <1>1, <1>6, PublishingSays
<1>8. executor' # executor
  BY <1>6, <1>7
<1>9. CASE \E y \in Executors : Answer(y) \/ Crash(y)
  <2>1. PICK y \in Executors : Answer(y) \/ Crash(y)
    BY <1>9
  <2>2. executor' = [executor EXCEPT ![y] = Idle]
    BY <2>1 DEF Answer, Crash
  <2>3. y = x
    BY <1>2, <1>6, <1>7, <2>2
  <2> QED BY <1>2, <1>5, <2>2, <2>3, IdleTyped DEF BreaksOff
<1>10. CASE \E k \in Intents : ExpireDelivery(k)
  BY <1>2, <1>6, <1>7, <1>10 DEF ExpireDelivery, ExecutorStates
<1>11. CASE \E k \in Intents, y \in Executors : Fetch(y, k) \/ Reconcile(y, k)
  <2>1. PICK k \in Intents, y \in Executors : Fetch(y, k) \/ Reconcile(y, k)
    BY <1>11
  <2>2. executor[y].pc = "idle"
    BY <2>1 DEF Fetch, Reconcile
  <2>3. PICK begun \in ExecutorStates : executor' = [executor EXCEPT ![y] = begun]
    BY <2>1, FetchSays
  <2>4. \A z \in Executors \ {y} : executor'[z] = executor[z]
    BY <1>2, <2>3
  <2> QED BY <1>6, <1>7, <2>2, <2>4 DEF PublishingPcs
<1>12. ASSUME NEW y \in Executors,
              \/ PrepareDeclines(y) \/ PrepareThrows(y) \/ Prepare(y)
              \/ PrepareAnswerLost(y) \/ Release(y) \/ ReleaseThrows(y)
       PROVE  FALSE
  <2>1. /\ executor[y].pc \in {"preparing", "releasing"}
        /\ \A z \in Executors \ {y} : executor'[z] = executor[z]
    BY <1>2, <1>12
       DEF PrepareDeclines, PrepareThrows, PrepareAnswerLost, Prepare, Release,
           ReleaseThrows, Goto, Throw
  <2> QED BY <1>6, <1>7, <2>1 DEF PublishingPcs
<1>13. ASSUME NEW y \in Executors,
              \/ Look(y) \/ DestinationThrows(y) \/ PostWritten(y) \/ PostUnknown(y)
              \/ Record(y) \/ RecordThrows(y)
       PROVE  y = x
  <2>1. \A z \in Executors \ {y} : executor'[z] = executor[z]
    BY <1>2, <1>13
       DEF Look, DestinationThrows, PostWritten, PostUnknown, Record, RecordThrows,
           Goto, Throw
  <2> QED BY <1>6, <1>7, <2>1
<1>14. CASE Look(x) \/ DestinationThrows(x) \/ PostWritten(x) \/ PostUnknown(x)
  <2>1. \E pc \in PublishingPcs : Goto(x, pc) \/ Throw(x, pc)
    BY <1>14 DEF Look, DestinationThrows, PostWritten, PostUnknown, PublishingPcs
  <2> QED BY <1>3, <1>6, <2>1
<1>15. CASE Record(x)
  <2>1. intent' = [intent EXCEPT ![i] = Recording[executor[x].pc]]
        /\ Recording[executor[x].pc] # "publishing"
    BY <1>6, <1>15, RecordingSays DEF Record
  <2> QED BY <1>1, <1>2, <2>1
<1>16. CASE RecordThrows(x)
  <2>1. executor[x].pc = "recordFailure" \/ Throw(x, "recordFailure")
    BY <1>16 DEF RecordThrows
  <2> QED BY <1>3, <1>5, <1>6, <2>1 DEF PublishingPcs, BreaksOff
<1> QED BY <1>8, <1>9, <1>10, <1>11, <1>12, <1>13, <1>14, <1>15, <1>16
        DEF Next, Request, Execute, AnalysisCompletes, CompletionDeadLettered,
            RequestReadsJob, RequestReadsResult, RequestCommits, SchedulePublication, ApprovePublication,
            LateWriteArrives, LeaseExpires

\* Binding, approval and scheduling leave no gap between them: an intent is stranded
\* only by a late request or by an event or a command that is given up, and stays
\* publishing only if its executor dies, cannot record its failure, or does not
\* learn that it has taken the intent.
THEOREM IntentsKeptInSight == Spec => NoneForgotten
<1>1. FInv /\ [Next]_vars =>
        [\A i \in Intents :
           /\ ~Stranded(i) /\ Stranded(i)' => LateRequest(i) \/ GivenUp(i)
           /\ ~Abandoned(i) /\ Abandoned(i)' =>
                \E x \in Executors : BreaksOff(x, i)]_vars
  BY StrandedSays, AbandonedByFailure DEF FInv
<1> QED BY <1>1, FollowedAlways, PTL DEF Spec, NoneForgotten
=============================================================================
