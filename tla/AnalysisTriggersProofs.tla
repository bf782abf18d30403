------------------------ MODULE AnalysisTriggersProofs ------------------------
(***************************************************************************)
(* Safety of AnalysisTriggers for every set of requests and workers, every *)
(* retry limit and any number of versions and faults, checked by TLAPS.    *)
(*                                                                         *)
(* The argument is about the rows: a captured one is never written again,  *)
(* because every update asks for "capturing" and its own fence, or for a   *)
(* state in which the row can be claimed.  So what a worker that submits   *)
(* reads about its request is what was captured, and the job it finds or   *)
(* creates is the one of that snapshot.                                    *)
(***************************************************************************)
EXTENDS AnalysisTriggers, TLAPS

Row == [state : RequestStates, leased : BOOLEAN, fence : Workers \union {None},
        snapshot : 0 .. MaxVersion, retryable : BOOLEAN]

Handler == [request : Requests \union {None}, live : BOOLEAN,
            pc : {"idle", "load", "persist", "submit"}, version : 0 .. MaxVersion]

\* A row has a snapshot once it is captured, and no lease from then on.
CapturedRows ==
  \A r \in Requests :
    IF request[r].state = "captured"
    THEN request[r].snapshot \in Versions /\ ~request[r].leased
    ELSE request[r].snapshot = 0

\* A handler works on a request; when it submits, the request is captured.
HandlersHaveRequests ==
  \A w \in Workers :
    /\ worker[w].pc = "idle" => worker[w] = Idle
    /\ worker[w].pc # "idle" => worker[w].request \in Requests
    /\ worker[w].pc = "persist" => worker[w].version \in Versions
    /\ worker[w].pc = "submit" => request[worker[w].request].state = "captured"

\* The identity of a job is its snapshot; who is linked is captured.
JobsOfSnapshots ==
  /\ \A j \in jobs : j.request = None
  /\ \A r \in Requests : link[r] # None => request[r].state = "captured"

\* The inductive invariant.
IInv == /\ TypeOK /\ CapturedRows /\ HandlersHaveRequests /\ JobsOfSnapshots
        /\ OneJobPerSnapshot

-----------------------------------------------------------------------------
(* The initial states *)

LEMMA InitInvariant == Init => IInv
<1> SUFFICES ASSUME Init PROVE IInv
  OBVIOUS
<1>1. NoRow \in Row /\ NoRow.state = "none" /\ NoRow.snapshot = 0
  BY TriggerAssumption DEF NoRow, Row, RequestStates
<1>2. Idle \in Handler /\ Idle.pc = "idle"
  BY TriggerAssumption DEF Idle, Handler
<1>3. TypeOK
  BY <1>1, <1>2, TriggerAssumption DEF Init, TypeOK, Row, Handler, Stages, Versions
<1>4. CapturedRows /\ HandlersHaveRequests
  BY <1>1, <1>2 DEF Init, CapturedRows, HandlersHaveRequests
<1>5. JobsOfSnapshots /\ OneJobPerSnapshot
  BY DEF Init, JobsOfSnapshots, OneJobPerSnapshot
<1> QED BY <1>3, <1>4, <1>5 DEF IInv

-----------------------------------------------------------------------------
(* Rows, handlers and deliveries *)

LEMMA FaultTyped == ASSUME TypeOK, Fault PROVE faults' \in 0 .. MaxFaults
  BY TriggerAssumption DEF TypeOK, Fault

\* What the updates of a row leave in it.
LEMMA LeaseUpdate ==
  ASSUME NEW row \in Row
  PROVE  /\ [row EXCEPT !.leased = FALSE] \in Row
         /\ [row EXCEPT !.leased = FALSE].state = row.state
         /\ [row EXCEPT !.leased = FALSE].snapshot = row.snapshot
         /\ ~[row EXCEPT !.leased = FALSE].leased
         /\ ~row.leased => [row EXCEPT !.leased = FALSE] = row
<1>1. [row EXCEPT !.leased = FALSE] \in Row
  BY DEF Row
<1>2. /\ [row EXCEPT !.leased = FALSE].state = row.state
      /\ [row EXCEPT !.leased = FALSE].snapshot = row.snapshot
      /\ ~[row EXCEPT !.leased = FALSE].leased
  BY DEF Row
<1>3. ASSUME ~row.leased PROVE [row EXCEPT !.leased = FALSE] = row
  <2>1. row.leased = FALSE
    BY <1>3 DEF Row
  <2> QED BY <2>1 DEF Row
<1> QED BY <1>1, <1>2, <1>3

LEMMA ClaimUpdate ==
  ASSUME NEW row \in Row, NEW w \in Workers, NEW new,
         new = [row EXCEPT !.state = "capturing", !.fence = w, !.leased = TRUE]
  PROVE  new \in Row /\ new.state = "capturing" /\ new.snapshot = row.snapshot
<1>1. new \in Row
  BY DEF Row, RequestStates
<1>2. new.state = "capturing" /\ new.snapshot = row.snapshot
  BY DEF Row
<1> QED BY <1>1, <1>2

LEMMA FailureUpdate ==
  ASSUME NEW row \in Row, NEW b \in BOOLEAN, NEW new,
         new = [row EXCEPT !.state = "failed", !.leased = FALSE, !.retryable = b]
  PROVE  new \in Row /\ new.state = "failed" /\ new.snapshot = row.snapshot
<1>1. new \in Row
  BY DEF Row, RequestStates
<1>2. new.state = "failed" /\ new.snapshot = row.snapshot
  BY DEF Row
<1> QED BY <1>1, <1>2

LEMMA PendingUpdate ==
  ASSUME NEW row \in Row, NEW new, new = [row EXCEPT !.state = "pending"]
  PROVE  new \in Row /\ new.state = "pending" /\ new.snapshot = row.snapshot
<1>1. new \in Row
  BY DEF Row, RequestStates
<1>2. new.state = "pending" /\ new.snapshot = row.snapshot
  BY DEF Row
<1> QED BY <1>1, <1>2

\* What a delivery puts into a handler.
LEMMA HandlerUpdate ==
  ASSUME NEW r \in Requests, NEW pc \in {"load", "submit"}, NEW new,
         new = [Idle EXCEPT !.request = r, !.pc = pc, !.live = TRUE]
  PROVE  new \in Handler /\ new.pc = pc /\ new.request = r
<1>1. Idle \in Handler
  BY TriggerAssumption DEF Idle, Handler
<1>2. new \in Handler
  BY <1>1 DEF Handler
<1>3. new.pc = pc /\ new.request = r
  BY <1>1 DEF Handler
<1> QED BY <1>2, <1>3

\* The rows after a step: captured ones are as before.
RowsKept ==
  /\ request' \in [Requests -> Row]
  /\ CapturedRows'
  /\ \A r \in Requests : request[r].state = "captured" => request'[r] = request[r]

\* A step that rewrites one row.
LEMMA OneRow ==
  ASSUME IInv, NEW r \in Requests, NEW row \in Row,
         request' = [request EXCEPT ![r] = row],
         request[r].state = "captured" => row = request[r],
         IF row.state = "captured" THEN row.snapshot \in Versions /\ ~row.leased
         ELSE row.snapshot = 0
  PROVE  RowsKept
<1>1. request \in [Requests -> Row]
  BY DEF IInv, TypeOK, Row
<1>2. request'[r] = row /\ \A q \in Requests \ {r} : request'[q] = request[q]
  BY <1>1
<1>3. request' \in [Requests -> Row]
  BY <1>1
<1>4. CapturedRows'
  BY <1>2 DEF IInv, CapturedRows
<1> QED BY <1>2, <1>3, <1>4 DEF RowsKept

LEMMA SameRows == ASSUME IInv, UNCHANGED request PROVE RowsKept
  BY DEF IInv, TypeOK, Row, RowsKept, CapturedRows

LEMMA LeaseGoes ==
  ASSUME IInv, NEW r \in Requests, request' = [request EXCEPT ![r].leased = FALSE]
  PROVE  RowsKept
<1> DEFINE row == [request[r] EXCEPT !.leased = FALSE]
<1>1. request[r] \in Row
  BY DEF IInv, TypeOK, Row
<1>2. /\ row \in Row
      /\ row.state = request[r].state /\ row.snapshot = request[r].snapshot
      /\ ~row.leased /\ (~request[r].leased => row = request[r])
  BY <1>1, LeaseUpdate
<1>3. request' = [request EXCEPT ![r] = row]
  OBVIOUS
<1> HIDE DEF row
<1>4. row \in Row
  BY <1>2
<1>5. request[r].state = "captured" => row = request[r]
  BY <1>2 DEF IInv, CapturedRows
<1>6. IF row.state = "captured" THEN row.snapshot \in Versions /\ ~row.leased
      ELSE row.snapshot = 0
  BY <1>2 DEF IInv, CapturedRows
<1> QED BY <1>3, <1>4, <1>5, <1>6, OneRow

LEMMA FailureKeepsRows ==
  ASSUME IInv, NEW w \in Workers, worker[w].pc # "idle",
         NEW b \in BOOLEAN, CaptureFailed(w, b)
  PROVE  RowsKept
<1> DEFINE r == worker[w].request
           row == [request[r] EXCEPT !.state = "failed", !.leased = FALSE,
                                     !.retryable = b]
<1>1. r \in Requests
  BY DEF IInv, HandlersHaveRequests
<1>2. request[r] \in Row
  BY <1>1 DEF IInv, TypeOK, Row
<1>3. CASE HoldsCapture(w)
  <2>1. request[r].state = "capturing"
    BY <1>3 DEF HoldsCapture
  <2>2. request' = [request EXCEPT ![r] = row]
    BY <1>3 DEF CaptureFailed
  <2>3. row \in Row /\ row.state = "failed" /\ row.snapshot = request[r].snapshot
    BY <1>2, FailureUpdate
  <2> HIDE DEF row
  <2>4. row.state # "captured" /\ row.snapshot = 0
    BY <1>1, <2>1, <2>3 DEF IInv, CapturedRows
  <2> HIDE DEF r
  <2> QED BY <1>1, <2>1, <2>2, <2>3, <2>4, OneRow
<1>4. CASE ~HoldsCapture(w)
  BY <1>4, SameRows DEF CaptureFailed
<1> QED BY <1>3, <1>4

LEMMA RedeliveryTyped ==
  ASSUME TypeOK, NEW r \in Requests, Redelivered(r)
  PROVE  /\ stage' \in [Requests -> Stages]
         /\ retries' \in [Requests -> 0 .. RetryLimit]
<1>1. stage' \in [Requests -> Stages]
  BY DEF TypeOK, Redelivered, Stages
<1>2. retries[r] \in 0 .. RetryLimit
  BY DEF TypeOK
<1>3. (IF retries[r] < RetryLimit THEN retries[r] + 1 ELSE retries[r]) \in 0 .. RetryLimit
  BY <1>2, TriggerAssumption
<1>4. retries' \in [Requests -> 0 .. RetryLimit]
  BY <1>3 DEF TypeOK, Redelivered
<1> QED BY <1>1, <1>4

\* A handler that answers is idle afterwards, and its command typed.
LEMMA AnswerTyped ==
  ASSUME IInv, NEW w \in Workers, worker[w].pc # "idle",
         \/ Reject(w)
         \/ Acknowledge(w) /\ UNCHANGED retries
  PROVE  /\ stage' \in [Requests -> Stages]
         /\ retries' \in [Requests -> 0 .. RetryLimit]
         /\ worker' = [worker EXCEPT ![w] = Idle]
<1>1. worker[w].request \in Requests
  BY DEF IInv, HandlersHaveRequests
<1>2. CASE Reject(w)
  BY <1>1, <1>2, RedeliveryTyped DEF IInv, Reject, TypeOK
<1>3. CASE Acknowledge(w) /\ UNCHANGED retries
  BY <1>1, <1>3 DEF IInv, Acknowledge, TypeOK, Stages
<1> QED BY <1>2, <1>3

\* A step in which one handler changes, and the captured rows stay.
LEMMA OneHandler ==
  ASSUME IInv, RowsKept, NEW w \in Workers, NEW h \in Handler,
         worker' = [worker EXCEPT ![w] = h],
         h.pc = "idle" => h = Idle,
         h.pc # "idle" => h.request \in Requests,
         h.pc = "persist" => h.version \in Versions,
         h.pc = "submit" => request'[h.request].state = "captured"
  PROVE  worker' \in [Workers -> Handler] /\ HandlersHaveRequests'
<1>1. worker \in [Workers -> Handler]
  BY DEF IInv, TypeOK, Handler
<1>2. worker'[w] = h /\ \A v \in Workers \ {w} : worker'[v] = worker[v]
  BY <1>1
<1>3. \A v \in Workers :
        worker[v].pc = "submit" => request'[worker[v].request].state = "captured"
  BY DEF IInv, HandlersHaveRequests, RowsKept
<1>4. HandlersHaveRequests'
  BY <1>2, <1>3 DEF IInv, HandlersHaveRequests
<1> QED BY <1>1, <1>4

LEMMA IdleHandler ==
  ASSUME IInv, RowsKept, NEW w \in Workers, worker' = [worker EXCEPT ![w] = Idle]
  PROVE  worker' \in [Workers -> Handler] /\ HandlersHaveRequests'
<1>1. Idle \in Handler /\ Idle.pc = "idle"
  BY TriggerAssumption DEF Idle, Handler
<1> QED BY <1>1, OneHandler

LEMMA SameHandlers ==
  ASSUME IInv, RowsKept, UNCHANGED worker
  PROVE  worker' \in [Workers -> Handler] /\ HandlersHaveRequests'
<1>1. HandlersHaveRequests'
  BY DEF IInv, HandlersHaveRequests, RowsKept
<1> QED BY <1>1 DEF IInv, TypeOK, Handler

\* The parts of a step together, when no job is found or created.
LEMMA Together ==
  ASSUME IInv, RowsKept, UNCHANGED <<jobs, link>>,
         worker' \in [Workers -> Handler], HandlersHaveRequests',
         remote' \in Versions, purged' \subseteq Versions,
         stage' \in [Requests -> Stages], retries' \in [Requests -> 0 .. RetryLimit],
         abandoned' \subseteq Requests, faults' \in 0 .. MaxFaults
  PROVE  IInv'
<1>1. TypeOK'
  BY DEF IInv, TypeOK, RowsKept, Row, Handler, Identities
<1>2. JobsOfSnapshots' /\ OneJobPerSnapshot'
  BY DEF IInv, JobsOfSnapshots, OneJobPerSnapshot, RowsKept
<1> QED BY <1>1, <1>2 DEF IInv, RowsKept
-----------------------------------------------------------------------------
(* Steps *)

\* The case changes, a snapshot is purged, or nothing happens.
LEMMA OutsidePreserves ==
  ASSUME IInv, Change \/ (\E v \in Versions : PurgeSnapshot(v)) \/ UNCHANGED vars
  PROVE  IInv' /\ RowsKept
<1>1. UNCHANGED <<request, jobs, link, stage, retries, worker, abandoned, faults>>
  BY DEF Change, PurgeSnapshot, vars
<1>2. RowsKept
  BY <1>1, SameRows
<1>3. remote' \in Versions
  BY TriggerAssumption DEF IInv, TypeOK, Change, PurgeSnapshot, vars, Versions
<1>4. purged' \subseteq Versions
  BY DEF IInv, TypeOK, Change, PurgeSnapshot, vars
<1>5. worker' \in [Workers -> Handler] /\ HandlersHaveRequests'
  BY <1>1, <1>2, SameHandlers
<1> QED BY <1>1, <1>2, <1>3, <1>4, <1>5, Together DEF IInv, TypeOK

LEMMA RequestTriggerPreserves ==
  ASSUME IInv, NEW r \in Requests, RequestTrigger(r)
  PROVE  IInv' /\ RowsKept
<1> DEFINE row == [request[r] EXCEPT !.state = "pending"]
<1>1. request[r] \in Row /\ request[r].state = "none"
  BY DEF IInv, TypeOK, Row, RequestTrigger
<1>2. request' = [request EXCEPT ![r] = row]
  BY DEF RequestTrigger
<1>3. row \in Row /\ row.state = "pending" /\ row.snapshot = request[r].snapshot
  BY <1>1, PendingUpdate
<1> HIDE DEF row
<1>4. row.snapshot = 0
  BY <1>1, <1>3 DEF IInv, CapturedRows
<1>5. RowsKept
  BY <1>1, <1>2, <1>3, <1>4, OneRow
<1>6. UNCHANGED <<remote, purged, jobs, link, retries, worker, abandoned, faults>>
  BY DEF RequestTrigger
<1>7. stage' \in [Requests -> Stages]
  BY DEF IInv, TypeOK, RequestTrigger, Stages
<1>8. worker' \in [Workers -> Handler] /\ HandlersHaveRequests'
  BY <1>5, <1>6, SameHandlers
<1> QED BY <1>5, <1>6, <1>7, <1>8, Together DEF IInv, TypeOK

\* Both deliveries that begin to work.
LEMMA ClaimTyped ==
  ASSUME IInv, NEW r \in Requests, stage' = [stage EXCEPT ![r] = "active"]
  PROVE  stage' \in [Requests -> Stages]
  BY DEF IInv, TypeOK, Stages

LEMMA ClaimCapturePreserves ==
  ASSUME IInv, NEW w \in Workers, NEW r \in Requests, ClaimCapture(w, r)
  PROVE  IInv' /\ RowsKept
<1> DEFINE row == [request[r] EXCEPT !.state = "capturing", !.fence = w, !.leased = TRUE]
           h == [Idle EXCEPT !.request = r, !.pc = "load", !.live = TRUE]
<1>1. request[r] \in Row /\ request[r].state # "captured"
  BY DEF IInv, TypeOK, Row, ClaimCapture, Claimable
<1>2. request' = [request EXCEPT ![r] = row] /\ worker' = [worker EXCEPT ![w] = h]
  BY DEF ClaimCapture
<1>3. row \in Row /\ row.state = "capturing" /\ row.snapshot = request[r].snapshot
  BY <1>1, ClaimUpdate
<1>4. h \in Handler /\ h.pc = "load" /\ h.request = r
  BY HandlerUpdate
<1> HIDE DEF row, h
<1>5. row.snapshot = 0
  BY <1>1, <1>3 DEF IInv, CapturedRows
<1>6. RowsKept
  BY <1>1, <1>2, <1>3, <1>5, OneRow
<1>7. worker' \in [Workers -> Handler] /\ HandlersHaveRequests'
  BY <1>2, <1>4, <1>6, OneHandler
<1>8. stage' \in [Requests -> Stages]
  BY ClaimTyped DEF ClaimCapture
<1>9. UNCHANGED <<remote, purged, jobs, link, retries, abandoned, faults>>
  BY DEF ClaimCapture
<1> QED BY <1>6, <1>7, <1>8, <1>9, Together DEF IInv, TypeOK

LEMMA ClaimCapturedPreserves ==
  ASSUME IInv, NEW w \in Workers, NEW r \in Requests, ClaimCaptured(w, r)
  PROVE  IInv' /\ RowsKept
<1> DEFINE h == [Idle EXCEPT !.request = r, !.pc = "submit", !.live = TRUE]
<1>1. UNCHANGED <<remote, request, purged, jobs, link, retries, abandoned, faults>>
  BY DEF ClaimCaptured
<1>2. RowsKept
  BY <1>1, SameRows
<1>3. worker' = [worker EXCEPT ![w] = h] /\ request'[r].state = "captured"
  BY DEF ClaimCaptured
<1>4. h \in Handler /\ h.pc = "submit" /\ h.request = r
  BY HandlerUpdate
<1> HIDE DEF h
<1>5. worker' \in [Workers -> Handler] /\ HandlersHaveRequests'
  BY <1>2, <1>3, <1>4, OneHandler
<1>6. stage' \in [Requests -> Stages]
  BY ClaimTyped DEF ClaimCaptured
<1> QED BY <1>1, <1>2, <1>5, <1>6, Together DEF IInv, TypeOK

\* Deliveries that are answered at once.
LEMMA AnsweredPreserves ==
  ASSUME IInv, NEW w \in Workers, NEW r \in Requests,
         ClaimAlreadyCapturing(w, r) \/ ClaimRefused(w, r)
  PROVE  IInv' /\ RowsKept
<1>1. UNCHANGED <<remote, request, purged, jobs, link, worker, faults>>
  BY DEF ClaimAlreadyCapturing, ClaimRefused
<1>2. RowsKept
  BY <1>1, SameRows
<1>3. worker' \in [Workers -> Handler] /\ HandlersHaveRequests'
  BY <1>1, <1>2, SameHandlers
<1>4. stage' \in [Requests -> Stages] /\ retries' \in [Requests -> 0 .. RetryLimit]
  <2>1. CASE ClaimAlreadyCapturing(w, r)
    BY <2>1 DEF IInv, TypeOK, ClaimAlreadyCapturing, Stages
  <2>2. CASE ClaimRefused(w, r)
    BY <2>2, RedeliveryTyped DEF IInv, ClaimRefused
  <2> QED BY <2>1, <2>2
<1>5. abandoned' \subseteq Requests
  BY DEF IInv, TypeOK, ClaimAlreadyCapturing, ClaimRefused
<1> QED BY <1>1, <1>2, <1>3, <1>4, <1>5, Together DEF IInv, TypeOK

LEMMA LoadCasePreserves ==
  ASSUME IInv, NEW w \in Workers, LoadCase(w)
  PROVE  IInv' /\ RowsKept
<1> DEFINE h == [worker[w] EXCEPT !.version = remote, !.pc = "persist"]
<1>1. UNCHANGED <<remote, request, purged, jobs, link, stage, retries, abandoned, faults>>
  BY DEF LoadCase
<1>2. RowsKept
  BY <1>1, SameRows
<1>3. worker[w] \in Handler /\ worker[w].request \in Requests
  BY DEF IInv, TypeOK, Handler, HandlersHaveRequests, LoadCase
<1>4. worker' = [worker EXCEPT ![w] = h]
  BY DEF LoadCase
<1>5. /\ h \in Handler /\ h.pc = "persist" /\ h.request = worker[w].request
      /\ h.version \in Versions
  <2>1. remote \in 0 .. MaxVersion /\ remote \in Versions
    BY TriggerAssumption DEF IInv, TypeOK, Versions
  <2>2. h \in Handler
    BY <1>3, <2>1 DEF Handler
  <2>3. h.pc = "persist" /\ h.request = worker[w].request /\ h.version = remote
    BY <1>3 DEF Handler
  <2> QED BY <2>1, <2>2, <2>3
<1> HIDE DEF h
<1>6. worker' \in [Workers -> Handler] /\ HandlersHaveRequests'
  BY <1>2, <1>3, <1>4, <1>5, OneHandler
<1> QED BY <1>1, <1>2, <1>6, Together DEF IInv, TypeOK

LEMMA PersistCapturePreserves ==
  ASSUME IInv, NEW w \in Workers, PersistCapture(w)
  PROVE  IInv' /\ RowsKept
<1> DEFINE r == worker[w].request
           v == worker[w].version
           row == [request[r] EXCEPT !.state = "captured", !.leased = FALSE, !.snapshot = v]
           h == [worker[w] EXCEPT !.pc = "submit"]
<1>1. r \in Requests /\ v \in Versions /\ worker[w] \in Handler
  BY DEF IInv, TypeOK, Handler, HandlersHaveRequests, PersistCapture
<1>2. request[r] \in Row /\ request[r].state = "capturing"
  BY <1>1 DEF IInv, TypeOK, Row, PersistCapture, HoldsCapture
<1>3. request' = [request EXCEPT ![r] = row] /\ worker' = [worker EXCEPT ![w] = h]
  BY DEF PersistCapture, Persisted
<1>4. row \in Row /\ row.state = "captured" /\ row.snapshot = v /\ row.leased = FALSE
  <2>1. v \in 0 .. MaxVersion
    BY <1>1, TriggerAssumption DEF Versions
  <2>2. row \in Row
    BY <1>2, <2>1 DEF Row, RequestStates
  <2>3. row.state = "captured" /\ row.snapshot = v /\ row.leased = FALSE
    BY <1>2 DEF Row
  <2> QED BY <2>2, <2>3
<1>5. h \in Handler /\ h.pc = "submit" /\ h.request = r
  BY <1>1 DEF Handler
<1> HIDE DEF row, h, r, v
<1>6. RowsKept
  BY <1>1, <1>2, <1>3, <1>4, OneRow
<1>7. request'[r].state = "captured"
  BY <1>1, <1>3, <1>4 DEF IInv, TypeOK
<1>8. worker' \in [Workers -> Handler] /\ HandlersHaveRequests'
  BY <1>1, <1>3, <1>5, <1>6, <1>7, OneHandler
<1>9. UNCHANGED <<remote, purged, jobs, link, stage, retries, abandoned, faults>>
  BY DEF PersistCapture
<1> QED BY <1>6, <1>8, <1>9, Together DEF IInv, TypeOK

\* Handlers that end without a job.
LEMMA EndsPreserves ==
  ASSUME IInv, NEW w \in Workers,
         \/ PersistLost(w) \/ CaptureThrows(w) \/ SubmitFindsLinkedJob(w)
         \/ SubmittedBefore(w) \/ SnapshotIsPurged(w) \/ SubmitThrows(w)
  PROVE  IInv' /\ RowsKept
<1>1. worker[w].pc # "idle"
  BY DEF PersistLost, CaptureThrows, SubmitFindsLinkedJob, SubmittedBefore,
         SnapshotIsPurged, SubmitThrows
<1>2. \/ UNCHANGED request
      \/ \E b \in BOOLEAN : CaptureFailed(w, b)
  BY DEF PersistLost, CaptureThrows, SubmitFindsLinkedJob, SubmittedBefore,
         SnapshotIsPurged, SubmitThrows
<1>3. RowsKept
  BY <1>1, <1>2, SameRows, FailureKeepsRows
<1>4. Reject(w) \/ (Acknowledge(w) /\ UNCHANGED retries)
  BY DEF PersistLost, CaptureThrows, SubmitFindsLinkedJob, SubmittedBefore,
         SnapshotIsPurged, SubmitThrows
<1>5. /\ stage' \in [Requests -> Stages]
      /\ retries' \in [Requests -> 0 .. RetryLimit]
      /\ worker' = [worker EXCEPT ![w] = Idle]
  BY <1>1, <1>4, AnswerTyped
<1>6. worker' \in [Workers -> Handler] /\ HandlersHaveRequests'
  BY <1>3, <1>5, IdleHandler
<1>7. UNCHANGED <<remote, purged, jobs, link, abandoned>>
  BY DEF PersistLost, CaptureThrows, SubmitFindsLinkedJob, SubmittedBefore,
         SnapshotIsPurged, SubmitThrows
<1>8. faults' \in 0 .. MaxFaults
  <2>1. Fault \/ UNCHANGED faults
    BY DEF PersistLost, CaptureThrows, SubmitFindsLinkedJob, SubmittedBefore,
           SnapshotIsPurged, SubmitThrows
  <2> QED BY <2>1, FaultTyped DEF IInv, TypeOK
<1> QED BY <1>3, <1>5, <1>6, <1>7, <1>8, Together DEF IInv, TypeOK

\* The one step that writes jobs and links.
LEMMA SubmitPreserves ==
  ASSUME IInv, NEW w \in Workers, Submit(w)
  PROVE  IInv' /\ RowsKept
<1> DEFINE r == worker[w].request
<1>1. r \in Requests /\ request[r].state = "captured" /\ request[r].snapshot \in Versions
  BY DEF IInv, HandlersHaveRequests, CapturedRows, Submit
<1>2. UNCHANGED <<remote, request, purged, retries, abandoned, faults>>
  BY DEF Submit
<1>3. RowsKept
  BY <1>2, SameRows
<1>4. jobs' = jobs \union {Identity(r)} /\ link' = [link EXCEPT ![r] = Identity(r)]
  BY DEF Submit
<1>5. /\ stage' \in [Requests -> Stages]
      /\ worker' = [worker EXCEPT ![w] = Idle]
  BY <1>2, AnswerTyped DEF Submit
<1>6. worker' \in [Workers -> Handler] /\ HandlersHaveRequests'
  BY <1>3, <1>5, IdleHandler
<1> HIDE DEF r
<1>7. /\ Identity(r) \in Identities
      /\ Identity(r).request = None /\ Identity(r).snapshot = request[r].snapshot
  BY <1>1 DEF Identity, Identities
<1>8. jobs' \subseteq Identities /\ link' \in [Requests -> Identities \union {None}]
  BY <1>1, <1>4, <1>7 DEF IInv, TypeOK
<1>9. TypeOK'
  BY <1>2, <1>5, <1>6, <1>8 DEF IInv, TypeOK, Handler
<1>10. \A q \in Requests : link'[q] = link[q] \/ (q = r /\ link'[q] = Identity(r))
  BY <1>1, <1>4 DEF IInv, TypeOK
<1>11. JobsOfSnapshots'
  BY <1>1, <1>2, <1>4, <1>7, <1>10 DEF IInv, JobsOfSnapshots
<1>12. OneJobPerSnapshot'
  <2>1. \A j, k \in jobs' : j.snapshot = k.snapshot => j = k
    BY <1>8, <1>11 DEF JobsOfSnapshots, Identities
  <2>2. \A q \in Requests : link'[q] # None =>
          link'[q] \in jobs' /\ link'[q].snapshot = request'[q].snapshot
    BY <1>2, <1>4, <1>7, <1>10 DEF IInv, OneJobPerSnapshot
  <2> QED BY <2>1, <2>2 DEF OneJobPerSnapshot
<1> QED BY <1>3, <1>6, <1>9, <1>11, <1>12 DEF IInv, RowsKept

\* A lease lapses, a delivery expires, a process dies.
LEMMA TimePreserves ==
  ASSUME IInv,
         \/ \E r \in Requests : LeaseLapses(r)
         \/ \E w \in Workers : ExpireDelivery(w) \/ Crash(w)
  PROVE  IInv' /\ RowsKept
<1>1. ASSUME NEW r \in Requests, LeaseLapses(r)
      PROVE  IInv' /\ RowsKept
  <2>1. RowsKept
    BY <1>1, LeaseGoes DEF LeaseLapses
  <2>2. UNCHANGED <<remote, purged, jobs, link, stage, retries, worker, abandoned>>
    BY <1>1 DEF LeaseLapses
  <2>3. faults' \in 0 .. MaxFaults
    BY <1>1, FaultTyped DEF IInv, TypeOK, LeaseLapses
  <2>4. worker' \in [Workers -> Handler] /\ HandlersHaveRequests'
    BY <2>1, <2>2, SameHandlers
  <2> QED BY <2>1, <2>2, <2>3, <2>4, Together DEF IInv, TypeOK
<1>2. ASSUME NEW w \in Workers, ExpireDelivery(w)
      PROVE  IInv' /\ RowsKept
  <2> DEFINE h == [worker[w] EXCEPT !.live = FALSE]
  <2>1. worker[w].pc # "idle" /\ worker[w].request \in Requests /\ worker[w] \in Handler
    BY <1>2 DEF IInv, TypeOK, HandlersHaveRequests, ExpireDelivery, Idle, Handler
  <2>2. RowsKept
    BY <1>2, <2>1, LeaseGoes DEF ExpireDelivery
  <2>3. stage' \in [Requests -> Stages] /\ retries' \in [Requests -> 0 .. RetryLimit]
    BY <1>2, <2>1, RedeliveryTyped DEF IInv, ExpireDelivery
  <2>4. UNCHANGED <<remote, purged, jobs, link, abandoned>>
    BY <1>2 DEF ExpireDelivery
  <2>5. faults' \in 0 .. MaxFaults
    BY <1>2, FaultTyped DEF IInv, ExpireDelivery
  <2>6. worker' = [worker EXCEPT ![w] = h]
    BY <1>2 DEF ExpireDelivery
  <2>7. /\ h \in Handler /\ h.pc = worker[w].pc /\ h.request = worker[w].request
        /\ h.version = worker[w].version
    BY <2>1 DEF Handler
  <2> HIDE DEF h
  <2>8. worker[w].pc = "submit" => request'[worker[w].request].state = "captured"
    BY <2>1, <2>2 DEF IInv, HandlersHaveRequests, RowsKept
  <2>9. worker' \in [Workers -> Handler] /\ HandlersHaveRequests'
    BY <2>1, <2>2, <2>6, <2>7, <2>8, OneHandler DEF IInv, HandlersHaveRequests
  <2> QED BY <2>2, <2>3, <2>4, <2>5, <2>9, Together DEF IInv, TypeOK
<1>3. ASSUME NEW w \in Workers, Crash(w)
      PROVE  IInv' /\ RowsKept
  <2>1. worker[w].pc # "idle" /\ worker[w].request \in Requests
    BY <1>3 DEF IInv, HandlersHaveRequests, Crash
  <2>2. RowsKept
    BY <1>3, <2>1, LeaseGoes, SameRows DEF Crash
  <2>3. stage' \in [Requests -> Stages] /\ retries' \in [Requests -> 0 .. RetryLimit]
    BY <1>3, <2>1, RedeliveryTyped DEF IInv, TypeOK, Crash
  <2>4. UNCHANGED <<remote, purged, jobs, link, abandoned>>
    BY <1>3 DEF Crash
  <2>5. faults' \in 0 .. MaxFaults
    BY <1>3, FaultTyped DEF IInv, Crash
  <2>6. worker' \in [Workers -> Handler] /\ HandlersHaveRequests'
    BY <1>3, <2>2, IdleHandler DEF Crash
  <2> QED BY <2>2, <2>3, <2>4, <2>5, <2>6, Together DEF IInv, TypeOK
<1> QED BY <1>1, <1>2, <1>3

-----------------------------------------------------------------------------
(* The theorems *)

LEMMA StepPreserves == IInv /\ [Next]_vars => IInv' /\ RowsKept
<1> SUFFICES ASSUME IInv, [Next]_vars PROVE IInv' /\ RowsKept
  OBVIOUS
<1>1. CASE Change \/ (\E v \in Versions : PurgeSnapshot(v)) \/ UNCHANGED vars
  BY <1>1, OutsidePreserves
<1>2. ASSUME NEW r \in Requests, RequestTrigger(r) \/ LeaseLapses(r)
      PROVE  IInv' /\ RowsKept
  BY <1>2, RequestTriggerPreserves, TimePreserves
<1>3. ASSUME NEW w \in Workers, Deliver(w)
      PROVE  IInv' /\ RowsKept
  BY <1>3, ClaimCapturePreserves, ClaimCapturedPreserves, AnsweredPreserves DEF Deliver
<1>4. ASSUME NEW w \in Workers, Handle(w)
      PROVE  IInv' /\ RowsKept
  BY <1>4, LoadCasePreserves, PersistCapturePreserves, SubmitPreserves, EndsPreserves
     DEF Handle
<1>5. ASSUME NEW w \in Workers,
             CaptureThrows(w) \/ SubmitThrows(w) \/ ExpireDelivery(w) \/ Crash(w)
      PROVE  IInv' /\ RowsKept
  BY <1>5, EndsPreserves, TimePreserves
<1> QED BY <1>1, <1>2, <1>3, <1>4, <1>5 DEF Next

LEMMA Invariance == Spec => []IInv
  BY InitInvariant, StepPreserves, PTL DEF Spec

\* The rows of requests, jobs and links have their types.
THEOREM TypeCorrect == Spec => []TypeOK
<1>1. IInv => TypeOK
  BY DEF IInv
<1> QED BY <1>1, Invariance, PTL

\* However many requests ask for one case, and however often their commands are
\* delivered: one job per content, and who is linked is linked to the job of what
\* was captured for it.
THEOREM JobsUnique == Spec => []OneJobPerSnapshot
<1>1. IInv => OneJobPerSnapshot
  BY DEF IInv
<1> QED BY <1>1, Invariance, PTL

\* No worker, however late, writes a captured request again.
THEOREM CapturesFinal == Spec => CapturedForGood
<1> DEFINE Kept == \A r \in Requests : request[r].snapshot # 0 => request'[r] = request[r]
<1>1. IInv /\ [Next]_vars => Kept
  BY StepPreserves DEF IInv, CapturedRows, RowsKept
<1>2. IInv /\ [Next]_vars => [Kept]_vars
  BY <1>1
<1> QED BY <1>2, Invariance, PTL DEF Spec, CapturedForGood
=============================================================================
