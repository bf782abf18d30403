---------------------------- MODULE CaseDiscovery ----------------------------
(***************************************************************************)
(* Scheduled discovery of cases: the cursor row of a schedule, the workers *)
(* that execute analysis.discover.v1, and the Jitbit source whose pages    *)
(* they turn into analysis requests.                                       *)
(*                                                                         *)
(* Jitbit lists the tickets changed since a day, by offset.  A worker      *)
(* claims the cursor under a lease with a fence, asks for a page, commits  *)
(* one request per ticket, saves the cursor of the next page, and goes on; *)
(* the last page moves the cursor to the day on which it was read.  A pass *)
(* that fails in the middle is continued from the saved offset, of a       *)
(* listing that may have changed since.                                    *)
(*                                                                         *)
(* External: the listing has the ticket changed last first (the connector  *)
(* asks for no order) and no ticket leaves it.  A request, once committed, *)
(* captures the ticket as it is then or later.                             *)
(*                                                                         *)
(* As written, every claim throws: it asks for FOR UPDATE OF a cursor that *)
(* it reaches by a LEFT JOIN, which PostgreSQL refuses, and it reads a     *)
(* column that it has not selected.  That is the system with QueryAccepted *)
(* = FALSE, in which nothing is ever discovered.  With TRUE, claim is the  *)
(* transaction that the code means, which may throw: whatever holds of it  *)
(* in every state holds of the system as written.                          *)
(*                                                                         *)
(* The names are this module's own, so that it can be extended together    *)
(* with Schedules, whose occurrences the commands are.                     *)
(***************************************************************************)
EXTENDS Integers, Sequences, FiniteSetsExt

CONSTANTS
  Tickets,
  Workers,
  Commands,    \* analysis.discover.v1, each used again for a later occurrence
  PageSize,    \* discoveryPageSize
  Overlap,     \* updatedFromOverlapDays
  QueryAccepted, \* whether PostgreSQL accepts the query of claim
  MaxDay,      \* BOUND: the calendar
  MaxChanges,  \* BOUND: changes of tickets
  MaxTroubles, \* BOUND: crashes, failures, leases lapsing under their holder
  Nothing

ASSUME DiscoveryAssumption ==
  /\ IsFiniteSet(Tickets)
  /\ PageSize \in Nat \ {0} /\ Overlap \in Nat \ {0}
  /\ QueryAccepted \in BOOLEAN
  /\ MaxDay \in Nat /\ MaxChanges \in Nat /\ MaxTroubles \in Nat
  /\ Nothing \notin Commands \union Workers

VARIABLES
  today,
  place,     \* place[t]: its place in the listing, the one changed last is first
  changed,   \* changed[t]: the day of its last change
  version,   \* version[t]: its fingerprint
  cursor,    \* the saved cursor, and (history) the day on which its pass began
  row,       \* state, fence and lease of the cursor row.  The fence only grows:
             \* it is the fence of the worker that claimed last, or of none
  stage,     \* stage[c]: the command in pg-boss
  worker,    \* worker[w]: the delivery it handles
  requests,  \* idempotency keys of the requests: command, ticket, fingerprint
  covered,   \* covered[t]: the version that a request has captured
  longPass,  \* history: a pass ended more than Overlap days after it began
  troubles

discoveryVars == <<today, place, changed, version, cursor, row, stage, worker,
                   requests, covered, longPass, troubles>>

jitbit == <<today, place, changed, version>>

Days == 0 .. MaxDay

Places == Injection(Tickets, 1 .. Cardinality(Tickets))

RowStates == {"idle", "running", "failed"}

Pcs == {"fetch", "request", "advance", "complete"}

Start == [from |-> 0, offset |-> 0, began |-> 0]

Idle == [command |-> Nothing, pc |-> "fetch", at |-> Start, page |-> <<>>]

DiscoveryInit ==
  /\ today = 0
  /\ place \in Places
  /\ changed = [t \in Tickets |-> 0]
  /\ version = [t \in Tickets |-> 1]
  /\ cursor = Start
  /\ row = [state |-> "idle", fence |-> Nothing, leased |-> FALSE]
  /\ stage = [c \in Commands |-> "acknowledged"]
  /\ worker = [w \in Workers |-> Idle]
  /\ requests = {}
  /\ covered = [t \in Tickets |-> 0]
  /\ longPass = FALSE
  /\ troubles = 0

Trouble == troubles < MaxTroubles /\ troubles' = troubles + 1

-----------------------------------------------------------------------------
(* Jitbit, and the schedule                                                  *)

NewDay ==
  /\ today < MaxDay
  /\ today' = today + 1
  /\ UNCHANGED <<place, changed, version, cursor, row, stage, worker,
                 requests, covered, longPass, troubles>>

Changes == MapThenSumSet(LAMBDA t : version[t] - 1, Tickets)

Change(t) ==
  /\ Changes < MaxChanges
  /\ place' = [u \in Tickets |-> IF u = t THEN 1
                                 ELSE IF place[u] < place[t] THEN place[u] + 1
                                 ELSE place[u]]
  /\ changed' = [changed EXCEPT ![t] = today]
  /\ version' = [version EXCEPT ![t] = @ + 1]
  /\ UNCHANGED <<today, cursor, row, stage, worker, requests, covered, longPass,
                 troubles>>

\* The next occurrence of the schedule.
Enqueue(c) ==
  /\ stage[c] = "acknowledged"
  /\ stage' = [stage EXCEPT ![c] = "created"]
  /\ UNCHANGED <<jitbit, cursor, row, worker, requests, covered, longPass, troubles>>

-----------------------------------------------------------------------------
(* RuntimeCaseDiscoveryService.execute                                       *)

\* Mutant of Opened: the saved day is used as it is.
OpenedAsSaved(c) == c

\* parseCursor: a cursor at the start of a pass is moved back by the overlap.
Opened(c) ==
  IF c.offset = 0
  THEN [c EXCEPT !.from = IF @ > Overlap THEN @ - Overlap ELSE 0]
  ELSE c

Claimable == ~(row.state = "running" /\ row.leased)

Claim(w, c) ==
  /\ worker[w] = Idle /\ stage[c] = "created"
  /\ QueryAccepted /\ Claimable
  /\ row' = [state |-> "running", fence |-> w, leased |-> TRUE]
  /\ stage' = [stage EXCEPT ![c] = "active"]
  /\ worker' = [worker EXCEPT ![w] =
                  [Idle EXCEPT !.command = c, !.at = Opened(cursor)]]
  /\ UNCHANGED <<jitbit, cursor, requests, covered, longPass, troubles>>

\* The occurrence is over.  Its key was part of the keys of its requests: those
\* of the command's next occurrence are others.
Acknowledge(c) ==
  /\ stage' = [stage EXCEPT ![c] = "acknowledged"]
  /\ requests' = {q \in requests : q[1] # c}

\* alreadyRunning: the handler returns, and the command is acknowledged.
ClaimAlreadyRunning(w, c) ==
  /\ worker[w] = Idle /\ stage[c] = "created"
  /\ QueryAccepted /\ ~Claimable
  /\ Acknowledge(c)
  /\ UNCHANGED <<jitbit, cursor, row, worker, covered, longPass, troubles>>

\* The query is refused, or the schedule is not available any more, at each of the
\* deliveries: nothing is written, and the command that is dead after them ends
\* its occurrence.
ClaimThrows(w, c) ==
  /\ worker[w] = Idle /\ stage[c] = "created"
  /\ Acknowledge(c)
  /\ UNCHANGED <<jitbit, cursor, row, worker, covered, longPass, troubles>>

Listed(from) == {t \in Tickets : changed[t] >= from}

\* The offset of a ticket in that listing, and the ticket at an offset.
Before(t, from) == Cardinality({u \in Listed(from) : place[u] < place[t]})

At(from, n) == CHOOSE t \in Listed(from) : Before(t, from) = n

\* Mutant of NextWatermark: the day in a time zone ahead of UTC.
NextWatermarkAhead == today + 1

NextWatermark == today

\* GET /api/Tickets?count&offset&updatedFrom, and the cursor yielded with it: a
\* short page is the last one and its cursor is the day.
Fetch(w) ==
  LET at == worker[w].at
      left == Cardinality(Listed(at.from)) - at.offset
      size == IF left < PageSize THEN left ELSE PageSize
      page == [i \in 1 .. size |-> At(at.from, at.offset + i - 1)]
      began == IF at.offset = 0 THEN today ELSE at.began
      short == size < PageSize
  IN /\ worker[w] # Idle /\ worker[w].pc = "fetch"
     /\ worker' = [worker EXCEPT
          ![w].page = [i \in 1 .. size |-> <<page[i], version[page[i]]>>],
          ![w].at = [from |-> IF short THEN NextWatermark ELSE at.from,
                     offset |-> IF short THEN 0 ELSE at.offset + PageSize,
                     began |-> began],
          ![w].pc = IF size = 0 THEN "advance" ELSE "request"]
     /\ UNCHANGED <<jitbit, cursor, row, stage, requests, covered, longPass, troubles>>

\* RequestAnalysisTrigger for the next ticket of the page, in a transaction of
\* its own.  A key that is known is replayed: no new request, no new capture.
CreateRequest(w) ==
  LET item == Head(worker[w].page)
      key == <<worker[w].command, item[1], item[2]>>
  IN /\ worker[w] # Idle /\ worker[w].pc = "request"
     /\ requests' = requests \union {key}
     /\ covered' = IF key \in requests THEN covered
                   ELSE [covered EXCEPT ![item[1]] = version[item[1]]]
     /\ worker' = [worker EXCEPT
          ![w].page = Tail(@),
          ![w].pc = IF Tail(worker[w].page) = <<>> THEN "advance" ELSE "request"]
     /\ UNCHANGED <<jitbit, cursor, row, stage, longPass, troubles>>

\* WHERE execution_fence = .. AND state = 'running' AND lease_expires_at > NOW()
HoldsCursor(w) ==
  row = [state |-> "running", fence |-> w, leased |-> TRUE]

\* The cursor is saved after every page, not only after the last one, which is
\* the one whose cursor has the offset 0.
AdvanceCursor(w) ==
  LET at == worker[w].at IN
  /\ worker[w] # Idle /\ worker[w].pc = "advance" /\ HoldsCursor(w)
  /\ cursor' = IF at.offset = 0 THEN [at EXCEPT !.began = 0] ELSE at
  /\ longPass' = (longPass \/ (at.offset = 0 /\ at.from - at.began > Overlap))
  /\ worker' = [worker EXCEPT
                  ![w].pc = IF at.offset = 0 THEN "complete" ELSE "fetch"]
  /\ UNCHANGED <<jitbit, row, stage, requests, covered, troubles>>

Complete(w) ==
  /\ worker[w] # Idle /\ worker[w].pc = "complete" /\ HoldsCursor(w)
  /\ row' = [row EXCEPT !.state = "idle", !.leased = FALSE]
  /\ Acknowledge(worker[w].command)
  /\ worker' = [worker EXCEPT ![w] = Idle]
  /\ UNCHANGED <<jitbit, cursor, covered, longPass, troubles>>

\* catch: fail() is fenced but asks for no lease; its own error is swallowed.
\* The handler rejects and the command comes again after 10 s.
RowFailed(w) ==
  row' = IF row.state = "running" /\ row.fence = w
         THEN [row EXCEPT !.state = "failed", !.leased = FALSE]
         ELSE row

Reject(w) ==
  /\ stage' = [stage EXCEPT ![worker[w].command] = "created"]
  /\ worker' = [worker EXCEPT ![w] = Idle]
  /\ UNCHANGED <<jitbit, cursor, requests, covered, longPass>>

\* advance() or complete() finds the claim lost.
ClaimLost(w) ==
  /\ worker[w] # Idle /\ worker[w].pc \in {"advance", "complete"} /\ ~HoldsCursor(w)
  /\ RowFailed(w)
  /\ Reject(w)
  /\ UNCHANGED troubles

\* The connector or a transaction throws; the database may be away for fail() too.
Throws(w) ==
  /\ worker[w] # Idle /\ Trouble
  /\ RowFailed(w) \/ UNCHANGED row
  /\ Reject(w)

\* The process dies; pg-boss expires the delivery after 900 s, the lease after 60.
WorkerDies(w) ==
  /\ worker[w] # Idle /\ Trouble
  /\ row' = IF row.fence = w THEN [row EXCEPT !.leased = FALSE] ELSE row
  /\ Reject(w)

CursorLeaseLapses ==
  /\ row.leased
  /\ IF \E w \in Workers : worker[w] # Idle /\ HoldsCursor(w)
     THEN Trouble ELSE UNCHANGED troubles
  /\ row' = [row EXCEPT !.leased = FALSE]
  /\ UNCHANGED <<jitbit, cursor, stage, worker, requests, covered, longPass>>

Deliver(w) == \E c \in Commands : \/ Claim(w, c) \/ ClaimAlreadyRunning(w, c)
                                 \/ ClaimThrows(w, c)

Work(w) == \/ Fetch(w) \/ CreateRequest(w) \/ AdvanceCursor(w) \/ Complete(w)
           \/ ClaimLost(w)

DiscoveryNext ==
  \/ NewDay \/ CursorLeaseLapses
  \/ \E t \in Tickets : Change(t)
  \/ \E c \in Commands : Enqueue(c)
  \/ \E w \in Workers : Deliver(w) \/ Work(w) \/ Throws(w) \/ WorkerDies(w)

Discovery == DiscoveryInit /\ [][DiscoveryNext]_discoveryVars

\* The schedule fires for ever, deliveries are made and handled, a lease whose
\* holder is gone runs out.
FairDiscovery ==
  /\ Discovery
  /\ \A c \in Commands : WF_discoveryVars(Enqueue(c))
  /\ \A w \in Workers : WF_discoveryVars(Deliver(w)) /\ WF_discoveryVars(Work(w))
  /\ WF_discoveryVars(/\ CursorLeaseLapses
                      /\ ~\E w \in Workers : worker[w] # Idle /\ HoldsCursor(w))

-----------------------------------------------------------------------------
(* Properties                                                                *)

Cursors == [from : Days, offset : 0 .. Cardinality(Tickets), began : Days]

DiscoveryTypeOK ==
  /\ today \in Days
  /\ place \in Places
  /\ changed \in [Tickets -> Days]
  /\ version \in [Tickets -> Nat]
  /\ cursor \in Cursors
  /\ row \in [state : RowStates, fence : Workers \union {Nothing}, leased : BOOLEAN]
  /\ stage \in [Commands -> {"created", "active", "acknowledged"}]
  /\ worker \in [Workers -> [command : Commands \union {Nothing}, pc : Pcs,
                               at : Cursors, page : Seq(Tickets \X Nat)]]
  /\ \A w \in Workers : Len(worker[w].page) <= PageSize
  /\ requests \subseteq Commands \X Tickets \X Nat
  /\ covered \in [Tickets -> Nat]
  /\ longPass \in BOOLEAN
  /\ troubles \in 0 .. MaxTroubles

\* When a pass has ended, each change without a request is one that the next
\* pass will list, whatever moved in the listing between the pages, whoever took
\* the pass over and however late its first worker is - provided that no pass,
\* its interruptions included, lasted longer than the overlap: the pass that
\* continues from a saved offset never sees what came in front of it.
NothingMissed ==
  (cursor.offset = 0 /\ ~longPass) =>
    \A t \in Tickets : covered[t] = version[t] \/ changed[t] >= Opened(cursor).from

\* What scheduled discovery is for ("It turns discovered opaque targets into
\* existing PBI-012 version-pinned trigger requests", its service says): each change
\* of a ticket is requested in the end, unless a pass outlasts the overlap.  With
\* the query of claim as it is written this fails without any fault: occurrences
\* come and go, and no worker ever gets as far as the connector.
EveryChangeRequested ==
  \A t \in Tickets :
    (covered[t] < version[t]) ~> (covered[t] = version[t] \/ longPass)
=============================================================================
