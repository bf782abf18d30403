-------------------------- MODULE KnowledgeSyncProofs --------------------------
(***************************************************************************)
(* Proofs about KnowledgeSync, for every repository, filter and number of  *)
(* workers.                                                                *)
(*                                                                         *)
(* The active content follows the cursor because three other facts hold at *)
(* every commit: a fingerprint names the text it was activated with, an    *)
(* epoch is only written on documents that its commit has, and the plan of *)
(* the worker that holds the fence was made from the rows as they still    *)
(* are.  The last one is what the fence is for: rows and cursor change     *)
(* only in commits, a commit asks for the fence, and a claim passes it on  *)
(* to a worker that has no plan yet.                                       *)
(***************************************************************************)
EXTENDS KnowledgeSync, TLAPS

\* A fingerprint of an active document is the blob its text came from.
FingerprintTells ==
  \A f \in Files :
    doc[f].text # None =>
      doc[f].fingerprint \in Blobs /\ doc[f].text = Text[doc[f].fingerprint]

\* A document was seen only in epochs, that is commits, that have it.
SeenThere ==
  \A f \in Files : doc[f].seen # 0 => Tree[doc[f].seen][f] # None

\* What the holder of the fence has read is still so.
PlansFresh ==
  \A w \in Workers :
    /\ worker[w].pc \in {"process", "commit"} => worker[w].at \in Commits
    /\ HoldsFence(w) =>
         /\ worker[w].pc \in {"discover", "process", "commit"} =>
              worker[w].from \in {0, cursor}
         /\ worker[w].pc = "commit" =>
              \A f \in Files : worker[w].plan[f] = MutationOf(w, f)

IInv ==
  /\ TypeOK
  /\ FingerprintTells /\ SeenThere /\ PlansFresh
  /\ ContentFollowsCursor

Row == [pc : {"idle", "discover", "process", "commit", "release"},
        version : Versions, from : 0 .. MaxCommit, at : 0 .. MaxCommit,
        plan : [Files -> Mutations]]

Document == [text : Texts, fingerprint : Blobs \union {None}, seen : 0 .. MaxCommit]

-----------------------------------------------------------------------------
(* The values of the rows                                                    *)

LEMMA IdleTyped == Idle \in Row
BY SourceAssumption DEF Idle, Row, NoPlan, Mutations, Versions

LEMMA MutationTyped ==
  ASSUME NEW w \in Workers, NEW f \in Files
  PROVE  MutationOf(w, f) \in Mutations
BY DEF MutationOf, Mutations

\* A plan is about the trees of its two commits: what it says of each document.
LEMMA MutationSays ==
  ASSUME TypeOK, FingerprintTells, NEW w \in Workers, NEW f \in Files,
         worker[w].at \in Commits
  PROVE  LET b == Tree[worker[w].at][f] IN
         /\ b \in Blobs \union {None}
         /\ MutationOf(w, f) = "none" <=> f \notin Discovered(w)
         /\ MutationOf(w, f) = "tombstone" => b = None
         /\ MutationOf(w, f) \in {"activate", "observe"} => b \in Blobs
         /\ MutationOf(w, f) = "observe" => doc[f].text = Text[b]
         /\ f \in Discovered(w) /\ b # None =>
              MutationOf(w, f) \in {"activate", "observe"}
         /\ f \in Discovered(w) /\ b = None => MutationOf(w, f) = "tombstone"
<1> DEFINE b == Tree[worker[w].at][f]
<1>1. b \in Blobs \union {None}
  BY SourceAssumption
<1>2. CASE f \notin Discovered(w)
  <2>1. MutationOf(w, f) = "none"
    BY <1>2 DEF MutationOf
  <2> QED BY <1>1, <1>2, <2>1
<1>3. CASE f \in Discovered(w) /\ b = None
  <2>1. MutationOf(w, f) = "tombstone"
    BY <1>3 DEF MutationOf
  <2> QED BY <1>1, <1>3, <2>1
<1>4. CASE f \in Discovered(w) /\ b # None
  <2>1. /\ MutationOf(w, f) \in {"activate", "observe"}
        /\ MutationOf(w, f) = "observe" => Unchanged(f, b) \/ doc[f].text = Text[b]
    BY <1>4 DEF MutationOf
  <2>2. Unchanged(f, b) => doc[f].text = Text[b]
    BY DEF Unchanged, FingerprintTells
  <2> QED BY <1>1, <1>4, <2>1, <2>2
<1> QED BY <1>2, <1>3, <1>4

\* What a commit writes on a document, by the mutation planned for it.
LEMMA FoundTyped ==
  ASSUME TypeOK, NEW w \in Workers, NEW f \in Files, NEW text \in Texts,
         worker[w].at \in Commits, Tree[worker[w].at][f] \in Blobs
  PROVE  /\ Found(w, f, text) \in Document
         /\ Found(w, f, text).text = text
         /\ Found(w, f, text).fingerprint = Tree[worker[w].at][f]
         /\ Found(w, f, text).seen = IF Snapshot(w) THEN worker[w].at ELSE doc[f].seen
<1> DEFINE epoch == IF Snapshot(w) THEN worker[w].at ELSE doc[f].seen
<1>1. epoch \in 0 .. MaxCommit
  BY DEF TypeOK, Commits
<1>2. Found(w, f, text) =
        [text |-> text, fingerprint |-> Tree[worker[w].at][f], seen |-> epoch]
  BY DEF Found
<1> HIDE DEF epoch
<1>3. /\ Found(w, f, text) \in Document
      /\ Found(w, f, text).text = text
      /\ Found(w, f, text).fingerprint = Tree[worker[w].at][f]
      /\ Found(w, f, text).seen = epoch
  BY <1>1, <1>2 DEF Document
<1> QED BY <1>3 DEF epoch

LEMMA WrittenTyped ==
  ASSUME TypeOK, FingerprintTells, NEW w \in Workers, NEW f \in Files,
         worker[w].at \in Commits, worker[w].plan[f] = MutationOf(w, f)
  PROVE  Written(w, f) \in Document
<1> DEFINE b == Tree[worker[w].at][f]
<1>1. doc[f] \in Document /\ doc[f].text \in Texts /\ doc[f].seen \in 0 .. MaxCommit
  BY DEF TypeOK, Document
<1>3. CASE worker[w].plan[f] = "activate"
  <2>1. b \in Blobs
    BY <1>3, MutationSays
  <2>2. Written(w, f) = Found(w, f, Text[b])
    BY <1>3 DEF Written
  <2> QED BY <2>1, <2>2, FoundTyped DEF Texts
<1>4. CASE worker[w].plan[f] = "observe"
  <2>1. b \in Blobs
    BY <1>4, MutationSays
  <2>2. Written(w, f) = Found(w, f, doc[f].text)
    BY <1>4 DEF Written
  <2> QED BY <1>1, <2>1, <2>2, FoundTyped
<1>5. CASE worker[w].plan[f] \notin {"activate", "observe"}
  <2>1. Written(w, f) \in {Removed(f), doc[f]}
    BY <1>5 DEF Written
  <2> QED BY <1>1, <2>1 DEF Removed, Document, Texts
<1> QED BY <1>3, <1>4, <1>5

LEMMA WrittenSays ==
  ASSUME TypeOK, FingerprintTells, NEW w \in Workers, NEW f \in Files,
         worker[w].at \in Commits, worker[w].plan[f] = MutationOf(w, f)
  PROVE  LET b == Tree[worker[w].at][f]
             epoch == IF Snapshot(w) THEN worker[w].at ELSE doc[f].seen
             new == Written(w, f)
         IN IF f \in Discovered(w) /\ b # None
            THEN /\ b \in Blobs
                 /\ new.text = Text[b] /\ new.fingerprint = b /\ new.seen = epoch
            ELSE IF Tombstoned(w, f)
            THEN new.text = None /\ new.seen = doc[f].seen
            ELSE f \notin Discovered(w) /\ new = doc[f]
<1> DEFINE b == Tree[worker[w].at][f]
<1>1. doc[f] \in Document
  BY DEF TypeOK, Document
<1>2. CASE f \in Discovered(w) /\ b # None
  <2>1. /\ worker[w].plan[f] \in {"activate", "observe"}
        /\ b \in Blobs
        /\ worker[w].plan[f] = "observe" => doc[f].text = Text[b]
    BY <1>2, MutationSays
  <2>2. worker[w].plan[f] = "activate" =>
          Written(w, f) = Found(w, f, Text[b])
    BY DEF Written
  <2>3. worker[w].plan[f] = "observe" =>
          Written(w, f) = Found(w, f, doc[f].text)
    BY DEF Written
  <2>4. Written(w, f) = Found(w, f, Text[b])
    BY <2>1, <2>2, <2>3
  <2>5. Text[b] \in Texts
    BY <2>1 DEF Texts
  <2>6. /\ Written(w, f).text = Text[b]
        /\ Written(w, f).fingerprint = b
        /\ Written(w, f).seen = IF Snapshot(w) THEN worker[w].at ELSE doc[f].seen
    <3>1. Tree[worker[w].at][f] \in Blobs
      BY <2>1
    <3>2. \A text \in Texts :
            /\ Found(w, f, text).text = text
            /\ Found(w, f, text).fingerprint = b
            /\ Found(w, f, text).seen =
                 IF Snapshot(w) THEN worker[w].at ELSE doc[f].seen
      BY <3>1, FoundTyped
    <3> HIDE DEF b
    <3> QED BY <2>4, <2>5, <3>2
  <2> QED BY <1>2, <2>1, <2>6
<1>3. CASE ~(f \in Discovered(w) /\ b # None)
  <2>1. worker[w].plan[f] \in {"none", "tombstone"}
    BY <1>3, MutationSays, MutationTyped DEF Mutations
  <2>2. Tombstoned(w, f) =>
          Written(w, f).text = None /\ Written(w, f).seen = doc[f].seen
    <3>1. Tombstoned(w, f) => Written(w, f) = Removed(f)
      BY <2>1 DEF Written
    <3> QED BY <1>1, <3>1 DEF Removed, Document
  <2>3. ~Tombstoned(w, f) => f \notin Discovered(w) /\ Written(w, f) = doc[f]
    <3>1. ~Tombstoned(w, f) => Written(w, f) = doc[f]
      BY <2>1 DEF Written
    <3>2. ~Tombstoned(w, f) => worker[w].plan[f] # "tombstone"
      BY DEF Tombstoned
    <3> QED BY <2>1, <3>1, <3>2, MutationSays
  <2> QED BY <1>3, <2>2, <2>3
<1> QED BY <1>2, <1>3

-----------------------------------------------------------------------------
(* A commit                                                                  *)

LEMMA CommitFollows ==
  ASSUME IInv, NEW w \in Workers, Commit(w)
  PROVE  /\ TypeOK' /\ FingerprintTells' /\ SeenThere' /\ ContentFollowsCursor'
<1> DEFINE at == worker[w].at
           version == worker[w].version
           from == worker[w].from
<1>1. /\ at \in Commits /\ at # 0
      /\ version \in Versions
      /\ from \in {0, cursor}
      /\ \A f \in Files : worker[w].plan[f] = MutationOf(w, f)
  <2>1. worker[w] \in Row
    BY DEF IInv, TypeOK, Row
  <2> QED BY <2>1 DEF IInv, PlansFresh, Commit, Row, Commits
<1>2. /\ doc' = [f \in Files |-> Written(w, f)]
      /\ cursor' = at
      /\ follows' = Follows(w)
      /\ worker' = [worker EXCEPT ![w] = [Idle EXCEPT !.pc = "release"]]
      /\ UNCHANGED <<head, row, faults>>
  BY DEF Commit, Cursor
<1>3. \A f \in Files :
        LET b == Tree[at][f]
            epoch == IF from = 0 THEN at ELSE doc[f].seen
            new == doc'[f]
        IN IF f \in Discovered(w) /\ b # None
           THEN /\ b \in Blobs
                /\ new.text = Text[b] /\ new.fingerprint = b /\ new.seen = epoch
           ELSE IF Tombstoned(w, f)
           THEN new.text = None /\ new.seen = doc[f].seen
           ELSE f \notin Discovered(w) /\ new = doc[f]
  BY <1>1, <1>2, WrittenSays DEF IInv, Snapshot
<1>4. TypeOK'
  <2>1. doc' \in [Files -> Document]
    BY <1>1, <1>2, WrittenTyped DEF IInv
  <2>2. follows' \in 0 .. MaxVersion
    BY <1>1, <1>2, SourceAssumption DEF Follows, Versions, IInv, TypeOK
  <2>3. cursor' \in 0 .. MaxCommit
    BY <1>1, <1>2 DEF Commits
  <2>4. worker' \in [Workers -> Row]
    <3>1. [Idle EXCEPT !.pc = "release"] \in Row
      BY IdleTyped DEF Row
    <3> QED BY <1>2, <3>1 DEF IInv, TypeOK, Row
  <2> QED BY <1>2, <2>1, <2>2, <2>3, <2>4 DEF IInv, TypeOK, Document, Row
<1>5. FingerprintTells'
  BY <1>3 DEF IInv, FingerprintTells
<1>6. SeenThere'
  <2> SUFFICES ASSUME NEW f \in Files, doc'[f].seen # 0
               PROVE  Tree[doc'[f].seen][f] # None
    BY DEF SeenThere
  <2> QED BY <1>3 DEF IInv, SeenThere
<1>7. ContentFollowsCursor'
  <2> SUFFICES ASSUME follows' # 0, NEW f \in Files
               PROVE  doc'[f].text = IF f \in Included[follows'] THEN TextAt(at, f) ELSE None
    BY <1>2 DEF ContentFollowsCursor, TextAt
  <2>1. follows' = version
    BY <1>2 DEF Follows
  <2>2. CASE from = 0
    <3>1. f \in Discovered(w) <=> f \in Included[version] /\ Tree[at][f] # None
      BY <2>2 DEF Discovered, Snapshot
    <3>2. ~Tombstoned(w, f) /\ f \notin Discovered(w) => doc[f].seen = at
      BY <1>1, <2>2, MutationSays DEF Tombstoned, Snapshot, IInv
    <3>3. f \notin Included[version] => doc[f].text = None \/ doc[f].seen # at
      BY <1>2, <2>2 DEF Follows, Snapshot
    <3>4. CASE f \in Included[version]
      BY <1>1, <1>3, <2>1, <3>1, <3>2, <3>4 DEF TextAt, IInv, SeenThere
    <3>5. CASE f \notin Included[version]
      BY <1>3, <2>1, <3>1, <3>2, <3>3, <3>5
    <3> QED BY <3>4, <3>5
  <2>3. CASE from # 0
    <3>1. from = cursor /\ follows = version
      BY <1>1, <1>2, <2>3 DEF Follows, Snapshot
    <3>2. f \in Discovered(w) <=>
            f \in Included[version] /\ Tree[at][f] # Tree[cursor][f]
      BY <2>3, <3>1 DEF Discovered, Snapshot
    <3>3. doc[f].text = IF f \in Included[version] THEN TextAt(cursor, f) ELSE None
      BY <1>1, <3>1, SourceAssumption DEF IInv, ContentFollowsCursor, Versions
    <3>4. Tombstoned(w, f) => f \in Discovered(w)
      BY <1>1, <2>3, MutationSays DEF Tombstoned, Snapshot, IInv
    <3> QED BY <1>3, <2>1, <3>2, <3>3, <3>4 DEF TextAt
  <2> QED BY <2>2, <2>3
<1> QED BY <1>4, <1>5, <1>6, <1>7

-----------------------------------------------------------------------------
(* The other steps                                                           *)

\* A step that leaves documents and cursor alone and takes the fence from nobody
\* but gives it to nobody either.
LEMMA QuietStep ==
  ASSUME IInv, UNCHANGED <<doc, cursor, follows>>,
         row' \in {row, [row EXCEPT !.leased = FALSE]},
         \A w \in Workers : worker'[w] = worker[w] \/ worker'[w] = Idle
  PROVE  FingerprintTells' /\ SeenThere' /\ PlansFresh' /\ ContentFollowsCursor'
<1>1. FingerprintTells' /\ SeenThere' /\ ContentFollowsCursor'
  BY DEF IInv, FingerprintTells, SeenThere, ContentFollowsCursor, TextAt
<1>2. ASSUME NEW w \in Workers, worker'[w] = worker[w]
      PROVE  \A f \in Files : MutationOf(w, f)' = MutationOf(w, f)
  BY <1>2 DEF MutationOf, Discovered, Snapshot, Unchanged
<1>3. \A w \in Workers : HoldsFence(w)' => HoldsFence(w)
  BY DEF HoldsFence, IInv, TypeOK
<1>4. PlansFresh'
  <2> SUFFICES ASSUME NEW w \in Workers
               PROVE  /\ worker'[w].pc \in {"process", "commit"} => worker'[w].at \in Commits
                      /\ HoldsFence(w)' =>
                           /\ worker'[w].pc \in {"discover", "process", "commit"} =>
                                worker'[w].from \in {0, cursor'}
                           /\ worker'[w].pc = "commit" =>
                                \A f \in Files : worker'[w].plan[f] = MutationOf(w, f)'
    BY DEF PlansFresh
  <2>1. CASE worker'[w] = Idle
    BY <2>1 DEF Idle
  <2>2. CASE worker'[w] = worker[w]
    BY <1>2, <1>3, <2>2 DEF IInv, PlansFresh
  <2> QED BY <2>1, <2>2
<1> QED BY <1>1, <1>4

LEMMA EndTyped ==
  ASSUME IInv, NEW w \in Workers, End(w), UNCHANGED faults \/ Fault,
         Released(w) \/ UNCHANGED row
  PROVE  IInv'
<1>1. /\ worker' = [worker EXCEPT ![w] = Idle]
      /\ UNCHANGED <<head, doc, cursor, follows>>
      /\ row' \in {row, [row EXCEPT !.leased = FALSE]}
  BY DEF End, Released
<1>2. faults' \in 0 .. MaxFaults
  BY SourceAssumption DEF Fault, IInv, TypeOK
<1>3. worker' \in [Workers -> Row]
  BY <1>1, IdleTyped DEF IInv, TypeOK, Row
<1>4. row' \in [fence : Workers \union {None}, leased : BOOLEAN]
  BY <1>1 DEF IInv, TypeOK
<1>5. TypeOK'
  BY <1>1, <1>2, <1>3, <1>4 DEF IInv, TypeOK, Row, Texts
<1>6. \A u \in Workers : worker'[u] = worker[u] \/ worker'[u] = Idle
  BY <1>1 DEF IInv, TypeOK
<1> QED BY <1>1, <1>5, <1>6, QuietStep DEF IInv

LEMMA ClaimPreserves ==
  ASSUME IInv, NEW w \in Workers, NEW m \in Modes, NEW v \in Versions, Claim(w, m, v)
  PROVE  IInv'
<1> DEFINE from == IF m = "incremental" THEN cursor ELSE 0
           claimed == [Idle EXCEPT !.pc = "discover", !.version = v, !.from = from]
<1>1. /\ row' = [fence |-> w, leased |-> TRUE]
      /\ worker' = [worker EXCEPT ![w] = claimed]
      /\ UNCHANGED <<head, doc, cursor, follows, faults>>
  BY DEF Claim
<1>2. from \in 0 .. MaxCommit /\ from \in {0, cursor}
  BY SourceAssumption DEF IInv, TypeOK
<1>3. claimed \in Row /\ claimed.pc = "discover" /\ claimed.from = from
  <2> HIDE DEF from
  <2> QED BY <1>2, IdleTyped DEF Row
<1> HIDE DEF claimed, from
<1>4. TypeOK'
  <2>1. worker' \in [Workers -> Row]
    BY <1>1, <1>3 DEF IInv, TypeOK, Row
  <2> QED BY <1>1, <2>1 DEF IInv, TypeOK, Row, Texts
<1>5. FingerprintTells' /\ SeenThere' /\ ContentFollowsCursor'
  BY <1>1 DEF IInv, FingerprintTells, SeenThere, ContentFollowsCursor, TextAt
<1>6. PlansFresh'
  <2> SUFFICES ASSUME NEW u \in Workers
               PROVE  /\ worker'[u].pc \in {"process", "commit"} => worker'[u].at \in Commits
                      /\ HoldsFence(u)' =>
                           /\ worker'[u].pc \in {"discover", "process", "commit"} =>
                                worker'[u].from \in {0, cursor'}
                           /\ worker'[u].pc = "commit" =>
                                \A f \in Files : worker'[u].plan[f] = MutationOf(u, f)'
    BY DEF PlansFresh
  <2>1. CASE u = w
    <3>1. worker'[u] = claimed
      BY <1>1, <2>1 DEF IInv, TypeOK
    <3> QED BY <1>1, <1>2, <1>3, <3>1
  <2>2. CASE u # w
    <3>1. worker'[u] = worker[u] /\ ~HoldsFence(u)'
      BY <1>1, <2>2 DEF IInv, TypeOK, HoldsFence
    <3> QED BY <3>1 DEF IInv, PlansFresh
  <2> QED BY <2>1, <2>2
<1> QED BY <1>4, <1>5, <1>6 DEF IInv

\* Discover and Process: the worker goes on to the next stage with the same command.
LEMMA StagePreserves ==
  ASSUME IInv, NEW w \in Workers, NEW next \in Row,
         worker' = [worker EXCEPT ![w] = next],
         UNCHANGED <<head, doc, cursor, row, follows, faults>>,
         next.pc \in {"process", "commit"} /\ next.at \in Commits,
         HoldsFence(w) => next.from \in {0, cursor},
         HoldsFence(w) /\ next.pc = "commit" =>
           \A f \in Files : next.plan[f] = MutationOf(w, f)'
  PROVE  IInv'
<1>1. TypeOK'
  <2>1. worker' \in [Workers -> Row]
    BY DEF IInv, TypeOK, Row
  <2> QED BY <2>1 DEF IInv, TypeOK, Row, Texts
<1>2. FingerprintTells' /\ SeenThere' /\ ContentFollowsCursor'
  BY DEF IInv, FingerprintTells, SeenThere, ContentFollowsCursor, TextAt
<1>3. PlansFresh'
  <2> SUFFICES ASSUME NEW u \in Workers
               PROVE  /\ worker'[u].pc \in {"process", "commit"} => worker'[u].at \in Commits
                      /\ HoldsFence(u)' =>
                           /\ worker'[u].pc \in {"discover", "process", "commit"} =>
                                worker'[u].from \in {0, cursor'}
                           /\ worker'[u].pc = "commit" =>
                                \A f \in Files : worker'[u].plan[f] = MutationOf(u, f)'
    BY DEF PlansFresh
  <2>1. HoldsFence(u)' <=> HoldsFence(u)
    BY DEF HoldsFence
  <2>2. CASE u = w
    <3>1. worker'[u] = next
      BY <2>2 DEF IInv, TypeOK
    <3> QED BY <2>1, <2>2, <3>1
  <2>3. CASE u # w
    <3>1. worker'[u] = worker[u]
      BY <2>3 DEF IInv, TypeOK
    <3>2. \A f \in Files : MutationOf(u, f)' = MutationOf(u, f)
      BY <3>1 DEF MutationOf, Discovered, Snapshot, Unchanged
    <3> QED BY <2>1, <3>1, <3>2 DEF IInv, PlansFresh
  <2> QED BY <2>2, <2>3
<1> QED BY <1>1, <1>2, <1>3 DEF IInv

LEMMA DiscoverPreserves ==
  ASSUME IInv, NEW w \in Workers, Discover(w)
  PROVE  IInv'
<1> DEFINE next == [worker[w] EXCEPT !.pc = "process", !.at = head]
<1>1. worker[w] \in Row /\ head \in Commits /\ head \in 0 .. MaxCommit
  BY DEF IInv, TypeOK, Row, Commits
<1>2. /\ next \in Row
      /\ next.pc = "process" /\ next.at = head /\ next.from = worker[w].from
  BY <1>1 DEF Row
<1>3. /\ worker' = [worker EXCEPT ![w] = next]
      /\ UNCHANGED <<head, doc, cursor, row, follows, faults>>
  BY DEF Discover, IInv, TypeOK
<1>4. HoldsFence(w) => worker[w].from \in {0, cursor}
  BY DEF IInv, PlansFresh, Discover
<1> HIDE DEF next
<1> QED BY <1>1, <1>2, <1>3, <1>4, StagePreserves

LEMMA ProcessPreserves ==
  ASSUME IInv, NEW w \in Workers, Process(w)
  PROVE  IInv'
<1> DEFINE plan == [f \in Files |-> MutationOf(w, f)]
           next == [worker[w] EXCEPT !.pc = "commit", !.plan = plan]
<1>1. worker[w] \in Row
  BY DEF IInv, TypeOK, Row
<1>2. plan \in [Files -> Mutations]
  BY MutationTyped
<1>3. \A f \in Files : plan[f] = MutationOf(w, f)
  OBVIOUS
<1>4. /\ worker' = [worker EXCEPT ![w] = next]
      /\ UNCHANGED <<head, doc, cursor, row, follows, faults>>
  BY DEF Process, IInv, TypeOK
<1> HIDE DEF plan
<1>5. /\ next \in Row
      /\ next.pc = "commit" /\ next.plan = plan
      /\ next.at = worker[w].at /\ next.from = worker[w].from
      /\ next.version = worker[w].version
  BY <1>1, <1>2 DEF Row
<1>6. worker[w].at \in Commits /\ (HoldsFence(w) => worker[w].from \in {0, cursor})
  BY DEF IInv, PlansFresh, Process
<1> HIDE DEF next
<1>7. worker'[w] = next
  BY <1>4 DEF IInv, TypeOK
<1>8. \A f \in Files : MutationOf(w, f)' = MutationOf(w, f)
  BY <1>4, <1>5, <1>7 DEF MutationOf, Discovered, Snapshot, Unchanged
<1> QED BY <1>3, <1>4, <1>5, <1>6, <1>8, StagePreserves

LEMMA CommitPreserves ==
  ASSUME IInv, NEW w \in Workers, Commit(w)
  PROVE  IInv'
<1>1. row' = row /\ row = [fence |-> w, leased |-> TRUE]
  BY DEF Commit, HoldsFence
<1>2. \A u \in Workers : /\ u = w => worker'[u] = [Idle EXCEPT !.pc = "release"]
                         /\ u # w => worker'[u] = worker[u] /\ ~HoldsFence(u)'
  BY <1>1 DEF Commit, IInv, TypeOK, HoldsFence
<1>3. [Idle EXCEPT !.pc = "release"].pc = "release"
  BY DEF Idle
<1>4. PlansFresh'
  BY <1>2, <1>3 DEF IInv, PlansFresh
<1> QED BY <1>4, CommitFollows DEF IInv

-----------------------------------------------------------------------------
(* The theorems                                                              *)

LEMMA InitInv == Init => IInv
<1> SUFFICES ASSUME Init PROVE IInv
  OBVIOUS
<1>1. doc \in [Files -> Document] /\ \A f \in Files : doc[f].text = None /\ doc[f].seen = 0
  BY SourceAssumption DEF Init, Document, Texts
<1>2. \A w \in Workers : worker[w] = Idle
  BY DEF Init
<1>3. TypeOK
  BY <1>1, IdleTyped, SourceAssumption DEF Init, TypeOK, Document, Row, Commits
<1>4. PlansFresh
  BY <1>2 DEF PlansFresh, Idle
<1> QED BY <1>1, <1>3, <1>4 DEF Init, IInv, FingerprintTells, SeenThere, ContentFollowsCursor

LEMMA NextInv == IInv /\ [Next]_vars => IInv'
<1> SUFFICES ASSUME IInv, [Next]_vars PROVE IInv'
  OBVIOUS
<1>1. ASSUME NEW k \in Commits, MoveBranch(k) PROVE IInv'
  <2>1. TypeOK'
    BY <1>1 DEF MoveBranch, IInv, TypeOK, Texts
  <2> QED BY <1>1, <2>1, QuietStep DEF MoveBranch, IInv
<1>2. ASSUME NEW w \in Workers, NEW m \in Modes, NEW v \in Versions, Claim(w, m, v)
      PROVE  IInv'
  BY <1>2, ClaimPreserves
<1>3. ASSUME NEW w \in Workers, Discover(w) PROVE IInv'
  BY <1>3, DiscoverPreserves
<1>4. ASSUME NEW w \in Workers, Process(w) PROVE IInv'
  BY <1>4, ProcessPreserves
<1>5. ASSUME NEW w \in Workers, Commit(w) PROVE IInv'
  BY <1>5, CommitPreserves
<1>6. ASSUME NEW w \in Workers, Release(w) \/ LoadThrows(w) \/ CommitRefused(w)
                                 \/ CursorNotInClone(w)
      PROVE  IInv'
  BY <1>6, EndTyped DEF Release, LoadThrows, CommitRefused, CursorNotInClone
<1>7. ASSUME NEW w \in Workers, HeartbeatAborts(w) \/ Throws(w) PROVE IInv'
  BY <1>7, EndTyped DEF HeartbeatAborts, Throws
<1>8. CASE LeaseLapses
  <2>1. /\ row' = [row EXCEPT !.leased = FALSE]
        /\ UNCHANGED <<head, doc, cursor, worker, follows>>
    BY <1>8 DEF LeaseLapses
  <2>2. faults' \in 0 .. MaxFaults
    BY <1>8, SourceAssumption DEF LeaseLapses, Fault, IInv, TypeOK
  <2>3. TypeOK'
    BY <2>1, <2>2 DEF IInv, TypeOK, Texts
  <2> QED BY <2>1, <2>3, QuietStep DEF IInv
<1>9. CASE UNCHANGED vars
  <2>1. TypeOK'
    BY <1>9 DEF vars, IInv, TypeOK, Texts
  <2> QED BY <1>9, <2>1, QuietStep DEF vars, IInv
<1> QED BY <1>1, <1>2, <1>3, <1>4, <1>5, <1>6, <1>7, <1>8, <1>9 DEF Next, Work

LEMMA Invariance == Spec => []IInv
BY InitInv, NextInv, PTL DEF Spec

\* Rows, plans and cursor keep their types, for every repository, filter and
\* number of workers and faults.
THEOREM TypeCorrect == Spec => []TypeOK
<1>1. IInv => TypeOK
  BY DEF IInv
<1> QED BY <1>1, Invariance, PTL

\* The active content of a source is that of the cursor's commit under the filter
\* its commands follow (ContentFollowsCursor), for every history of the repository.
THEOREM ContentCorrect == Spec => []ContentFollowsCursor
<1>1. IInv => ContentFollowsCursor
  BY DEF IInv
<1> QED BY <1>1, Invariance, PTL
=============================================================================
