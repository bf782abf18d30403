---------------------------- MODULE KnowledgeSync ----------------------------
(***************************************************************************)
(* Synchronization of a knowledge source with a branch of a git repository.*)
(*                                                                         *)
(* A worker that handles knowledge.synchronize.v2 or                       *)
(* knowledge.full-rescan.v2 claims the source under a lease with a fence   *)
(* and reads the cursor with it, the commit of the last synchronization.   *)
(* With a cursor it discovers the differences between the two trees (a     *)
(* delta), without one, or in a full rescan, the whole tree (a snapshot    *)
(* whose epoch is the commit).  It compares each document with its row,    *)
(* loads what is new, and writes everything - revisions, tombstones,       *)
(* cursor - in one transaction that asks for the fence.  A snapshot        *)
(* tombstones the documents that were last seen in another epoch.          *)
(*                                                                         *)
(* A command is pinned to a version of the configuration, of which only    *)
(* the path filter matters here: one collection, one set of profiles, no   *)
(* policy for attachments.  Commands of several versions may be on their   *)
(* way: a schedule keeps its pins when the configuration moves on.  Failed *)
(* revisions are records: they change no active content.                   *)
(*                                                                         *)
(* Each worker process has a clone of its own, into which it fetches this  *)
(* branch only.  It has the history of the branch, and any other commit    *)
(* the branch has pointed to only if this process fetched it then: the     *)
(* clone is on a tmpfs in the production compose file.                     *)
(*                                                                         *)
(* What a command asks for does not depend on the state in which it was    *)
(* written, so a command is only seen when it is claimed: with any mode    *)
(* and version, for the first time or again.  One that meets a running     *)
(* synchronization is acknowledged and has no effect.                      *)
(***************************************************************************)
EXTENDS Integers

CONSTANTS
  Files,
  Blobs,
  Text,        \* Text[b]: the normalized content of a blob
  Refused,     \* the blobs that no load accepts
  Included,    \* Included[v]: the files that version v of the filter lets pass
  MaxVersion,  \* versions of the configuration
  MaxCommit,
  Tree,        \* Tree[k][f]: the blob of f in commit k, or None
  History,     \* History[k]: the commits that can be reached from k
  Workers,
  MaxFaults,   \* BOUND: failures, crashes, leases lapsing under their holder
  None

Versions == 1 .. MaxVersion

Commits == 1 .. MaxCommit

ASSUME SourceAssumption ==
  /\ MaxVersion \in Nat \ {0} /\ MaxCommit \in Nat \ {0} /\ MaxFaults \in Nat
  /\ Refused \subseteq Blobs /\ None \notin Blobs \union Workers
  /\ Included \in [Versions -> SUBSET Files]
  /\ DOMAIN Text = Blobs /\ \A b \in Blobs : Text[b] # None
  /\ Tree \in [Commits -> [Files -> Blobs \union {None}]]
  /\ History \in [Commits -> SUBSET Commits] /\ \A k \in Commits : k \in History[k]

VARIABLES
  head,     \* the commit the branch points to
  doc,      \* doc[f]: text of the active revision, last fingerprint, last epoch
  cursor,   \* the commit of the last synchronization, 0 before the first
  row,      \* fence and lease of the source.  The fence only grows: it is the
            \* fence of the worker that claimed last, or of none
  worker,   \* worker[w]: the command it handles and what it has found
  follows,  \* history: the version whose filter the active content follows, 0
            \* when commands of several versions have left their mark
  faults

vars == <<head, doc, cursor, row, worker, follows, faults>>

Modes == {"incremental", "fullRescan"}

Mutations == {"none", "observe", "activate", "tombstone"}

NoPlan == [f \in Files |-> "none"]

Idle == [pc |-> "idle", version |-> 1, from |-> 0, at |-> 0, plan |-> NoPlan]

Init ==
  /\ head = 1
  /\ doc = [f \in Files |-> [text |-> None, fingerprint |-> None, seen |-> 0]]
  /\ cursor = 0
  /\ row = [fence |-> None, leased |-> FALSE]
  /\ worker = [w \in Workers |-> Idle]
  /\ follows = 0
  /\ faults = 0

Fault == faults < MaxFaults /\ faults' = faults + 1

-----------------------------------------------------------------------------
(* The repository                                                            *)

\* A push, or the branch is set back to an older commit.
MoveBranch(k) ==
  /\ k # head
  /\ head' = k
  /\ UNCHANGED <<doc, cursor, row, worker, follows, faults>>

-----------------------------------------------------------------------------
(* KnowledgeSynchronizationCoordinator                                       *)

\* Mutant of Claimable: a lease that lapsed is never taken over.
ClaimableOnce == row.fence = None

\* execution_lease_expires_at IS NULL OR execution_lease_expires_at <= NOW()
Claimable == ~row.leased

\* With the current version or with an older one that a schedule is pinned to.
Claim(w, mode, version) ==
  /\ worker[w] = Idle /\ Claimable
  /\ row' = [fence |-> w, leased |-> TRUE]
  /\ worker' = [worker EXCEPT ![w] =
       [Idle EXCEPT !.pc = "discover", !.version = version,
                    !.from = IF mode = "incremental" THEN cursor ELSE 0]]
  /\ UNCHANGED <<head, doc, cursor, follows, faults>>

End(w) ==
  /\ worker' = [worker EXCEPT ![w] = Idle]
  /\ UNCHANGED <<head, doc, cursor, follows>>

\* cancel, in the finally block: an update by fence.
Released(w) == row' = IF row.fence = w THEN [row EXCEPT !.leased = FALSE] ELSE row

Snapshot(w) == worker[w].from = 0

\* inspect or diff fetch the branch and resolve it once; its commit is cursor and
\* epoch.  diff needs the cursor's commit in the clone as well, where it may be
\* although the branch has left it.
Discover(w) ==
  /\ worker[w].pc = "discover"
  /\ worker' = [worker EXCEPT ![w] = [@ EXCEPT !.pc = "process", !.at = head]]
  /\ UNCHANGED <<head, doc, cursor, row, follows, faults>>

\* verifyPinnedCommit: the branch has left the cursor's commit, and this clone has
\* never had it, or no longer.
CursorNotInClone(w) ==
  /\ worker[w].pc = "discover" /\ ~Snapshot(w)
  /\ worker[w].from \notin History[head]
  /\ Released(w) /\ End(w)
  /\ UNCHANGED faults

\* The documents of the pages: in a snapshot what is there, in a delta what differs.
Discovered(w) ==
  {f \in Included[worker[w].version] :
     IF Snapshot(w) THEN Tree[worker[w].at][f] # None
     ELSE Tree[worker[w].at][f] # Tree[worker[w].from][f]}

\* Mutant of Unchanged: a document without an active revision is not told apart.
UnchangedFingerprint(f, b) == doc[f].fingerprint = b

\* Same fingerprint, and an active revision in the same space.
Unchanged(f, b) == doc[f].fingerprint = b /\ doc[f].text # None

Upserted(w) == {f \in Discovered(w) : Tree[worker[w].at][f] # None}

Loaded(w) == {f \in Upserted(w) : ~Unchanged(f, Tree[worker[w].at][f])}

MutationOf(w, f) ==
  LET b == Tree[worker[w].at][f] IN
  IF f \notin Discovered(w) THEN "none"
  ELSE IF b = None THEN "tombstone"
  ELSE IF Unchanged(f, b) \/ doc[f].text = Text[b] THEN "observe"
  ELSE "activate"

\* synchronize, page by page: nothing is written yet.
Process(w) ==
  /\ worker[w].pc = "process"
  /\ \A f \in Loaded(w) : Tree[worker[w].at][f] \notin Refused
  /\ worker' = [worker EXCEPT ![w] =
       [@ EXCEPT !.pc = "commit", !.plan = [f \in Files |-> MutationOf(w, f)]]]
  /\ UNCHANGED <<head, doc, cursor, row, follows, faults>>

\* WHERE execution_fence = .. AND execution_lease_expires_at > NOW()
HoldsFence(w) == row = [fence |-> w, leased |-> TRUE]

\* An explicit tombstone, or in a snapshot a document last seen in another epoch.
Tombstoned(w, f) ==
  \/ worker[w].plan[f] = "tombstone"
  \/ worker[w].plan[f] = "none" /\ Snapshot(w) /\ doc[f].seen # worker[w].at

\* A document that was found with this text; a delta leaves its epoch (COALESCE).
Found(w, f, text) ==
  [text |-> text,
   fingerprint |-> Tree[worker[w].at][f],
   seen |-> IF Snapshot(w) THEN worker[w].at ELSE doc[f].seen]

Removed(f) == [doc[f] EXCEPT !.text = None]

Written(w, f) ==
  IF worker[w].plan[f] = "activate" THEN Found(w, f, Text[Tree[worker[w].at][f]])
  ELSE IF worker[w].plan[f] = "observe" THEN Found(w, f, doc[f].text)
  ELSE IF Tombstoned(w, f) THEN Removed(f) ELSE doc[f]

\* A snapshot starts afresh, except for documents outside its filter that were
\* last seen in this very commit; a delta follows what its cursor followed.
Follows(w) ==
  IF Snapshot(w)
  THEN IF \E f \in Files \ Included[worker[w].version] :
            doc[f].text # None /\ doc[f].seen = worker[w].at
       THEN 0 ELSE worker[w].version
  ELSE IF follows = worker[w].version THEN follows ELSE 0

\* Mutant of Cursor: one commit too far.
CursorAhead(w) == worker[w].at + 1

Cursor(w) == worker[w].at

\* One transaction, with the row of the source locked.
Commit(w) ==
  /\ worker[w].pc = "commit" /\ HoldsFence(w)
  /\ doc' = [f \in Files |-> Written(w, f)]
  /\ cursor' = Cursor(w)
  /\ follows' = Follows(w)
  /\ worker' = [worker EXCEPT ![w] = [Idle EXCEPT !.pc = "release"]]
  /\ UNCHANGED <<head, row, faults>>

Release(w) ==
  /\ worker[w].pc = "release"
  /\ Released(w) /\ End(w)
  /\ UNCHANGED faults

\* A document cannot be loaded: the failed revision is recorded and the whole
\* synchronization ends.
LoadThrows(w) ==
  /\ worker[w].pc = "process"
  /\ \E f \in Loaded(w) : Tree[worker[w].at][f] \in Refused
  /\ Released(w) /\ End(w)
  /\ UNCHANGED faults

CommitRefused(w) ==
  /\ worker[w].pc = "commit" /\ ~HoldsFence(w)
  /\ Released(w) /\ End(w)
  /\ UNCHANGED faults

\* The heartbeat finds the fence lost and aborts; nothing is released.
HeartbeatAborts(w) ==
  /\ worker[w] # Idle /\ ~HoldsFence(w)
  /\ End(w)
  /\ UNCHANGED <<row, faults>>

\* Repository, provider, renewal or transaction throw, the answer to the commit is
\* lost, or the process dies; where the database is away, nothing is released.
Throws(w) ==
  /\ worker[w] # Idle /\ Fault
  /\ Released(w) \/ UNCHANGED row
  /\ End(w)

LeaseLapses ==
  /\ row.leased
  /\ IF \E w \in Workers : worker[w] # Idle /\ HoldsFence(w)
     THEN Fault ELSE UNCHANGED faults
  /\ row' = [row EXCEPT !.leased = FALSE]
  /\ UNCHANGED <<head, doc, cursor, worker, follows>>

-----------------------------------------------------------------------------

Work(w) ==
  \/ Discover(w) \/ CursorNotInClone(w) \/ Process(w) \/ LoadThrows(w)
  \/ Commit(w) \/ CommitRefused(w) \/ Release(w)

Next ==
  \/ \E k \in Commits : MoveBranch(k)
  \/ \E w \in Workers : \/ \E m \in Modes, v \in Versions : Claim(w, m, v)
                        \/ Work(w) \/ HeartbeatAborts(w) \/ Throws(w)
  \/ LeaseLapses

Spec == Init /\ [][Next]_vars

\* Schedules fire and deliveries are made for ever, handlers go on, a lease whose
\* holder is gone runs out.
FairSpec ==
  /\ Spec
  /\ \A w \in Workers : /\ WF_vars(\E v \in Versions : Claim(w, "incremental", v))
                        /\ WF_vars(Work(w))
  /\ WF_vars(LeaseLapses /\ ~\E w \in Workers : worker[w] # Idle /\ HoldsFence(w))

-----------------------------------------------------------------------------
(* Properties                                                                *)

Texts == {Text[b] : b \in Blobs} \union {None}

TypeOK ==
  /\ head \in Commits
  /\ doc \in [Files -> [text : Texts, fingerprint : Blobs \union {None},
                        seen : 0 .. MaxCommit]]
  /\ cursor \in 0 .. MaxCommit
  /\ row \in [fence : Workers \union {None}, leased : BOOLEAN]
  /\ worker \in [Workers -> [pc : {"idle", "discover", "process", "commit", "release"},
                             version : Versions,
                             from : 0 .. MaxCommit, at : 0 .. MaxCommit,
                             plan : [Files -> Mutations]]]
  /\ follows \in 0 .. MaxVersion
  /\ faults \in 0 .. MaxFaults

TextAt(k, f) == IF Tree[k][f] = None THEN None ELSE Text[Tree[k][f]]

\* The active content is that of the cursor's commit under the filter, whether it
\* came by snapshots or by deltas, through removals and returns of documents,
\* branches that are set back, failures, and workers that lost their lease (PBI-005:
\* "A full rescan produces the same active content as incremental synchronization")
\* - as long as commands of one version of the configuration follow each other,
\* and no rescan under a narrower filter meets the commit of an earlier rescan.
ContentFollowsCursor ==
  follows # 0 =>
    \A f \in Files :
      doc[f].text = IF f \in Included[follows] THEN TextAt(cursor, f) ELSE None

\* A branch that was set back, or pushed over, has left the cursor's commit: only
\* a worker that has it in its clone can tell the difference to it, and where
\* there is none every synchronization but a full rescan throws.
CursorLeft == cursor # 0 /\ cursor \notin History[head]

\* The source catches up with a branch that stays, through failures, crashes and
\* lost leases - unless the branch has left the cursor's commit, or the commit has
\* a document that no load accepts, which stops the synchronization of all the
\* others.
EveryCommitArrives ==
  \A k \in Commits :
    (head = k) ~>
      \/ cursor = k \/ head # k \/ CursorLeft
      \/ \E f \in Files : Tree[k][f] \in Refused
=============================================================================
