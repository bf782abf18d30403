--------------------------- MODULE OccurrenceClock ---------------------------
(***************************************************************************)
(* What the schedulers promise those who carry out their commands: each    *)
(* schedule fires its occurrences one after the other, each of them once.  *)
(* How many replicas poll, what they have read and who administers the     *)
(* schedules does not show.  CaseDiscovery uses the schedulers as this one *)
(* step (Enqueue).                                                         *)
(***************************************************************************)
EXTENDS Naturals

CONSTANTS Schedules, Times

VARIABLE sent  \* sent[s][t]: commands sent for s at t

Init == sent = [s \in Schedules |-> [t \in Times |-> 0]]

\* The next occurrence of s: none before it is still to come.
IsNext(s, t) ==
  /\ sent[s][t] = 0
  /\ \A u \in Times : u < t => sent[s][u] = 1

Fire(s) ==
  \E t \in Times : IsNext(s, t) /\ sent' = [sent EXCEPT ![s][t] = 1]

Next == \E s \in Schedules : Fire(s)

Spec == Init /\ [][Next]_sent
=============================================================================
