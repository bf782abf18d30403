---------------------------- MODULE MCPublication ----------------------------
(* Publication on small instances.                                           *)
EXTENDS Publication, TLC

Symmetry == Permutations(Executors)

\* Any three faults without reconciliation, or one fault with two of them.
FaultsOrLookups == {[faults |-> 3, lookups |-> 0], [faults |-> 1, lookups |-> 2]}
=============================================================================
