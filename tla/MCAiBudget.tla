------------------------------ MODULE MCAiBudget ------------------------------
(* AiBudget on small instances: a day's and a workspace's policy, both of which *)
(* apply to every operation, with ids that sort the other way round.           *)
EXTENDS AiBudget

CONSTANTS day, workspace

BothScopes == [o \in Operations |-> {day, workspace}]

LimitTwo == [p \in Policies |-> 2]

DayFirst == [p \in Policies |-> IF p = day THEN 1 ELSE 2]

WorkspaceFirst == [p \in Policies |-> IF p = workspace THEN 1 ELSE 2]

OneOrTwo == {1, 2}
=============================================================================
