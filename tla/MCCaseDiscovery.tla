-------------------------- MODULE MCCaseDiscovery --------------------------
(* CaseDiscovery on small instances.                                         *)
EXTENDS CaseDiscovery
=============================================================================
