------------------------- MODULE MCAnalysisTriggers -------------------------
(* AnalysisTriggers on small instances.                                      *)
EXTENDS AnalysisTriggers
=============================================================================
