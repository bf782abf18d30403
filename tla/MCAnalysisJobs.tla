--------------------------- MODULE MCAnalysisJobs ---------------------------
(* AnalysisJobs on small instances: one job with two faults, or a job and its   *)
(* replacement with one.  No symmetry, because a liveness property is checked.  *)
EXTENDS AnalysisJobs
=============================================================================
