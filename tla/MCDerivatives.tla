--------------------------- MODULE MCDerivatives ---------------------------
(* Derivatives on small instances.                                           *)
EXTENDS Derivatives
=============================================================================
