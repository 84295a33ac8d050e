--------------------------- MODULE MCMempoolWatch ---------------------------
(* Two transactions that spend the same input.                             *)
EXTENDS MempoolWatch

CONSTANTS t, u

TwoRivals == {{t, u}}
=============================================================================
