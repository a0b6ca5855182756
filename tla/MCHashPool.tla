----------------------------- MODULE MCHashPool -----------------------------
(* The hash pool for TLC: every constant is given in the configuration.    *)
EXTENDS HashPool
=============================================================================
