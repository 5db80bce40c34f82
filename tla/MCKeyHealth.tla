---------------------------- MODULE MCKeyHealth ----------------------------
(* The instance of KeyHealth that is model-checked.  The keys are not declared *)
(* symmetric: the run checks liveness.                                         *)
EXTENDS KeyHealth

CONSTANTS k1, k2, handler, prober

TwoKeys == {k1, k2}
OneHandlerAndProber == {handler, prober}
=============================================================================
