---------------------------- MODULE MCFinalDemo ----------------------------
(* The final demonstration for TLC.                                        *)
EXTENDS FinalDemo, TLC
=============================================================================
