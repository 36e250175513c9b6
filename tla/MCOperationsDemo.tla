-------------------------- MODULE MCOperationsDemo ---------------------------
(* Two requests at a time, so that a retry races the call it repeats; two   *)
(* disturbances in all, so that the retry of a failed call can fail as      *)
(* well, or time run out after a kill; and a daily ceiling that one write   *)
(* counted in vain brings within reach.                                     *)
EXTENDS OperationsDemo
=============================================================================
