---------------------------- MODULE MCLivePhases -----------------------------
(***************************************************************************)
(* The four live scripts: two appended chunks of bytecode, two run ids    *)
(* of Phase D2, three stops and a shipper who could pay twice.             *)
(***************************************************************************)
EXTENDS LivePhases
==============================================================================
