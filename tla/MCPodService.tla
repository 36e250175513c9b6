---------------------------- MODULE MCPodService ----------------------------
(* Small instances of PodService for TLC. *)
EXTENDS PodService

CONSTANTS w1, w2, a, x, y

MCWorker == {w1, w2}
MCOnePod == {a}
MCContents == {x, y}
MCSubmissions == {<<1, x>>, <<1, y>>, <<2, x>>}
=============================================================================
