---------------------------- MODULE MCGateVisits ----------------------------
(* An instance of GateVisits for TLC: its constants are in the .cfg.       *)
EXTENDS GateVisits

CONSTANTS k1, k2

(* Keys are interchangeable until they are used: of two behaviours that    *)
(* differ by the names of the keys, the one that uses k1 first is checked. *)
KeysInOrder == told[k2] # "unused" => told[k1] # "unused"
=============================================================================
