------------------------------- MODULE MCDcache ------------------------------
(* Two lines and two tags cover conflict misses in each set; of the five     *)
(* addresses the last two are beyond the RAM, and the last has a bit above   *)
(* the tag: without it, it is address 0.  Two lanes are enough to tell a     *)
(* partial store from a full one, and nothing tells the lanes apart.         *)
EXTENDS DcacheRefinement, TLC

LaneSymmetry == Permutations(Lanes)
=============================================================================
