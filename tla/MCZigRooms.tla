----------------------------- MODULE MCZigRooms -----------------------------
(***************************************************************************)
(* The instances of ZigRooms that TLC checks.                              *)
(***************************************************************************)
EXTENDS ZigRooms, TLC

MCSymmetry == Permutations(Conns) \cup Permutations(Rooms)
=============================================================================
