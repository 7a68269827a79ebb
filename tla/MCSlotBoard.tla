---------------------------- MODULE MCSlotBoard ----------------------------
(* Instance of SlotBoard for TLC. Documents are numbered in the order they  *)
(* are made, the slots can be exchanged. A disturbed state satisfies every  *)
(* property about the board and stays disturbed, so nothing about the board *)
(* is lost by not going on from it.                                         *)
EXTENDS SlotBoard, TLC

SlotSymmetry == Permutations(Slots)
Undisturbed == ~disturbed
============================================================================
