---------------------------- MODULE MCHashSlots ----------------------------
(* Instances of HashSlots for TLC. *)
EXTENDS HashSlots

CONSTANTS r1, r2, r3, r4, r5
=============================================================================
