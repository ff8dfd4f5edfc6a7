------------------------------ MODULE MCTropic01 ------------------------------
(***************************************************************************)
(* Tropic01 with one R-Memory slot, called by its number, by the number    *)
(* that a cast to uint16_t turns into it, and by one past the last slot.   *)
(***************************************************************************)
EXTENDS Tropic01

OneSlot == {0}
SlotNumbers == {0, 512, 65536}
=============================================================================
