------------------------------ MODULE MCGraves ------------------------------
(***************************************************************************)
(* Small instances of Graves: more cells than the table has room for, and  *)
(* enough ticks for windows that open and close at different times.        *)
(***************************************************************************)
EXTENDS Graves, TLC

CONSTANTS ann, ben, attic, barn, cave

(* Owners are only compared. *)
OwnersAlike == Permutations(Players)
=============================================================================
