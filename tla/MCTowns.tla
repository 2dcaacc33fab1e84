------------------------------ MODULE MCTowns ------------------------------
(***************************************************************************)
(* Small instances of Towns, started with an empty key or with towns an    *)
(* earlier instance saved.                                                 *)
(***************************************************************************)
EXTENDS Towns, TLC

CONSTANTS ann, ben, oak, elm, north, south

Led(leader, others, claimed, guests) ==
  [leader |-> leader, members |-> (leader :> "leader") @@ others,
   claims |-> claimed, trusted |-> guests, public_use |-> FALSE]

Saved(register) == [version |-> 1, value |-> register]

(* Two towns of one player each, a guest in the one with a claim. *)
Neighbours == Saved(oak :> Led(ann, <<>>, {north}, {ben})
                    @@ elm :> Led(ben, <<>>, {}, {}))

(* One town with an officer. *)
Settled == Saved(oak :> Led(ann, ben :> "officer", {north}, {}))

(* One town of one player, with a claim or with every chunk. *)
Hermit(claims) == Saved(oak :> Led(ann, <<>>, claims, {}))

CharterStores == {Absent, Neighbours, Settled}
ZoneStores == {Hermit(Chunks)}
LoneStores == {Hermit({north})}
=============================================================================
