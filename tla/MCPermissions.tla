--------------------------- MODULE MCPermissions ---------------------------
(***************************************************************************)
(* Small instance of Permissions: the default group may use homes, and     *)
(* manage them in one dimension, one group may do everything and one       *)
(* nothing; three players, two of whom may have an assignment.             *)
(***************************************************************************)
EXTENDS Permissions

CONSTANTS ann, ben, cyd, use, manage, nether, player, admin, blocked

SomeNodes == {use, manage, Wildcard, <<manage, nether>>}

ThreeGroups ==
  [g \in {player, admin, blocked} |->
     CASE g = player -> {use, <<manage, nether>>} [] g = admin -> {Wildcard} [] OTHER -> {}]

FreshOrBlocked ==
  {[version |-> 0, value |-> <<>>],
   [version |-> 1, value |-> [p \in {ann} |-> blocked]]}
=============================================================================
