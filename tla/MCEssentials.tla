---------------------------- MODULE MCEssentials ----------------------------
(***************************************************************************)
(* Small instance of Essentials: three players and the warps, two names.   *)
(* Each cast is a set of runs in which the players do only some of what    *)
(* they could: one for teleport requests, one for messages and /back, one  *)
(* for changes of the warps, one for going to them.                        *)
(***************************************************************************)
EXTENDS Essentials

CONSTANTS ann, ben, cyd, warps, spawn, shop, overworld, nether, unknown

Cast(a, b, c) == [s \in {ann, ben, cyd} |-> CASE s = ann -> a [] s = ben -> b [] s = cyd -> c]

TpaCast == Cast({"tpa", "leave"}, {"accept"}, {"tpa", "leave"})
ChatCast == Cast({"msg", "leave"}, {"msg", "reply"}, {"die", "back", "travel"})
PlaceCast == Cast({"set", "delete"}, {}, {"get"})
GoCast == Cast({"get", "travel"}, {}, {})
SaveCast == Cast({"set"}, {"set"}, {})

OnlySaves == {SaveCast}
AllCasts == {TpaCast, ChatCast, PlaceCast, GoCast}

Apart == [s \in {ann, ben, cyd} |-> IF s = ann THEN nether ELSE overworld]

AllRegisters == [s \in {ann, ben, cyd} |-> {warps}]

OnePlace == [k \in {warps} |-> 1]

TwoPlaces == [k \in {warps} |-> 2]

NoWarp == [k \in {warps} |-> [version |-> 0, value |-> <<>>]]

LegacyWarp == [k \in {warps} |-> [version |-> 1, value |-> [n \in {shop} |-> unknown]]]
=============================================================================
