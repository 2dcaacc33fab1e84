----------------------------- MODULE MCEconomy -----------------------------
(***************************************************************************)
(* Small instances of Economy.  Two players with accounts, a third one for *)
(* whom the ledger has no room, two tokens and a window of one token, so   *)
(* that the account limit, eviction and a retry after eviction all occur.  *)
(***************************************************************************)
EXTENDS Economy

CONSTANTS alice, bob, carol, rent, gift

(* The key was never written. *)
Fresh == {Absent}

(* A ledger written before receipts existed: its token has none. *)
Legacy ==
  {[version |-> 1,
    value |-> [accounts |-> [p \in {alice} |-> 1],
               tokens |-> << <<alice, rent>> >>]]}

FreshOrLegacy == Fresh \cup Legacy

Minus == {-1}
=============================================================================
