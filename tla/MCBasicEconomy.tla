--------------------------- MODULE MCBasicEconomy ---------------------------
(***************************************************************************)
(* Small instance of BasicEconomy: one product, sold at another price      *)
(* after a restart.                                                        *)
(***************************************************************************)
EXTENDS BasicEconomy

CONSTANTS ann, ben, coin, bread, loaf, roll

Offer(price) == [id \in {loaf} |-> [resource |-> bread, item_count |-> 1, price |-> price,
                                    currency_resource |-> coin]]

TwoPrices == {Offer(1), Offer(2)}

(* One product replaced by another one. *)
TwoProducts == {Offer(1), [id \in {roll} |-> Offer(1)[loaf]]}

OneBuys == [p \in {ann, ben} |-> IF p = ann THEN {"click", "close", "quit"} ELSE {}]

ThreeCoins == [r \in {coin, bread} |-> IF r = coin THEN 3 ELSE 0]
=============================================================================
