------------------------------- MODULE Money -------------------------------
(***************************************************************************)
(* What solaris-economy promises: every player has a balance, an operator  *)
(* may set one balance, and a payment named by its sender and token moves  *)
(* its amount from the sender to the recipient once and never again.       *)
(* Accounts that were never opened, the token window, versions, requests   *)
(* and answers are all below this level.                                   *)
(***************************************************************************)
EXTENDS Integers

CONSTANTS Players, TransferTokens, MaxBalance

VARIABLES balance,   \* what every player owns
          spent      \* the payments <<sender, token>> already made

vars == <<balance, spent>>

Payments == Players \X TransferTokens

TypeOK == /\ balance \in [Players -> 0 .. MaxBalance]
          /\ spent \subseteq Payments

Init == /\ balance \in [Players -> 0 .. MaxBalance]
        /\ spent = {}

Pay(sender, token, recipient, amount) ==
  /\ <<sender, token>> \notin spent
  /\ recipient # sender
  /\ amount \in 1 .. balance[sender]
  /\ balance[recipient] + amount <= MaxBalance
  /\ balance' = [balance EXCEPT ![sender] = @ - amount,
                                ![recipient] = @ + amount]
  /\ spent' = spent \cup {<<sender, token>>}

SetBalance(player, amount) ==
  /\ balance' = [balance EXCEPT ![player] = amount]
  /\ UNCHANGED spent

Next ==
  \/ \E sender, recipient \in Players, token \in TransferTokens,
        amount \in 1 .. MaxBalance : Pay(sender, token, recipient, amount)
  \/ \E player \in Players, amount \in 0 .. MaxBalance :
        SetBalance(player, amount)

Spec == Init /\ [][Next]_vars
=============================================================================
