---------------------------- MODULE BasicEconomy ----------------------------
(***************************************************************************)
(* sources/basic-economy/src/lib.rs: a market menu.  A player who enters   *)
(* its zone or asks for it is read a ledger of purchases and shown a menu  *)
(* named by the ledger's version; a click closes the menu and asks for one *)
(* transaction that moves the items and writes the ledger.                 *)
(*                                                                         *)
(* A handler appends to outbox, so a callback with several events is       *)
(* several steps.  What the callback's batch started is listed in          *)
(* rejected_batches, to be undone when the batch is refused.  Messages and *)
(* the notices deferred to the next command are left out.                  *)
(***************************************************************************)
EXTENDS HostCalls, Sequences, SequencesExt, FiniteSetsExt

CONSTANTS
  Players, Resources,
  Catalogs,           \* the configurations: product -> terms
  InitialInventory,   \* resource -> how many of it a player has at first
  MaxPurchasesPerItem, MaxActivePlayers, MaxLedgerEntries,
  Deeds,              \* bound: player -> what it does besides coming and going
  MaxVersion,         \* bound: no change is started at this version
  MaxUnderWay,        \* bound: requests with the host when one is added
  MaxClicks,          \* bound: clicks not delivered yet
  MaxBatch,           \* bound: commands when an event adds to a batch
  MaxSession          \* bound: sessions of a player

Terms == [resource : Resources, item_count : Nat \ {0}, price : Nat \ {0},
          currency_resource : Resources]

ASSUME SettingsAssumption ==
  /\ \A c \in Catalogs : DOMAIN c # {} /\ \A id \in DOMAIN c : c[id] \in Terms
  /\ InitialInventory \in [Resources -> Nat]
  /\ {MaxPurchasesPerItem, MaxActivePlayers, MaxLedgerEntries} \subseteq Nat \ {0}

VARIABLES
  ledgers, pending_reads, active_menus, pending_transactions,
  rejected_batches, catalog,   \* struct BasicEconomy
  link,        \* player -> its session, and whether it is "in", "left" (its
               \* PlayerLeft is not delivered yet) or "out"
  opened,      \* player -> the menu opened for it and not closed again, but
               \* by itself
  watching,    \* the players whose menu is open
  clicks,      \* clicks not delivered yet
  inventory,   \* player -> resource -> how many it has
  store,       \* player -> stored record
  outbox, calls, answers

tables == <<ledgers, pending_reads, active_menus, pending_transactions>>
client == <<link, opened, watching>>
vars == <<tables, rejected_batches, catalog, client, clicks, inventory, store,
          outbox, calls, answers>>

-----------------------------------------------------------------------------
(* Data *)

Put(f, x, y) == [z \in DOMAIN f \cup {x} |-> IF z = x THEN y ELSE f[z]]
Drop(f, S) == [z \in DOMAIN f \ S |-> f[z]]

(* next_request: a number not in use.  (The counter only grows while an    *)
(* instance lives.)                                                        *)
NewRequest ==
  LET used == {x.request : x \in pending_reads \cup pending_transactions}
                \cup {x.request : x \in calls \cup answers}
                \cup {x.request : x \in {c \in outbox : c.type \in {"get", "transaction"}}}
  IN  CHOOSE n \in 1 .. Cardinality(used) + 1 : n \notin used

Close(p, s) == [type |-> "close", player |-> p, session |-> s]
Open(p, s, id) == [type |-> "open", player |-> p, session |-> s, menu |-> id]

Send(commands) == outbox' = outbox \cup commands

Noted(entry) == rejected_batches' = Append(rejected_batches, entry)

Reading(p) == \E x \in pending_reads : x.player = p

(* decode_records accepts the ledger.  (encode_records writes any.)         *)
Decodable(records) == Cardinality(DOMAIN records) <= MaxLedgerEntries

(* What executing the purchase or refund of record moves. *)
Moved(inv, record, sign) ==
  [r \in DOMAIN inv |->
     inv[r] + sign * (  (IF r = record.resource THEN record.item_count ELSE 0)
                      - (IF r = record.currency_resource THEN record.price ELSE 0))]

-----------------------------------------------------------------------------
(* The catalog *)

(* Mutant: players whose ledger is being read are not counted. *)
Barred_CountsLedgers(p, loaded, transactions) ==
  \/ p \in DOMAIN active_menus \/ Reading(p)
  \/ \E x \in transactions : x.player = p
  \/ p \notin loaded /\ Cardinality(loaded) >= MaxActivePlayers

(* The player has the menu, waits for it, or is one too many. *)
Barred(p, loaded, transactions) ==
  \/ p \in DOMAIN active_menus \/ Reading(p)
  \/ \E x \in transactions : x.player = p
  \/ p \notin loaded /\ Cardinality(loaded) + Cardinality(pending_reads) >= MaxActivePlayers

(* start_catalog_read, when the ledgers of loaded are in memory. *)
StartCatalogRead(p, s, loaded, transactions) ==
  IF Barred(p, loaded, transactions)
  THEN UNCHANGED <<pending_reads, rejected_batches, outbox>>
  ELSE /\ pending_reads' = pending_reads \cup
                             {[request |-> NewRequest, player |-> p, session |-> s]}
       /\ Noted([kind |-> "read", request |-> NewRequest, player |-> p, session |-> s])
       /\ Send({[type |-> "get", request |-> NewRequest, player |-> p]})

(* zone_entered, and the command. *)
Enter(p) ==
  /\ link[p].state = "in"
  /\ Cardinality(outbox \cup calls \cup answers) < MaxUnderWay
  /\ StartCatalogRead(p, link[p].session, DOMAIN ledgers, pending_transactions)
  /\ UNCHANGED <<ledgers, active_menus, pending_transactions, catalog, client, clicks,
                 inventory, store, calls, answers>>

(* storage_read of an answer that is awaited, with open_catalog. *)
StorageRead(answer) ==
  /\ answer.type = "get"
  /\ \E pending \in {x \in pending_reads : x.request = answer.request} :
        LET p == pending.player
            s == pending.session
        IN  /\ pending_reads' = pending_reads \ {pending}
            /\ IF answer.outcome = "read" /\ Decodable(answer.record.value)
               THEN /\ ledgers' = Put(ledgers, p, [session |-> s,
                                                   version |-> answer.record.version,
                                                   records |-> answer.record.value])
                    /\ active_menus' = Put(active_menus, p,
                                           [session |-> s, id |-> answer.record.version])
                    /\ Noted([kind |-> "open", player |-> p, session |-> s])
                    /\ Send({Open(p, s, answer.record.version)})
               ELSE UNCHANGED <<ledgers, active_menus, rejected_batches, outbox>>
  /\ UNCHANGED pending_transactions

-----------------------------------------------------------------------------
(* Transactions *)

(* The ledger after one more purchase of a product, and after one less. *)
Bought(records, id) ==
  IF id \in DOMAIN records
  THEN [records EXCEPT ![id].purchases = @ + 1]
  ELSE Put(records, id, [terms |-> catalog[id], purchases |-> 1])

Refunded(records, id) ==
  IF records[id].purchases = 1
  THEN Drop(records, {id})
  ELSE [records EXCEPT ![id].purchases = @ - 1]

(* The clicks that become a transaction: the terms it is made at, which    *)
(* way the items go, and the ledger it writes.  Mutant: a refund is paid   *)
(* at today's terms.                                                       *)
Agreed_RefundAtPrice(records, id, click) ==
  IF click = "primary"
  THEN IF id \in DOMAIN records /\ \/ records[id].terms # catalog[id]
                                   \/ records[id].purchases >= MaxPurchasesPerItem
       THEN {} ELSE {[terms |-> catalog[id], sign |-> 1, records |-> Bought(records, id)]}
  ELSE IF id \notin DOMAIN records
       THEN {} ELSE {[terms |-> catalog[id], sign |-> -1, records |-> Refunded(records, id)]}

Agreed(records, id, click) ==
  IF click = "primary"
  THEN IF id \in DOMAIN records /\ \/ records[id].terms # catalog[id]
                                   \/ records[id].purchases >= MaxPurchasesPerItem
       THEN {} ELSE {[terms |-> catalog[id], sign |-> 1, records |-> Bought(records, id)]}
  ELSE IF id \notin DOMAIN records
       THEN {} ELSE {[terms |-> records[id].terms, sign |-> -1,
                      records |-> Refunded(records, id)]}

(* A click on the menu the player has, while no transaction is under way. *)
Valid(c) ==
  /\ c.player \in DOMAIN active_menus
  /\ active_menus[c.player] = [session |-> c.session, id |-> c.menu]
  /\ \A x \in pending_transactions : x.player # c.player
  /\ c.product \in DOMAIN catalog
  /\ c.player \in DOMAIN ledgers

Click(c) ==
  LET p == c.player
      ledger == ledgers[p]
  IN  /\ clicks' = clicks \ {c}
      /\ IF Valid(c) /\ Agreed(ledger.records, c.product, c.click) # {}
         THEN \E deal \in Agreed(ledger.records, c.product, c.click) :
                 /\ ledger.version < MaxVersion
                 /\ active_menus' = Drop(active_menus, {p})
                 /\ pending_transactions' = pending_transactions \cup
                      {[request |-> NewRequest, player |-> p, session |-> c.session]}
                 /\ Noted([kind |-> "transaction", request |-> NewRequest, player |-> p,
                           session |-> c.session, menu |-> active_menus[p]])
                 /\ Send({Close(p, c.session),
                          [type |-> "transaction", request |-> NewRequest, player |-> p,
                           session |-> c.session, expected |-> ledger.version,
                           deal |-> deal]})
         ELSE UNCHANGED <<active_menus, pending_transactions, rejected_batches, outbox>>
      /\ UNCHANGED <<ledgers, pending_reads, catalog, client, inventory, store, calls, answers>>

(* transaction_answered, if it is awaited; both outcomes read again. *)
TransactionAnswered(answer) ==
  /\ answer.type = "transaction"
  /\ \E pending \in {x \in pending_transactions : x.request = answer.request} :
        /\ pending_transactions' = pending_transactions \ {pending}
        /\ ledgers' = Drop(ledgers, {pending.player})
        /\ StartCatalogRead(pending.player, pending.session,
                            DOMAIN ledgers \ {pending.player},
                            pending_transactions \ {pending})
  /\ UNCHANGED active_menus

(* An answer nobody awaits any more. *)
Ignored(answer) ==
  /\ answer.request \notin {x.request : x \in pending_reads \cup pending_transactions}
  /\ UNCHANGED <<tables, rejected_batches, outbox>>

Deliver ==
  \E answer \in answers :
     /\ Cardinality(outbox) < MaxBatch
     /\ answers' = answers \ {answer}
     /\ StorageRead(answer) \/ TransactionAnswered(answer) \/ Ignored(answer)
     /\ UNCHANGED <<catalog, client, clicks, inventory, store, calls>>

-----------------------------------------------------------------------------
(* Leaving the zone or the server *)

(* The entries of other sessions, in their order. *)
Retained(entries, p, s) ==
  FoldLeft(LAMBDA kept, e : IF e.player = p /\ e.session = s THEN kept ELSE Append(kept, e),
           <<>>, entries)

(* Mutant: what the session's batch started is undone even so. *)
Clear_KeepsBatch(p, s) ==
  LET of(x) == x.player = p /\ x.session = s
  IN  /\ ledgers' = Drop(ledgers, {q \in {p} \cap DOMAIN ledgers : ledgers[q].session = s})
      /\ active_menus' = Drop(active_menus, {q \in {p} \cap DOMAIN active_menus :
                                               active_menus[q].session = s})
      /\ pending_reads' = {x \in pending_reads : ~of(x)}
      /\ pending_transactions' = {x \in pending_transactions : ~of(x)}
      /\ UNCHANGED rejected_batches

(* clear_player_session *)
Clear(p, s) ==
  LET of(x) == x.player = p /\ x.session = s
  IN  /\ ledgers' = Drop(ledgers, {q \in {p} \cap DOMAIN ledgers : ledgers[q].session = s})
      /\ active_menus' = Drop(active_menus, {q \in {p} \cap DOMAIN active_menus :
                                               active_menus[q].session = s})
      /\ pending_reads' = {x \in pending_reads : ~of(x)}
      /\ pending_transactions' = {x \in pending_transactions : ~of(x)}
      /\ rejected_batches' = Retained(rejected_batches, p, s)

(* zone_exited *)
Exit(p) ==
  /\ link[p].state = "in"
  /\ Cardinality(outbox) < MaxBatch
  /\ Clear(p, link[p].session)
  /\ Send({Close(q, link[p].session) : q \in {p} \cap (DOMAIN active_menus \ DOMAIN active_menus')})
  /\ UNCHANGED <<catalog, client, clicks, inventory, store, calls, answers>>

(* player_left; a session belongs to one player. *)
PlayerLeft(p) ==
  /\ link[p].state = "left"
  /\ link' = [link EXCEPT ![p].state = "out"]
  /\ Clear(p, link[p].session)
  /\ UNCHANGED <<catalog, opened, watching, clicks, inventory, store, outbox, calls, answers>>

-----------------------------------------------------------------------------
(* Refused batches *)

(* What undoing one entry makes of the tables. *)
Undone(entry, t) ==
  CASE entry.kind = "read" ->
         [t EXCEPT !.reads = {x \in @ : x.request # entry.request}]
    [] entry.kind = "open" ->
         [t EXCEPT !.menus = Drop(@, {p \in {entry.player} \cap DOMAIN @ :
                                        @[p].session = entry.session})]
    [] entry.kind = "transaction" ->
         [t EXCEPT !.transactions = {x \in @ : x.request # entry.request},
                   !.menus = Put(@, entry.player, entry.menu)]

(* Mutant: the entries are undone in the order they were made. *)
RejectLastBatch_InOrder ==
  FoldLeft(LAMBDA t, entry : Undone(entry, t),
           [reads |-> pending_reads, menus |-> active_menus,
            transactions |-> pending_transactions],
           rejected_batches)

(* Mutant: reads are not undone. *)
RejectLastBatch_KeepsReads ==
  FoldRight(Undone, SelectSeq(rejected_batches, LAMBDA e : e.kind # "read"),
            [reads |-> pending_reads, menus |-> active_menus,
             transactions |-> pending_transactions])

(* reject_last_batch: the last entry is undone first. *)
RejectLastBatch ==
  FoldRight(Undone, rejected_batches,
            [reads |-> pending_reads, menus |-> active_menus,
             transactions |-> pending_transactions])

RejectBatch ==
  LET t == RejectLastBatch
  IN  /\ Rejectable(outbox)
      /\ pending_reads' = t.reads /\ active_menus' = t.menus
      /\ pending_transactions' = t.transactions
      /\ rejected_batches' = <<>> /\ outbox' = {}
      /\ UNCHANGED <<ledgers, catalog, client, clicks, inventory, store, calls, answers>>

-----------------------------------------------------------------------------
(* The host (external) *)

(* A batch that opens a player's menu and closes it again closes it last:  *)
(* what is opened was read before, and a menu is closed by its click or by *)
(* leaving.  begin_output_batch comes before the next event.               *)
AcceptBatch ==
  LET shown(p) == {c.menu : c \in {d \in outbox : d.type = "open" /\ d.player = p}}
      closed == {c.player : c \in {d \in outbox : d.type = "close"}}
  IN  /\ outbox # {}
      /\ opened' = [p \in Players |-> CASE p \in closed -> {}
                                    [] shown(p) # {} -> shown(p)
                                    [] OTHER -> opened[p]]
      /\ watching' = {p \in Players : /\ link[p].state = "in" /\ p \notin closed
                                      /\ p \in watching \/ shown(p) # {}}
      /\ calls' = calls \cup {c \in outbox : c.type \in {"get", "transaction"}}
      /\ outbox' = {} /\ rejected_batches' = <<>>
      /\ UNCHANGED <<tables, catalog, link, clicks, inventory, store, answers>>

ExecuteGet(call) ==
  /\ call.type = "get"
  /\ \E outcome \in ReadOutcomes :
        answers' = answers \cup {[type |-> "get", request |-> call.request,
                                  outcome |-> outcome, record |-> store[call.player]]}
  /\ UNCHANGED <<inventory, store>>

(* Items and ledger change together or not at all; want of room may refuse *)
(* a transaction that could be paid.                                       *)
ExecuteTransaction(call) ==
  LET p == call.player
      left == Moved(inventory[p], call.deal.terms, call.deal.sign)
  IN  /\ call.type = "transaction"
      /\ answers' = answers \cup {[type |-> "transaction", request |-> call.request]}
      /\ \/ UNCHANGED <<inventory, store>>
         \/ /\ link[p] = [session |-> call.session, state |-> "in"]
            /\ store[p].version = call.expected
            /\ \A r \in Resources : left[r] >= 0
            /\ inventory' = [inventory EXCEPT ![p] = left]
            /\ store' = [store EXCEPT ![p] = Written(@, call.deal.records)]

Execute ==
  \E call \in calls :
     /\ calls' = calls \ {call}
     /\ ExecuteGet(call) \/ ExecuteTransaction(call)
     /\ UNCHANGED <<tables, rejected_batches, catalog, client, clicks, outbox>>

(* A player clicks, closes its menu, leaves or comes back. *)
PlayerClicks(p) ==
  /\ "click" \in Deeds[p]
  /\ p \in watching /\ Cardinality(clicks) < MaxClicks
  /\ \E menu \in opened[p], id \in DOMAIN catalog, click \in {"primary", "secondary"} :
        clicks' = clicks \cup {[player |-> p, session |-> link[p].session, menu |-> menu,
                                product |-> id, click |-> click]}
  /\ UNCHANGED <<tables, rejected_batches, catalog, client, inventory, store,
                 outbox, calls, answers>>

PlayerCloses(p) ==
  /\ "close" \in Deeds[p]
  /\ p \in watching
  /\ watching' = watching \ {p}
  /\ UNCHANGED <<tables, rejected_batches, catalog, link, opened, clicks, inventory, store,
                 outbox, calls, answers>>

Quit(p) ==
  /\ "quit" \in Deeds[p]
  /\ link[p].state = "in" /\ link[p].session < MaxSession
  /\ link' = [link EXCEPT ![p].state = "left"]
  /\ opened' = [opened EXCEPT ![p] = {}] /\ watching' = watching \ {p}
  /\ UNCHANGED <<tables, rejected_batches, catalog, clicks, inventory, store,
                 outbox, calls, answers>>

Join(p) ==
  /\ link[p].state = "out"
  /\ link' = [link EXCEPT ![p] = [session |-> @.session + 1, state |-> "in"]]
  /\ UNCHANGED <<tables, rejected_batches, catalog, opened, watching, clicks, inventory,
                 store, outbox, calls, answers>>

(* init, with the same configuration or another one; the menus of the      *)
(* dropped instance are closed.                                            *)
Restart ==
  /\ "restart" \in Faults
  /\ catalog' \in Catalogs
  /\ ledgers' = <<>> /\ pending_reads' = {} /\ active_menus' = <<>>
  /\ pending_transactions' = {} /\ rejected_batches' = <<>>
  /\ opened' = [p \in Players |-> {}] /\ watching' = {}
  /\ clicks' = {} /\ outbox' = {} /\ calls' = {} /\ answers' = {}
  /\ UNCHANGED <<link, inventory, store>>

-----------------------------------------------------------------------------
Init ==
  /\ catalog \in Catalogs
  /\ ledgers = <<>> /\ pending_reads = {} /\ active_menus = <<>>
  /\ pending_transactions = {} /\ rejected_batches = <<>>
  /\ link = [p \in Players |-> [session |-> 1, state |-> "in"]]
  /\ opened = [p \in Players |-> {}] /\ watching = {}
  /\ inventory = [p \in Players |-> InitialInventory]
  /\ store = [p \in Players |-> [version |-> 0, value |-> <<>>]]
  /\ clicks = {} /\ outbox = {} /\ calls = {} /\ answers = {}

Next ==
  \/ Deliver \/ AcceptBatch \/ RejectBatch \/ Execute \/ Restart
  \/ \E c \in clicks : Click(c)
  \/ \E p \in Players : \/ Enter(p) \/ Exit(p) \/ PlayerLeft(p)
                        \/ PlayerClicks(p) \/ PlayerCloses(p) \/ Quit(p) \/ Join(p)

Spec == Init /\ [][Next]_vars

-----------------------------------------------------------------------------
(* Properties *)

(* What the purchases of a ledger moved of a resource, all told. *)
Owed(records, r) ==
  MapThenSumSet(LAMBDA id : records[id].purchases *
                  (  (IF r = records[id].terms.currency_resource
                      THEN records[id].terms.price ELSE 0)
                   - (IF r = records[id].terms.resource
                      THEN records[id].terms.item_count ELSE 0)),
                DOMAIN records)

(* Nothing is bought or refunded but what the stored ledger says, at the   *)
(* terms it was bought at: a player's inventory with its purchases         *)
(* refunded is the one it came with, whatever the prices are by now and    *)
(* however often a click, an answer or a batch was lost.                   *)
PurchasesAreRefundable ==
  \A p \in Players, r \in Resources :
     inventory[p][r] + Owed(store[p].value, r) = InitialInventory[r]

(* The menu a player has was opened or is about to be, names the ledger in *)
(* memory, and the player awaits neither a read nor a transaction: the     *)
(* entries of a refused batch are undone to one of the states of a player, *)
(* never to two of them or to a menu it was not shown.                     *)
MenuMatchesLedger ==
  \A p \in DOMAIN active_menus :
     /\ p \in DOMAIN ledgers
     /\ active_menus[p] = [session |-> ledgers[p].session, id |-> ledgers[p].version]
     /\ ~Reading(p) /\ \A x \in pending_transactions : x.player # p
     /\ active_menus[p].id \in opened[p]
          \/ Open(p, active_menus[p].session, active_menus[p].id) \in outbox
          \/ link[p].state = "left"

(* A player that is told to wait has a read or a transaction with the host *)
(* that will be answered, and no more than one.                            *)
WaitingEnds ==
  /\ \A x \in pending_reads \cup pending_transactions :
        \E y \in outbox \cup calls \cup answers :
           y.type \in {"get", "transaction"} /\ y.request = x.request
  /\ \A x, y \in pending_reads \cup pending_transactions :
        x.player = y.player => x = y

(* Nothing is kept for a session that ended, even by the undoing of a      *)
(* batch it was part of.                                                   *)
NothingOfDeparted ==
  LET current(p, s) == link[p].session = s /\ link[p].state # "out"
  IN  /\ \A p \in DOMAIN ledgers : current(p, ledgers[p].session)
      /\ \A p \in DOMAIN active_menus : current(p, active_menus[p].session)
      /\ \A x \in pending_reads \cup pending_transactions : current(x.player, x.session)

(* decode_records accepts every ledger the shop wrote.  The code breaks    *)
(* this: click does not count the entries (README.md, Known disagreements).*)
LedgersAreReadable == \A p \in Players : Decodable(store[p].value)

(* No more players than the limit have a ledger in memory or on its way. *)
ActivePlayersBounded ==
  Cardinality(DOMAIN ledgers \cup {x.player : x \in pending_reads}) <= MaxActivePlayers
=============================================================================
