------------------------------ MODULE Economy ------------------------------
(***************************************************************************)
(* sources/solaris-economy/src/lib.rs: the ledger plugin, one instance     *)
(* after another over one durable ledger.                                  *)
(*                                                                         *)
(* The plugin answers every command from an in-memory copy of the ledger.  *)
(* An update is computed from that copy, written with a compare-and-set    *)
(* against the version the copy was read at, and copied to memory when the *)
(* write is confirmed.  A payment first asks the host whether its          *)
(* operation already has a receipt.                                        *)
(*                                                                         *)
(* A player is the normalised UUID, a transfer token a model value, and a  *)
(* token key (also the operation id) the pair of both.  A request id is    *)
(* the number in it: the version for ledger-v<n>, the sequence number for  *)
(* pay-status-<n> and ledger-reload-<n>.                                   *)
(***************************************************************************)
EXTENDS HostCalls, Sequences, FiniteSets, Functions

CONSTANTS
  Players, TransferTokens,
  StartingBalance, MaxBalance, MaxAccounts, MaxTokens,   \* Settings
  Amounts,          \* what a /pay or /econadmin set may name
  Deltas,           \* what an /econadmin add may name
  InitialStores,    \* the ledgers an instance may find at first start
  MaxVersion,       \* bound: no update is started at this version
  MaxSequence,      \* bound: no request is numbered beyond this
  MaxOutstanding    \* bound: calls and answers under way when one starts

ASSUME SettingsAssumption ==
  /\ StartingBalance \in Nat
  /\ MaxBalance \in Nat
  /\ StartingBalance <= MaxBalance
  /\ MaxAccounts \in Nat \ {0, 1}
  /\ MaxTokens \in Nat \ {0}

ASSUME InputsAssumption == Amounts \subseteq Int /\ Deltas \subseteq Int

ASSUME BoundsAssumption == /\ MaxVersion \in Nat
                           /\ MaxSequence \in Nat
                           /\ MaxOutstanding \in Nat

VARIABLES
  (* the fields of struct Economy; tokens is Tokens below *)
  accounts, token_order, storage_version, loaded,
  pending, pending_pay_status, sequence,
  (* the host *)
  store,      \* the record under the key ledger-v1
  receipts,   \* the receipts of storage batches: operation -> revision
  outbox,     \* what the running callback returned so far
  calls,      \* accepted requests, not yet executed
  answers     \* answers not yet delivered

memory == <<accounts, token_order, storage_version, loaded>>
requesting == <<pending, pending_pay_status, sequence>>
plugin == <<memory, requesting>>
durable == <<store, receipts>>
vars == <<plugin, durable, outbox, calls, answers>>

-----------------------------------------------------------------------------
(* Data *)

Operations == Players \X TransferTokens

Ledgers == [accounts: UNION {[S -> 0 .. MaxBalance] : S \in SUBSET Players},
            tokens: Seq(Operations)]

EmptyLedger == [accounts |-> <<>>, tokens |-> <<>>]

Absent == [version |-> 0, value |-> EmptyLedger]

NoRepeats(s) == \A i, j \in DOMAIN s : s[i] = s[j] => i = j

(* Settings::decode accepts the ledger. *)
Decodable(ledger) ==
  /\ \A p \in DOMAIN ledger.accounts : ledger.accounts[p] <= MaxBalance
  /\ Cardinality(DOMAIN ledger.accounts) <= MaxAccounts
  /\ NoRepeats(ledger.tokens)
  /\ Len(ledger.tokens) <= MaxTokens

Records == [version: Nat, value: Ledgers]

(* A first start finds a ledger that an earlier version of the plugin      *)
(* saved, so one that decode accepts.                                      *)
ASSUME StoresAssumption ==
  InitialStores \subseteq {r \in Records : Decodable(r.value)}

Tokens == Range(token_order)

BalanceIn(table, p) == IF p \in DOMAIN table THEN table[p] ELSE StartingBalance

Balance(p) == BalanceIn(accounts, p)

(* BTreeMap::insert *)
Insert(table, p, n) ==
  [q \in DOMAIN table \cup {p} |-> IF q = p THEN n ELSE table[q]]

(* The table has an account for p or room for another one. *)
HasRoom(table, p) ==
  p \in DOMAIN table \/ Cardinality(DOMAIN table) < MaxAccounts

(* Mutant: the window is one token too long. *)
Remember_OneMore(order, operation) ==
  LET longer == Append(order, operation)
  IN  IF Len(longer) > MaxTokens + 1 THEN Tail(longer) ELSE longer

(* Mutant: a full window drops the newest token. *)
Remember_Oldest(order, operation) ==
  IF Len(order) < MaxTokens THEN Append(order, operation) ELSE order

(* The newest MaxTokens tokens after one more payment. *)
Remember(order, operation) ==
  LET longer == Append(order, operation)
  IN  IF Len(longer) > MaxTokens
      THEN SubSeq(longer, Len(longer) - MaxTokens + 1, Len(longer))
      ELSE longer

-----------------------------------------------------------------------------
(* Requests *)

Reload(n) == [type |-> "get", request |-> n]

Probe(status) == [type |-> "status", request |-> status.request,
                  operation |-> status.operation]

LedgerOf(update) == [accounts |-> update.accounts, tokens |-> update.tokens]

(* Mutant: a payment is written by a plain compare-and-set, without the     *)
(* operation that leaves a receipt.                                         *)
WriteOf_Plain(update) ==
  [type |-> "cas", request |-> update.request, operation |-> update.operation,
   expected |-> update.request, value |-> LedgerOf(update)]

(* The write that save issues for an update: StorageBatchCas for a payment, *)
(* storage_cas otherwise.                                                   *)
WriteOf(update) ==
  [type |-> IF update.operation = {} THEN "cas" ELSE "batch",
   request |-> update.request, operation |-> update.operation,
   expected |-> update.request, value |-> LedgerOf(update)]

(* save: one update at a time, named after the version it replaces.  When  *)
(* issue_pay calls it the probe has been taken, hence the primed variable. *)
Save(table, order, operation) ==
  IF pending = {} /\ pending_pay_status' = {}
  THEN LET update == [request |-> storage_version, operation |-> operation,
                      accounts |-> table, tokens |-> order]
       IN  /\ pending' = {update}
           /\ outbox' = outbox \cup {WriteOf(update)}
  ELSE /\ outbox' = outbox \cup {Message}
       /\ UNCHANGED pending

(* A reload drops the claim to know the ledger until the read is answered. *)
Forget ==
  /\ loaded' = FALSE
  /\ sequence' = sequence + 1
  /\ outbox' = outbox \cup {Message, Reload(sequence + 1)}
  /\ UNCHANGED <<accounts, token_order, storage_version>>

-----------------------------------------------------------------------------
(* Commands *)

CanWrite == /\ store.version < MaxVersion
            /\ sequence < MaxSequence
            /\ Cardinality(calls) + Cardinality(answers) <= MaxOutstanding

(* /money, and every command refused with a chat message: nothing changes. *)
Money ==
  /\ Message \notin outbox
  /\ outbox' = outbox \cup {Message}
  /\ UNCHANGED <<plugin, durable, calls, answers>>

(* /pay <target> <amount> <token>, up to the receipt probe. *)
Pay(actor, target, amount, token) ==
  /\ CanWrite
  /\ loaded
  /\ target # actor
  /\ amount \in 1 .. MaxBalance
  /\ <<actor, token>> \notin Tokens
  /\ pending = {} /\ pending_pay_status = {}
  /\ sequence' = sequence + 1
  /\ LET status == [request |-> sequence + 1, operation |-> <<actor, token>>,
                    target |-> target, amount |-> amount]
     IN  /\ pending_pay_status' = {status}
         /\ outbox' = outbox \cup {Probe(status)}
  /\ UNCHANGED <<memory, pending, durable, calls, answers>>

(* /econadmin, both forms, with the balance they lead to. *)
Admin(target, next_amount) ==
  /\ CanWrite
  /\ loaded
  /\ next_amount \in 0 .. MaxBalance
  /\ HasRoom(accounts, target)
  /\ UNCHANGED pending_pay_status
  /\ Save(Insert(accounts, target, next_amount), token_order, {})
  /\ UNCHANGED <<memory, sequence, durable, calls, answers>>

-----------------------------------------------------------------------------
(* Answers *)

(* issue_pay: the payment is computed now, from the memory of now. *)
IssuePay(status) ==
  LET sender  == status.operation[1]
      left    == Balance(sender) - status.amount
      debited == Insert(accounts, sender, left)
      total   == Balance(status.target) + status.amount
  IN  /\ IF /\ left >= 0
            /\ total <= MaxBalance
            /\ HasRoom(accounts, sender)
            /\ HasRoom(debited, status.target)
         THEN Save(Insert(debited, status.target, total),
                   Remember(token_order, status.operation),
                   {status.operation})
         ELSE /\ outbox' = outbox \cup {Message}
              /\ UNCHANGED pending
      /\ UNCHANGED <<memory, sequence>>

(* operation_answer, for the receipt probe that is awaited. *)
StatusAnswered(answer, status) ==
  /\ answer.type = "status"
  /\ status.request = answer.request
  /\ status.operation = answer.operation
  /\ pending_pay_status' = {}
  /\ CASE answer.outcome = "not_found" -> IssuePay(status)
       [] answer.outcome = "committed" -> Forget /\ UNCHANGED pending
       [] OTHER -> /\ outbox' = outbox \cup {Message}
                   /\ UNCHANGED <<memory, pending, sequence>>

(* Mutant: the tokens of the confirmed update are not copied. *)
ApplyUpdate_KeepsTokens(update, revision) ==
  /\ accounts' = update.accounts
  /\ storage_version' = revision
  /\ outbox' = outbox \cup {Message}
  /\ UNCHANGED <<token_order, loaded, sequence>>

(* apply_update: the confirmed update becomes the memory. *)
ApplyUpdate(update, revision) ==
  /\ accounts' = update.accounts
  /\ token_order' = update.tokens
  /\ storage_version' = revision
  /\ outbox' = outbox \cup {Message}
  /\ UNCHANGED <<loaded, sequence>>

(* operation_answer and storage_cas, for the write that is awaited. *)
Awaits(update, answer) ==
  /\ answer.request = update.request
  /\ answer.operation = update.operation
  /\ answer.type = WriteOf(update).type

(* Mutant: an update that was not confirmed is dropped, nothing reloaded. *)
WriteAnswered_NoReload(answer, update) ==
  /\ answer.type \in {"cas", "batch"}
  /\ Awaits(update, answer)
  /\ pending' = {}
  /\ UNCHANGED pending_pay_status
  /\ IF answer.outcome = "committed"
     THEN ApplyUpdate(update, answer.version)
     ELSE /\ loaded' = FALSE
          /\ outbox' = outbox \cup {Message}
          /\ UNCHANGED <<accounts, token_order, storage_version, sequence>>

WriteAnswered(answer, update) ==
  /\ answer.type \in {"cas", "batch"}
  /\ Awaits(update, answer)
  /\ pending' = {}
  /\ UNCHANGED pending_pay_status
  /\ CASE answer.outcome = "committed" -> ApplyUpdate(update, answer.version)
       [] answer.outcome = "malformed" ->
            /\ loaded' = FALSE
            /\ outbox' = outbox \cup {Message}
            /\ UNCHANGED <<accounts, token_order, storage_version, sequence>>
       [] OTHER -> Forget

(* storage_get: any read answers, whatever its request was. *)
LedgerRead(answer) ==
  /\ answer.type = "get"
  /\ IF answer.outcome = "read" /\ Decodable(answer.value)
     THEN /\ accounts' = answer.value.accounts
          /\ token_order' = answer.value.tokens
          /\ storage_version' = answer.version
          /\ loaded' = TRUE
     ELSE /\ loaded' = FALSE
          /\ UNCHANGED <<accounts, token_order, storage_version>>
  /\ UNCHANGED <<requesting, outbox>>

(* An answer nobody awaits. *)
Ignored(answer) ==
  /\ answer.type # "get"
  /\ answer.type = "status" =>
       \A s \in pending_pay_status : Probe(s).request # answer.request
                                  \/ s.operation # answer.operation
  /\ answer.type # "status" => \A u \in pending : ~ Awaits(u, answer)
  /\ UNCHANGED <<plugin, outbox>>

Deliver ==
  \E answer \in answers :
     /\ answers' = answers \ {answer}
     /\ \/ LedgerRead(answer)
        \/ \E status \in pending_pay_status : StatusAnswered(answer, status)
        \/ \E update \in pending : WriteAnswered(answer, update)
        \/ Ignored(answer)
     /\ UNCHANGED <<durable, calls>>

-----------------------------------------------------------------------------
(* The host (external) *)

AcceptBatch ==
  /\ outbox # {}
  /\ calls' = calls \cup Requests(outbox)
  /\ outbox' = {}
  /\ UNCHANGED <<plugin, durable, answers>>

(* Mutant: a refused batch leaves what waited for it. *)
RejectBatch_Waits ==
  /\ Rejectable(outbox)
  /\ outbox' = {}
  /\ UNCHANGED <<plugin, durable, calls, answers>>

(* A refused batch, and the plugin's CommandBatchRejected handler. *)
RejectBatch ==
  /\ Rejectable(outbox)
  /\ outbox' = {}
  /\ pending' = {}
  /\ pending_pay_status' = {}
  /\ UNCHANGED <<memory, sequence, durable, calls, answers>>

Answer(call, fields) ==
  /\ calls' = calls \ {call}
  /\ answers' = answers \cup {fields}
  /\ UNCHANGED <<plugin, outbox>>

ExecuteGet(call) ==
  /\ call.type = "get"
  /\ \E outcome \in ReadOutcomes :
        Answer(call, [type |-> "get", request |-> call.request,
                      outcome |-> outcome, version |-> store.version,
                      value |-> store.value])
  /\ UNCHANGED durable

ExecuteStatus(call) ==
  /\ call.type = "status"
  /\ \E outcome \in (IF call.operation \in DOMAIN receipts
                     THEN {"committed"} ELSE {"not_found"})
                    \cup IF "read_failure" \in Faults THEN {"failed"} ELSE {} :
        Answer(call, [type |-> "status", request |-> call.request,
                      operation |-> call.operation, outcome |-> outcome])
  /\ UNCHANGED durable

(* The answer to a write carries the revision it left the ledger at. *)
AnswerWrite(call, outcome, revision) ==
  Answer(call, [type |-> call.type, request |-> call.request,
                operation |-> call.operation, outcome |-> outcome,
                version |-> revision])

ExecuteCas(call) ==
  /\ call.type = "cas"
  /\ \E x \in CasExecutions(store, call.expected, call.value) :
        /\ store' = x.record
        /\ AnswerWrite(call, x.outcome, x.record.version)
  /\ UNCHANGED receipts

(* A storage batch commits its write and its receipt together. *)
ExecuteBatch(call) ==
  /\ call.type = "batch"
  /\ call.operation \cap DOMAIN receipts = {}
  /\ \E x \in CasExecutions(store, call.expected, call.value) :
        /\ store' = x.record
        /\ receipts' = IF x.record = store THEN receipts
                       ELSE [op \in DOMAIN receipts \cup call.operation |->
                               IF op \in call.operation THEN x.record.version
                               ELSE receipts[op]]
        /\ \/ AnswerWrite(call, x.outcome, x.record.version)
           \/ /\ "malformed_receipt" \in Faults
              /\ x.outcome = "committed"
              /\ AnswerWrite(call, "malformed", x.record.version)

(* A batch whose operation has a receipt is not executed again. *)
ReplayBatch(call) ==
  /\ call.type = "batch"
  /\ \E op \in call.operation \cap DOMAIN receipts :
        \E outcome \in {"committed", "refused"} :
           AnswerWrite(call, outcome, receipts[op])
  /\ UNCHANGED durable

Execute == \E call \in calls : \/ ExecuteGet(call)
                               \/ ExecuteStatus(call)
                               \/ ExecuteCas(call)
                               \/ ExecuteBatch(call)
                               \/ ReplayBatch(call)

(* Another instance starts; what the last one had under way is dropped,    *)
(* whether or not the host executed it.                                    *)
Restart ==
  /\ "restart" \in Faults
  /\ accounts' = <<>> /\ token_order' = <<>> /\ storage_version' = 0
  /\ loaded' = FALSE
  /\ pending' = {} /\ pending_pay_status' = {}
  /\ sequence' = 0
  /\ outbox' = {Reload(0)} /\ calls' = {} /\ answers' = {}
  /\ UNCHANGED durable

-----------------------------------------------------------------------------
Init ==
  /\ accounts = <<>> /\ token_order = <<>> /\ storage_version = 0
  /\ loaded = FALSE
  /\ pending = {} /\ pending_pay_status = {}
  /\ sequence = 0
  /\ store \in InitialStores
  /\ receipts = <<>>
  /\ outbox = {Reload(0)} /\ calls = {} /\ answers = {}

Command ==
  \/ Money
  \/ \E actor, target \in Players, amount \in Amounts, token \in TransferTokens :
        Pay(actor, target, amount, token)
  \/ \E target \in Players, amount \in Amounts : Admin(target, amount)
  \/ \E target \in Players, delta \in Deltas :
        Admin(target, Balance(target) + delta)

Next == Command \/ Deliver \/ AcceptBatch \/ RejectBatch \/ Execute \/ Restart

Spec == Init /\ [][Next]_vars

(* The host decides on every batch, executes every call and delivers every *)
(* answer.                                                                 *)
Fairness == WF_vars(AcceptBatch) /\ WF_vars(Execute) /\ WF_vars(Deliver)

FairSpec == Spec /\ Fairness
-----------------------------------------------------------------------------
(* Properties *)

Updates == [request: Nat, operation: SUBSET Operations,
            accounts: UNION {[S -> 0 .. MaxBalance] : S \in SUBSET Players},
            tokens: Seq(Operations)]

Statuses == [request: Nat, operation: Operations,
             target: Players, amount: 1 .. MaxBalance]

Calls ==
  [type: {"get"}, request: Nat]
    \cup [type: {"status"}, request: Nat, operation: Operations]
    \cup [type: {"cas", "batch"}, request: Nat, operation: SUBSET Operations,
          expected: Nat, value: Ledgers]

Answers ==
  [type: {"get"}, request: Nat, outcome: {"read", "failed"},
   version: Nat, value: Ledgers]
    \cup [type: {"status"}, request: Nat, operation: Operations,
          outcome: {"not_found", "committed", "failed"}]
    \cup [type: {"cas", "batch"}, request: Nat, operation: SUBSET Operations,
          outcome: {"committed", "refused", "failed", "malformed"}, version: Nat]

(* Every variable has the values its Rust type and the settings allow. *)
TypeOK ==
  /\ [accounts |-> accounts, tokens |-> token_order] \in Ledgers
  /\ storage_version \in Nat
  /\ loaded \in BOOLEAN
  /\ pending \in SUBSET Updates
  /\ pending_pay_status \in SUBSET Statuses
  /\ sequence \in Nat
  /\ store \in Records
  /\ DOMAIN receipts \subseteq Operations
  /\ receipts \in [DOMAIN receipts -> Nat]
  /\ outbox \in SUBSET (Calls \cup {Message})
  /\ calls \in SUBSET Calls
  /\ answers \in SUBSET Answers

(* The memory answers /money and every check of /pay and /econadmin, so    *)
(* when it carries the version the ledger is stored at, it is the stored   *)
(* ledger: no update is ever computed from other balances than those it    *)
(* replaces.                                                               *)
MemoryIsDurable ==
  loaded /\ storage_version = store.version =>
     store.value = [accounts |-> accounts, tokens |-> token_order]

(* A write names its update only by the version it replaces, so at most    *)
(* one write may be under way, or an answer meant for one update would     *)
(* confirm another.                                                        *)
Writes == {c \in outbox \cup calls \cup answers : c.type \in {"cas", "batch"}}
OneWriteUnderWay == Cardinality(Writes) <= 1

(* An update that blocks all others has its write under way: a rejected    *)
(* batch or a lost answer cannot leave "Another economy update is          *)
(* committing" as the answer to every later command.                       *)
UpdateIsUnderWay ==
  /\ \A u \in pending : \E w \in Writes : w.type = WriteOf(u).type
                                       /\ w.request = u.request
                                       /\ w.operation = u.operation
  /\ \A s \in pending_pay_status :
        \E c \in outbox \cup calls \cup answers : /\ c.type = "status"
                                                  /\ c.request = s.request
                                                  /\ c.operation = s.operation

(* The probe before the effect: a payment is only written when its         *)
(* operation has no receipt, whatever evicted its token or restarted the   *)
(* plugin in between.                                                      *)
PaymentIsNew ==
  \A c \in outbox \cup calls :
     c.type = "batch" => c.operation \cap DOMAIN receipts = {}

(* Whatever is stored, the next instance can load. *)
StoreIsLoadable == Decodable(store.value)

(* The bounded window drops the oldest payments first. *)
WindowKeepsNewest ==
  \A kept, dropped \in DOMAIN receipts :
     /\ kept \in Range(store.value.tokens)
     /\ dropped \notin Range(store.value.tokens)
     => receipts[kept] > receipts[dropped]

(* README: a refused or uncertain outcome reloads the ledger.  Delivering  *)
(* such an answer leaves the plugin unloaded, with a reload on its way.    *)
Unconfirmed(a) == a.type \in {"cas", "batch"} /\ a.outcome \in {"refused", "failed"}
RefusedReloads ==
  [][\A a \in answers \ answers' :
        Unconfirmed(a) /\ (calls' = calls) =>
           ~ loaded' /\ \E c \in outbox' : c.type = "get"]_vars

(* The stored ledger implements Money: the balance of every player,        *)
(* opened or not, and the payments with a receipt.                         *)
M == INSTANCE Money WITH
       balance <- [p \in Players |-> BalanceIn(store.value.accounts, p)],
       spent <- DOMAIN receipts

MoneySpec == M!Spec

(* Every update and every probe is settled, and the plugin does not stay   *)
(* busy.                                                                   *)
BusyEnds == (pending # {} \/ pending_pay_status # {})
              ~> (pending = {} /\ pending_pay_status = {})
-----------------------------------------------------------------------------
(***************************************************************************)
(* Why the safety properties hold when only batches that carry a host      *)
(* request are refused: the plugin and the host hold one exchange at a     *)
(* time, and its kind is told by loaded, pending and pending_pay_status.   *)
(***************************************************************************)
RepliesAccepted == "reply_rejection" \notin Faults

AtMostOne(S) == \A x, y \in S : x = y

(* One request or answer, in one place. *)
OneExchange ==
  /\ AtMostOne(Requests(outbox)) /\ AtMostOne(calls) /\ AtMostOne(answers)
  /\ Requests(outbox) = {} \/ calls = {}
  /\ Requests(outbox) = {} \/ answers = {}
  /\ calls = {} \/ answers = {}

Outstanding == Requests(outbox) \cup calls

(* What the plugin is doing, and the traffic that goes with it. *)
Loading ==
  /\ ~ loaded
  /\ pending = {} /\ pending_pay_status = {}
  /\ \A c \in Outstanding : c.type = "get"
  /\ \A a \in answers : /\ a.type = "get"
                        /\ a.version = store.version
                        /\ a.value = store.value

MemoryRecord ==
  [version |-> storage_version,
   value |-> [accounts |-> accounts, tokens |-> token_order]]

Idle ==
  /\ loaded
  /\ pending = {} /\ pending_pay_status = {}
  /\ Outstanding = {} /\ answers = {}
  /\ store = MemoryRecord

(* The recipient is another player, and the payment not in the window. *)
Payable(status) == /\ status.target # status.operation[1]
                   /\ status.operation \notin Tokens

Probing ==
  \E status \in pending_pay_status :
     /\ loaded
     /\ pending = {} /\ pending_pay_status = {status}
     /\ Payable(status)
     /\ store = MemoryRecord
     /\ Outstanding \cup answers # {}
     /\ \A c \in Outstanding : c = Probe(status)
     /\ \A a \in answers :
          /\ a.type = "status"
          /\ a.request = status.request
          /\ a.operation = status.operation
          /\ a.outcome = "not_found" => status.operation \notin DOMAIN receipts

(* What an update may change in the balances of memory. *)
SetsBalance(update) ==
  /\ update.operation = {}
  /\ \E p \in Players, n \in 0 .. MaxBalance :
        update.accounts = Insert(accounts, p, n)

MovesCoins(update) ==
  \E sender, target \in Players, token \in TransferTokens, n \in 1 .. MaxBalance :
     /\ update.operation = {<<sender, token>>}
     /\ target # sender
     /\ n <= Balance(sender)
     /\ Balance(target) + n <= MaxBalance
     /\ update.accounts = Insert(Insert(accounts, sender, Balance(sender) - n),
                                 target, Balance(target) + n)

Writing ==
  \E update \in pending :
     /\ loaded
     /\ pending = {update} /\ pending_pay_status = {}
     /\ update.request = storage_version
     /\ SetsBalance(update) \/ MovesCoins(update)
     /\ Outstanding \cup answers # {}
     /\ \A c \in Outstanding : c = WriteOf(update)
     /\ answers = {} => /\ store = MemoryRecord
                        /\ update.operation \cap DOMAIN receipts = {}
     /\ \A a \in answers :
          /\ Awaits(update, a)
          /\ store \in {MemoryRecord, Written(MemoryRecord, LedgerOf(update))}
          /\ a.outcome \in {"committed", "malformed"} =>
               /\ store = Written(MemoryRecord, LedgerOf(update))
               /\ a.version = store.version

(* The inductive invariant, together with TypeOK. *)
Synchronised == OneExchange /\ (Loading \/ Idle \/ Probing \/ Writing)
=============================================================================
