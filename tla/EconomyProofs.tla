--------------------------- MODULE EconomyProofs ---------------------------
(***************************************************************************)
(* Theorems about Economy for any players, tokens, settings, initial       *)
(* ledgers and faults.                                                     *)
(***************************************************************************)
EXTENDS Economy, TLAPS, FiniteSetTheorems

(* The tables of accounts. *)
Tables == UNION {[S -> 0 .. MaxBalance] : S \in SUBSET Players}

LEMMA TableDef ==
  ASSUME NEW t
  PROVE  t \in Tables <=> /\ DOMAIN t \subseteq Players
                          /\ t \in [DOMAIN t -> 0 .. MaxBalance]
BY DEF Tables

LEMMA EmptyTable == <<>> \in Tables
<1>1. <<>> \in [{} -> 0 .. MaxBalance]
  OBVIOUS
<1> QED
  BY <1>1 DEF Tables

LEMMA LedgerDef ==
  ASSUME NEW t, NEW o
  PROVE  [accounts |-> t, tokens |-> o] \in Ledgers
            <=> t \in Tables /\ o \in Seq(Operations)
BY DEF Ledgers, Tables

LEMMA BalanceInRange ==
  ASSUME NEW t \in Tables, NEW p
  PROVE  BalanceIn(t, p) \in 0 .. MaxBalance
BY TableDef, SettingsAssumption DEF BalanceIn

LEMMA InsertTable ==
  ASSUME NEW t \in Tables, NEW p \in Players, NEW n \in 0 .. MaxBalance
  PROVE  Insert(t, p, n) \in Tables
BY TableDef DEF Insert

LEMMA RememberSeq ==
  ASSUME NEW o \in Seq(Operations), NEW op \in Operations
  PROVE  Remember(o, op) \in Seq(Operations)
BY SettingsAssumption DEF Remember

LEMMA ReloadIsCall == ASSUME NEW n \in Nat PROVE Reload(n) \in Calls
BY DEF Reload, Calls

LEMMA ProbeIsCall == ASSUME NEW s \in Statuses PROVE Probe(s) \in Calls
BY DEF Probe, Statuses, Calls

LEMMA WriteIsCall == ASSUME NEW u \in Updates PROVE WriteOf(u) \in Calls
<1>1. LedgerOf(u) \in Ledgers
  BY DEF LedgerOf, Updates, Ledgers
<1>2. /\ WriteOf(u).type \in {"cas", "batch"}
      /\ u.request \in Nat /\ u.operation \in SUBSET Operations
  BY DEF WriteOf, Updates
<1> QED
  BY <1>1, <1>2 DEF WriteOf, Calls

LEMMA RequestsAreCalls ==
  ASSUME NEW batch \in SUBSET (Calls \cup {Message})
  PROVE  Requests(batch) \in SUBSET Calls
BY DEF Requests, Message

LEMMA SaveType ==
  ASSUME TypeOK, NEW table \in Tables, NEW order \in Seq(Operations),
         NEW operation \in SUBSET Operations, Save(table, order, operation)
  PROVE  /\ pending' \in SUBSET Updates
         /\ outbox' \in SUBSET (Calls \cup {Message})
<1> DEFINE update == [request |-> storage_version, operation |-> operation,
                      accounts |-> table, tokens |-> order]
<1>1. update \in Updates
  BY DEF TypeOK, Updates, Tables
<1>2. WriteOf(update) \in Calls
  BY <1>1, WriteIsCall
<1> QED
  BY <1>1, <1>2 DEF Save, TypeOK

LEMMA ForgetType ==
  ASSUME TypeOK, Forget
  PROVE  /\ [accounts |-> accounts', tokens |-> token_order'] \in Ledgers
         /\ storage_version' \in Nat
         /\ loaded' \in BOOLEAN
         /\ sequence' \in Nat
         /\ outbox' \in SUBSET (Calls \cup {Message})
<1>1. Reload(sequence + 1) \in Calls
  BY ReloadIsCall DEF TypeOK
<1>2. accounts' = accounts /\ token_order' = token_order
  BY DEF Forget
<1>3. [accounts |-> accounts', tokens |-> token_order'] \in Ledgers
  BY <1>2 DEF TypeOK
<1>4. storage_version' = storage_version /\ storage_version \in Nat
  BY DEF Forget, TypeOK
<1>5. outbox' \in SUBSET (Calls \cup {Message})
  BY <1>1 DEF Forget, TypeOK
<1>6. loaded' = FALSE /\ sequence' \in Nat
  BY DEF Forget, TypeOK
<1> QED
  BY <1>3, <1>4, <1>5, <1>6

LEMMA IssuePayType ==
  ASSUME TypeOK, NEW status \in Statuses, IssuePay(status)
  PROVE  /\ pending' \in SUBSET Updates
         /\ outbox' \in SUBSET (Calls \cup {Message})
<1> DEFINE sender  == status.operation[1]
           left    == Balance(sender) - status.amount
           debited == Insert(accounts, sender, left)
           total   == Balance(status.target) + status.amount
           credited == Insert(debited, status.target, total)
           order == Remember(token_order, status.operation)
<1>1. /\ status.operation \in Operations
      /\ sender \in Players
      /\ status.target \in Players
      /\ status.amount \in 1 .. MaxBalance
  BY DEF Statuses, Operations
<1>2. accounts \in Tables /\ token_order \in Seq(Operations)
  BY LedgerDef DEF TypeOK
<1>3. Balance(sender) \in 0 .. MaxBalance /\ Balance(status.target) \in 0 .. MaxBalance
  BY <1>2, BalanceInRange DEF Balance
<1>4. order \in Seq(Operations)
  BY <1>1, <1>2, RememberSeq
<1>5. CASE left >= 0 /\ total <= MaxBalance /\ Save(credited, order, {status.operation})
  <2>1. left \in 0 .. MaxBalance /\ total \in 0 .. MaxBalance
    BY <1>1, <1>3, <1>5, SettingsAssumption
  <2>2. debited \in Tables
    BY <2>1, <1>1, <1>2, InsertTable
  <2>3. credited \in Tables
    BY <2>1, <2>2, <1>1, InsertTable
  <2>4. {status.operation} \in SUBSET Operations
    BY <1>1
  <2> HIDE DEF credited, order
  <2> QED
    BY <2>3, <2>4, <1>4, <1>5, SaveType
<1>6. CASE outbox' = outbox \cup {Message} /\ UNCHANGED pending
  BY <1>6 DEF TypeOK
<1> QED
  BY <1>5, <1>6 DEF IssuePay

(* Delivering an answer changes the plugin, not the durable state. *)
LEMMA DeliverType == TypeOK /\ Deliver => TypeOK'
<1> SUFFICES ASSUME TypeOK, Deliver PROVE TypeOK'
  OBVIOUS
<1> PICK answer \in answers :
      /\ answers' = answers \ {answer}
      /\ \/ LedgerRead(answer)
         \/ \E status \in pending_pay_status : StatusAnswered(answer, status)
         \/ \E update \in pending : WriteAnswered(answer, update)
         \/ Ignored(answer)
      /\ UNCHANGED <<durable, calls>>
  BY DEF Deliver
<1>1. /\ answer \in Answers
      /\ answers' \in SUBSET Answers
      /\ store' \in Records
      /\ DOMAIN receipts' \subseteq Operations
      /\ receipts' \in [DOMAIN receipts' -> Nat]
      /\ calls' \in SUBSET Calls
  BY DEF TypeOK, durable
<1>2. CASE LedgerRead(answer)
  <2>1. CASE answer.outcome = "read" /\ Decodable(answer.value)
    <3>1. answer.value \in Ledgers /\ answer.version \in Nat
      BY <1>1, <1>2 DEF LedgerRead, Answers
    <3>2. [accounts |-> accounts', tokens |-> token_order'] \in Ledgers
      BY <1>2, <2>1, <3>1 DEF LedgerRead, Ledgers
    <3> QED
      BY <1>1, <1>2, <2>1, <3>1, <3>2 DEF LedgerRead, TypeOK, requesting
  <2>2. CASE ~ (answer.outcome = "read" /\ Decodable(answer.value))
    BY <1>1, <1>2, <2>2 DEF LedgerRead, TypeOK, requesting
  <2> QED
    BY <2>1, <2>2
<1>3. ASSUME NEW status \in pending_pay_status, StatusAnswered(answer, status)
      PROVE  TypeOK'
  <2>1. status \in Statuses /\ pending_pay_status' \in SUBSET Statuses
    BY <1>3 DEF TypeOK, StatusAnswered
  <2>2. CASE answer.outcome = "not_found" /\ IssuePay(status)
    BY <1>1, <2>1, <2>2, IssuePayType DEF IssuePay, TypeOK, memory
  <2>3. CASE Forget /\ UNCHANGED pending
    BY <1>1, <2>1, <2>3, ForgetType DEF TypeOK
  <2>4. CASE outbox' = outbox \cup {Message} /\ UNCHANGED <<memory, pending, sequence>>
    BY <1>1, <2>1, <2>4 DEF TypeOK, memory
  <2> QED
    BY <1>3, <2>2, <2>3, <2>4 DEF StatusAnswered
<1>4. ASSUME NEW update \in pending, WriteAnswered(answer, update)
      PROVE  TypeOK'
  <2>1. /\ update \in Updates
        /\ pending' \in SUBSET Updates
        /\ pending_pay_status' \in SUBSET Statuses
    BY <1>4 DEF TypeOK, WriteAnswered
  <2>2. CASE ApplyUpdate(update, answer.version)
    <3>1. [accounts |-> accounts', tokens |-> token_order'] \in Ledgers
      BY <2>1, <2>2 DEF ApplyUpdate, Updates, Ledgers
    <3>2. answer.version \in Nat
      BY <1>1, <1>4 DEF WriteAnswered, Answers
    <3> QED
      BY <1>1, <2>1, <2>2, <3>1, <3>2 DEF ApplyUpdate, TypeOK
  <2>3. CASE /\ loaded' = FALSE
             /\ outbox' = outbox \cup {Message}
             /\ UNCHANGED <<accounts, token_order, storage_version, sequence>>
    BY <1>1, <2>1, <2>3 DEF TypeOK
  <2>4. CASE Forget
    BY <1>1, <2>1, <2>4, ForgetType DEF TypeOK
  <2> QED
    BY <1>4, <2>2, <2>3, <2>4 DEF WriteAnswered
<1>5. CASE Ignored(answer)
  BY <1>1, <1>5 DEF Ignored, TypeOK, plugin, memory, requesting
<1> QED
  BY <1>2, <1>3, <1>4, <1>5

(* What a compare-and-set may leave. *)
LEMMA CasExecutionsType ==
  ASSUME NEW record \in Records, NEW expected \in Nat, NEW value \in Ledgers,
         NEW x \in CasExecutions(record, expected, value)
  PROVE  /\ x.record \in Records
         /\ x.outcome \in {"committed", "refused", "failed"}
         /\ \/ x.record = record
            \/ record.version = expected /\ x.record = Written(record, value)
         /\ x.outcome = "committed" => x.record = Written(record, value)
         /\ x.outcome = "committed" => record.version = expected
<1>1. Written(record, value) \in Records
  BY DEF Written, Records
<1> QED
  BY <1>1 DEF CasExecutions, CasOutcomes

LEMMA ExecuteType == TypeOK /\ Execute => TypeOK'
<1> SUFFICES ASSUME TypeOK, NEW call \in calls,
                    \/ ExecuteGet(call) \/ ExecuteStatus(call)
                    \/ ExecuteCas(call) \/ ExecuteBatch(call)
                    \/ ReplayBatch(call)
             PROVE  TypeOK'
  BY DEF Execute
<1>1. call \in Calls
  BY DEF TypeOK
<1>2. ASSUME NEW fields \in Answers, Answer(call, fields),
             store' \in Records, DOMAIN receipts' \subseteq Operations,
             receipts' \in [DOMAIN receipts' -> Nat]
      PROVE  TypeOK'
  BY <1>2 DEF Answer, TypeOK, plugin, memory, requesting
<1>3. ASSUME UNCHANGED durable
      PROVE  /\ store' \in Records /\ DOMAIN receipts' \subseteq Operations
             /\ receipts' \in [DOMAIN receipts' -> Nat]
  BY <1>3 DEF TypeOK, durable
<1>4. CASE ExecuteGet(call)
  <2> PICK outcome \in ReadOutcomes :
        Answer(call, [type |-> "get", request |-> call.request,
                      outcome |-> outcome, version |-> store.version,
                      value |-> store.value])
    BY <1>4 DEF ExecuteGet
  <2>1. call.request \in Nat
    BY <1>1 DEF Calls
  <2>2. outcome \in {"read", "failed"}
    BY DEF ReadOutcomes
  <2>3. store.version \in Nat /\ store.value \in Ledgers
    BY DEF TypeOK, Records
  <2>4. [type |-> "get", request |-> call.request, outcome |-> outcome,
         version |-> store.version, value |-> store.value] \in Answers
    BY <2>1, <2>2, <2>3 DEF Answers
  <2> QED
    BY <2>4, <1>2, <1>3, <1>4 DEF ExecuteGet
<1>5. CASE ExecuteStatus(call)
  <2> PICK outcome \in {"committed", "not_found", "failed"} :
        Answer(call, [type |-> "status", request |-> call.request,
                      operation |-> call.operation, outcome |-> outcome])
    BY <1>5 DEF ExecuteStatus
  <2>1. call.request \in Nat /\ call.operation \in Operations
    BY <1>1, <1>5 DEF Calls, ExecuteStatus
  <2>2. [type |-> "status", request |-> call.request,
         operation |-> call.operation, outcome |-> outcome] \in Answers
    BY <2>1 DEF Answers
  <2> QED
    BY <2>2, <1>2, <1>3, <1>5 DEF ExecuteStatus
<1>6. ASSUME call.type \in {"cas", "batch"}
      PROVE  /\ call.request \in Nat /\ call.expected \in Nat
             /\ call.operation \in SUBSET Operations /\ call.value \in Ledgers
  BY <1>1, <1>6 DEF Calls
<1>7. ASSUME call.type \in {"cas", "batch"}, NEW revision \in Nat,
             NEW outcome \in {"committed", "refused", "failed", "malformed"},
             AnswerWrite(call, outcome, revision),
             store' \in Records, DOMAIN receipts' \subseteq Operations,
             receipts' \in [DOMAIN receipts' -> Nat]
      PROVE  TypeOK'
  <2>1. [type |-> call.type, request |-> call.request,
         operation |-> call.operation, outcome |-> outcome,
         version |-> revision] \in Answers
    BY <1>6, <1>7 DEF Answers
  <2> QED
    BY <2>1, <1>2, <1>7 DEF AnswerWrite
<1>8. CASE ExecuteCas(call)
  <2> PICK x \in CasExecutions(store, call.expected, call.value) :
        /\ store' = x.record
        /\ AnswerWrite(call, x.outcome, x.record.version)
    BY <1>8 DEF ExecuteCas
  <2>1. call.type \in {"cas", "batch"} /\ UNCHANGED receipts
    BY <1>8 DEF ExecuteCas
  <2>2. x.record \in Records /\ x.outcome \in {"committed", "refused", "failed"}
    BY <2>1, <1>6, CasExecutionsType DEF TypeOK
  <2>3. x.record.version \in Nat
    BY <2>2 DEF Records
  <2> QED
    BY <2>1, <2>2, <2>3, <1>7 DEF TypeOK
<1>9. CASE ExecuteBatch(call)
  <2> PICK x \in CasExecutions(store, call.expected, call.value) :
        /\ store' = x.record
        /\ receipts' = IF x.record = store THEN receipts
                       ELSE [op \in DOMAIN receipts \cup call.operation |->
                               IF op \in call.operation THEN x.record.version
                               ELSE receipts[op]]
        /\ \/ AnswerWrite(call, x.outcome, x.record.version)
           \/ AnswerWrite(call, "malformed", x.record.version)
    BY <1>9 DEF ExecuteBatch
  <2>1. call.type \in {"cas", "batch"}
    BY <1>9 DEF ExecuteBatch
  <2>2. x.record \in Records /\ x.outcome \in {"committed", "refused", "failed"}
    BY <2>1, <1>6, CasExecutionsType DEF TypeOK
  <2>3. x.record.version \in Nat
    BY <2>2 DEF Records
  <2>4. DOMAIN receipts' \subseteq Operations /\ receipts' \in [DOMAIN receipts' -> Nat]
    BY <2>1, <2>3, <1>6 DEF TypeOK
  <2> QED
    BY <2>1, <2>2, <2>3, <2>4, <1>7
<1>10. CASE ReplayBatch(call)
  <2> PICK op \in call.operation \cap DOMAIN receipts :
        \E outcome \in {"committed", "refused"} :
           AnswerWrite(call, outcome, receipts[op])
    BY <1>10 DEF ReplayBatch
  <2>1. call.type \in {"cas", "batch"} /\ UNCHANGED durable
    BY <1>10 DEF ReplayBatch
  <2>2. receipts[op] \in Nat
    BY DEF TypeOK
  <2> QED
    BY <2>1, <2>2, <1>3, <1>7
<1> QED
  BY <1>4, <1>5, <1>8, <1>9, <1>10

(***************************************************************************)
(* Every variable keeps its type: in particular no balance leaves          *)
(* 0 .. MaxBalance (the u64 subtraction of issue_pay never wraps).         *)
(***************************************************************************)
THEOREM TypeCorrect == Spec => []TypeOK
<1>1. Init => TypeOK
  <2> SUFFICES ASSUME Init PROVE TypeOK
    OBVIOUS
  <2>1. <<>> \in Tables /\ <<>> \in Seq(Operations)
    BY EmptyTable
  <2>2. [accounts |-> accounts, tokens |-> token_order] \in Ledgers
    BY <2>1, LedgerDef DEF Init
  <2>3. store \in Records
    BY StoresAssumption DEF Init
  <2>4. outbox \in SUBSET (Calls \cup {Message})
    BY ReloadIsCall DEF Init
  <2>5. DOMAIN receipts \subseteq Operations /\ receipts \in [DOMAIN receipts -> Nat]
    BY DEF Init
  <2> QED
    BY <2>2, <2>3, <2>4, <2>5 DEF Init, TypeOK
<1>2. TypeOK /\ [Next]_vars => TypeOK'
  <2> SUFFICES ASSUME TypeOK, [Next]_vars PROVE TypeOK'
    OBVIOUS
  <2>1. CASE Command
    <3>1. CASE Money
      BY <3>1 DEF Money, TypeOK, plugin, memory, requesting, durable
    <3>2. ASSUME NEW actor \in Players, NEW target \in Players,
                 NEW amount \in Amounts, NEW token \in TransferTokens,
                 Pay(actor, target, amount, token)
          PROVE  TypeOK'
      <4> DEFINE status == [request |-> sequence + 1,
                            operation |-> <<actor, token>>,
                            target |-> target, amount |-> amount]
      <4>1. status \in Statuses
        BY <3>2 DEF Pay, TypeOK, Statuses, Operations
      <4>2. Probe(status) \in Calls
        BY <4>1, ProbeIsCall
      <4>3. /\ sequence' \in Nat
            /\ pending_pay_status' \in SUBSET Statuses
            /\ outbox' \in SUBSET (Calls \cup {Message})
        BY <3>2, <4>1, <4>2 DEF Pay, TypeOK
      <4> QED
        BY <3>2, <4>3 DEF Pay, TypeOK, memory, durable
    <3>3. ASSUME NEW target \in Players, NEW next_amount,
                 Admin(target, next_amount)
          PROVE  TypeOK'
      <4>1. accounts \in Tables /\ token_order \in Seq(Operations)
        BY LedgerDef DEF TypeOK
      <4>2. Insert(accounts, target, next_amount) \in Tables
        BY <3>3, <4>1, InsertTable DEF Admin
      <4>3. /\ pending' \in SUBSET Updates
            /\ outbox' \in SUBSET (Calls \cup {Message})
        BY <3>3, <4>1, <4>2, SaveType DEF Admin
      <4> QED
        BY <3>3, <4>3 DEF Admin, TypeOK, memory, durable
    <3> QED
      BY <2>1, <3>1, <3>2, <3>3 DEF Command
  <2>2. CASE Deliver
    BY <2>2, DeliverType
  <2>3. CASE AcceptBatch
    BY <2>3, RequestsAreCalls DEF AcceptBatch, TypeOK, plugin, memory, requesting, durable
  <2>4. CASE RejectBatch
    BY <2>4 DEF RejectBatch, TypeOK, memory, durable
  <2>5. CASE Execute
    BY <2>5, ExecuteType
  <2>6. CASE Restart
    <3>1. <<>> \in Tables /\ <<>> \in Seq(Operations)
      BY EmptyTable
    <3>2. [accounts |-> accounts', tokens |-> token_order'] \in Ledgers
      BY <2>6, <3>1, LedgerDef DEF Restart
    <3>3. outbox' \in SUBSET (Calls \cup {Message})
      BY <2>6, ReloadIsCall DEF Restart
    <3> QED
      BY <2>6, <3>2, <3>3 DEF Restart, TypeOK, durable
  <2>7. CASE UNCHANGED vars
    BY <2>7 DEF TypeOK, vars, plugin, memory, requesting, durable
  <2> QED
    BY <2>1, <2>2, <2>3, <2>4, <2>5, <2>6, <2>7 DEF Next
<1> QED
  BY <1>1, <1>2, PTL DEF Spec
-----------------------------------------------------------------------------
(* The exchange between plugin and host *)

LEMMA RequestsWithMessage ==
  ASSUME NEW S PROVE Requests(S \cup {Message}) = Requests(S)
BY DEF Requests, Message

LEMMA RequestsWithCall ==
  ASSUME NEW S, NEW c, c.type # "message"
  PROVE  Requests(S \cup {c}) = Requests(S) \cup {c}
BY DEF Requests

LEMMA RequestsOfNone == Requests({}) = {}
BY DEF Requests

LEMMA CallTypes ==
  /\ \A n : Reload(n).type = "get"
  /\ \A s : Probe(s).type = "status"
  /\ \A u : WriteOf(u).type \in {"cas", "batch"}
BY DEF Reload, Probe, WriteOf

(* The phase depends on the requests under way, not on where they are. *)
LEMMA SamePhase ==
  ASSUME Loading \/ Idle \/ Probing \/ Writing,
         UNCHANGED <<plugin, durable, answers>>,
         Outstanding' = Outstanding
  PROVE  (Loading \/ Idle \/ Probing \/ Writing)'
<1> USE DEF plugin, memory, requesting, durable, MemoryRecord, Balance, Tokens
<1>1. CASE Loading
  BY <1>1 DEF Loading
<1>2. CASE Idle
  BY <1>2 DEF Idle
<1>3. CASE Probing
  <2> PICK status \in pending_pay_status : Probing!(status)
    BY <1>3 DEF Probing
  <2> QED
    BY DEF Probing, Payable
<1>4. CASE Writing
  <2> PICK update \in pending : Writing!(update)
    BY <1>4 DEF Writing
  <2>1. /\ SetsBalance(update) => SetsBalance(update)'
        /\ MovesCoins(update) => MovesCoins(update)'
    BY DEF SetsBalance, MovesCoins
  <2> QED
    BY <2>1 DEF Writing
<1> QED
  BY <1>1, <1>2, <1>3, <1>4

(* A message more or less in the batch changes nothing. *)
LEMMA MessageOnly ==
  ASSUME Synchronised, UNCHANGED <<plugin, durable, calls, answers>>,
         outbox' = outbox \cup {Message}
  PROVE  Synchronised'
<1>1. Requests(outbox') = Requests(outbox)
  BY RequestsWithMessage
<1>2. Outstanding' = Outstanding
  BY <1>1 DEF Outstanding
<1>3. OneExchange'
  BY <1>1 DEF Synchronised, OneExchange, AtMostOne
<1>4. (Loading \/ Idle \/ Probing \/ Writing)'
  BY <1>2, SamePhase DEF Synchronised
<1> QED
  BY <1>3, <1>4 DEF Synchronised

(* A phase in which a command may start an exchange has none under way. *)
LEMMA Free ==
  ASSUME Synchronised, loaded, pending = {}, pending_pay_status = {}
  PROVE  Idle
BY DEF Synchronised, Loading, Probing, Writing

(* The new request is the only one. *)
LEMMA FirstRequest ==
  ASSUME NEW c, c.type # "message", Outstanding = {}, answers' = {},
         \/ outbox' = outbox \cup {c}
         \/ outbox' = outbox \cup {Message, c},
         UNCHANGED calls
  PROVE  OneExchange' /\ Outstanding' = {c}
<1>1. Requests(outbox) = {} /\ calls = {}
  BY DEF Outstanding
<1>2. Requests(outbox') = {c}
  BY <1>1 DEF Requests, Message
<1> QED
  BY <1>1, <1>2 DEF OneExchange, Outstanding, AtMostOne

(* No request at all. *)
LEMMA NoRequest ==
  ASSUME Outstanding = {}, answers' = {}, UNCHANGED calls,
         \/ outbox' = outbox \cup {Message}
         \/ UNCHANGED outbox
  PROVE  OneExchange' /\ Outstanding' = {}
<1>1. Requests(outbox) = {} /\ calls = {}
  BY DEF Outstanding
<1>2. Requests(outbox') = {}
  BY <1>1 DEF Requests, Message
<1> QED
  BY <1>1, <1>2 DEF OneExchange, Outstanding, AtMostOne

(* Executing the only call leaves its answer and nothing else. *)
LEMMA Answered ==
  ASSUME OneExchange, NEW call \in calls, NEW fields, Answer(call, fields)
  PROVE  /\ OneExchange'
         /\ answers = {} /\ Outstanding' = {} /\ answers' = {fields}
         /\ UNCHANGED plugin
<1>1. /\ Requests(outbox) = {} /\ answers = {} /\ calls = {call}
      /\ outbox' = outbox
  BY DEF OneExchange, AtMostOne, Answer
<1>2. calls' = {} /\ answers' = {fields}
  BY <1>1 DEF Answer
<1> QED
  BY <1>1, <1>2 DEF OneExchange, AtMostOne, Outstanding, Answer
(* save starts an exchange when nothing is under way, and otherwise sends   *)
(* a message.                                                               *)
LEMMA SaveStartsWriting ==
  ASSUME loaded, pending_pay_status' = {}, Outstanding = {}, answers' = {},
         store = MemoryRecord, pending = {},
         UNCHANGED <<memory, durable, calls>>,
         NEW table, NEW order, NEW operation, Save(table, order, operation),
         operation \cap DOMAIN receipts = {},
         \A u : u.operation = operation /\ u.accounts = table =>
                 SetsBalance(u) \/ MovesCoins(u)
  PROVE  Synchronised'
<1> PICK update : update = [request |-> storage_version, operation |-> operation,
                            accounts |-> table, tokens |-> order]
  OBVIOUS
<1>1. pending' = {update} /\ outbox' = outbox \cup {WriteOf(update)}
  BY DEF Save
<1>2. OneExchange' /\ Outstanding' = {WriteOf(update)}
  BY <1>1, CallTypes, FirstRequest
<1>3. SetsBalance(update) \/ MovesCoins(update)
  OBVIOUS
<1>4. /\ SetsBalance(update) => SetsBalance(update)'
      /\ MovesCoins(update) => MovesCoins(update)'
  BY DEF SetsBalance, MovesCoins, memory, Balance
<1>5. store' = MemoryRecord'
  BY DEF memory, durable, MemoryRecord
<1>6. update.request = storage_version' /\ loaded'
  BY DEF memory
<1>7. update.operation \cap DOMAIN receipts' = {}
  BY DEF durable
<1>8. Writing'
  BY <1>1, <1>2, <1>3, <1>4, <1>5, <1>6, <1>7 DEF Writing
<1> QED
  BY <1>2, <1>8 DEF Synchronised

LEMMA CommandSynchronised ==
  ASSUME TypeOK, Synchronised, Command
  PROVE  Synchronised'
<1>1. CASE Money
  BY <1>1, MessageOnly DEF Money
<1>2. ASSUME NEW actor \in Players, NEW target \in Players,
             NEW amount \in Amounts, NEW token \in TransferTokens,
             Pay(actor, target, amount, token)
      PROVE  Synchronised'
  <2> PICK status : status = [request |-> sequence + 1,
                              operation |-> <<actor, token>>,
                              target |-> target, amount |-> amount]
    OBVIOUS
  <2>1. Idle
    BY <1>2, Free DEF Pay
  <2>2. /\ pending_pay_status' = {status} /\ outbox' = outbox \cup {Probe(status)}
        /\ UNCHANGED <<memory, pending, durable, calls, answers>>
    BY <1>2 DEF Pay
  <2>3. OneExchange' /\ Outstanding' = {Probe(status)}
    BY <2>1, <2>2, CallTypes, FirstRequest DEF Idle
  <2>4. Payable(status)'
    BY <1>2, <2>2 DEF Pay, Payable, Tokens, memory
  <2>5. Probing'
    BY <2>1, <2>2, <2>3, <2>4 DEF Probing, Idle, MemoryRecord, memory, durable
  <2> QED
    BY <2>3, <2>5 DEF Synchronised
<1>3. ASSUME NEW target \in Players, NEW next_amount, Admin(target, next_amount)
      PROVE  Synchronised'
  <2>1. CASE pending = {} /\ pending_pay_status = {}
    <3>1. Idle
      BY <1>3, <2>1, Free DEF Admin
    <3>2. \A u : u.operation = {} /\ u.accounts = Insert(accounts, target, next_amount)
                   => SetsBalance(u)
      BY <1>3 DEF Admin, SetsBalance
    <3>3. /\ Save(Insert(accounts, target, next_amount), token_order, {})
          /\ UNCHANGED <<memory, durable, calls>>
          /\ pending_pay_status' = {} /\ answers' = {} /\ pending = {}
      BY <1>3, <2>1, <3>1 DEF Admin, Idle
    <3>4. loaded /\ Outstanding = {} /\ store = MemoryRecord
      BY <3>1 DEF Idle
    <3>5. {} \cap DOMAIN receipts = {}
      OBVIOUS
    <3> QED
      BY <3>2, <3>3, <3>4, <3>5, SaveStartsWriting
  <2>2. CASE ~ (pending = {} /\ pending_pay_status = {})
    BY <1>3, <2>2, MessageOnly DEF Admin, Save, plugin, requesting
  <2> QED
    BY <2>1, <2>2
<1> QED
  BY <1>1, <1>2, <1>3 DEF Command

LEMMA AcceptSynchronised ==
  ASSUME Synchronised, AcceptBatch PROVE Synchronised'
<1>1. Requests(outbox') = {} /\ calls' = calls \cup Requests(outbox)
  BY RequestsOfNone DEF AcceptBatch
<1>2. Outstanding' = Outstanding
  BY <1>1 DEF Outstanding
<1>3. OneExchange'
  BY <1>1 DEF AcceptBatch, Synchronised, OneExchange, AtMostOne
<1>4. (Loading \/ Idle \/ Probing \/ Writing)'
  BY <1>2, SamePhase DEF AcceptBatch, Synchronised
<1> QED
  BY <1>3, <1>4 DEF Synchronised

(* The refused batch held the only request, so clearing what waited for it  *)
(* is right.                                                                *)
LEMMA RejectSynchronised ==
  ASSUME RepliesAccepted, Synchronised, RejectBatch PROVE Synchronised'
<1>1. Requests(outbox) # {}
  BY DEF RejectBatch, Rejectable, RepliesAccepted
<1>2. calls = {} /\ answers = {} /\ Outstanding # {}
  BY <1>1 DEF Synchronised, OneExchange, Outstanding
<1>3. /\ Requests(outbox') = {} /\ calls' = {} /\ answers' = {}
      /\ pending' = {} /\ pending_pay_status' = {}
      /\ UNCHANGED <<memory, durable>>
  BY <1>2, RequestsOfNone DEF RejectBatch
<1>4. OneExchange' /\ Outstanding' = {}
  BY <1>3 DEF OneExchange, Outstanding, AtMostOne
<1>5. CASE loaded
  <2>1. store = MemoryRecord
    BY <1>2, <1>5 DEF Synchronised, Loading, Idle, Probing, Writing
  <2>2. Idle'
    BY <1>3, <1>4, <1>5, <2>1 DEF Idle, MemoryRecord, memory, durable
  <2> QED
    BY <1>4, <2>2 DEF Synchronised
<1>6. CASE ~ loaded
  <2>1. Loading'
    BY <1>3, <1>4, <1>6 DEF Loading, memory
  <2> QED
    BY <1>4, <2>1 DEF Synchronised
<1> QED
  BY <1>5, <1>6
(* A reload after which nothing else is under way. *)
LEMMA ForgetLoads ==
  ASSUME Forget, Outstanding = {}, answers' = {}, UNCHANGED calls,
         pending' = {}, pending_pay_status' = {}
  PROVE  Synchronised'
<1>1. outbox' = outbox \cup {Message, Reload(sequence + 1)} /\ ~ loaded'
  BY DEF Forget
<1>2. OneExchange' /\ Outstanding' = {Reload(sequence + 1)}
  BY <1>1, CallTypes, FirstRequest
<1>3. Loading'
  BY <1>1, <1>2, CallTypes DEF Loading
<1> QED
  BY <1>2, <1>3 DEF Synchronised

(* The payment issued when its probe found no receipt. *)
LEMMA IssuePaySynchronised ==
  ASSUME TypeOK, NEW status \in Statuses, IssuePay(status), Payable(status),
         loaded, Outstanding = {}, answers' = {}, pending = {},
         pending_pay_status' = {}, store = MemoryRecord,
         UNCHANGED <<durable, calls>>, status.operation \notin DOMAIN receipts
  PROVE  Synchronised'
<1> DEFINE sender  == status.operation[1]
           left    == Balance(sender) - status.amount
           debited == Insert(accounts, sender, left)
           total   == Balance(status.target) + status.amount
           credited == Insert(debited, status.target, total)
           order == Remember(token_order, status.operation)
<1>1. UNCHANGED <<memory, sequence>>
  BY DEF IssuePay
<1>2. CASE /\ left >= 0 /\ total <= MaxBalance
           /\ Save(credited, order, {status.operation})
  <2>1. PICK token \in TransferTokens : status.operation = <<sender, token>>
    BY DEF Statuses, Operations
  <2>2. /\ sender \in Players /\ status.target \in Players
        /\ status.amount \in 1 .. MaxBalance /\ status.target # sender
    BY DEF Statuses, Operations, Payable
  <2>3. Balance(sender) \in Int
    BY LedgerDef, BalanceInRange DEF TypeOK, Balance
  <2>4. status.amount <= Balance(sender)
    BY <1>2, <2>2, <2>3, SettingsAssumption
  <2>5. \A u : u.operation = {status.operation} /\ u.accounts = credited
                  => MovesCoins(u)
    BY <1>2, <2>1, <2>2, <2>4 DEF MovesCoins
  <2>6. {status.operation} \cap DOMAIN receipts = {}
    OBVIOUS
  <2> HIDE DEF credited, order
  <2> QED
    BY <1>1, <1>2, <2>5, <2>6, SaveStartsWriting
<1>3. CASE outbox' = outbox \cup {Message} /\ UNCHANGED pending
  <2>1. OneExchange' /\ Outstanding' = {}
    BY <1>3, NoRequest
  <2>2. Idle'
    BY <1>1, <1>3, <2>1 DEF Idle, MemoryRecord, memory, durable
  <2> QED
    BY <2>1, <2>2 DEF Synchronised
<1> QED
  BY <1>2, <1>3 DEF IssuePay

(* What the phase says of an answer about to be delivered. *)
LEMMA Delivering ==
  ASSUME Synchronised, NEW answer \in answers
  PROVE  /\ Outstanding = {} /\ answers = {answer}
         /\ Loading \/ Probing \/ Writing
BY DEF Synchronised, OneExchange, AtMostOne, Outstanding, Idle

LEMMA DeliverSynchronised ==
  ASSUME TypeOK, Synchronised, Deliver PROVE Synchronised'
<1> PICK answer \in answers :
      /\ answers' = answers \ {answer}
      /\ \/ LedgerRead(answer)
         \/ \E status \in pending_pay_status : StatusAnswered(answer, status)
         \/ \E update \in pending : WriteAnswered(answer, update)
         \/ Ignored(answer)
      /\ UNCHANGED <<durable, calls>>
  BY DEF Deliver
<1>1. Outstanding = {} /\ answers' = {} /\ (Loading \/ Probing \/ Writing)
  BY Delivering
<1>2. CASE Loading
  <2>1. /\ answer.type = "get"
        /\ answer.version = store.version /\ answer.value = store.value
        /\ pending = {} /\ pending_pay_status = {}
    BY <1>2 DEF Loading
  <2>2. LedgerRead(answer)
    BY <2>1 DEF Ignored
  <2>3. OneExchange' /\ Outstanding' = {}
    BY <1>1, <2>2, NoRequest DEF LedgerRead
  <2>4. pending' = {} /\ pending_pay_status' = {}
    BY <2>1, <2>2 DEF LedgerRead, requesting
  <2>5. CASE loaded'
    <3>1. /\ accounts' = store.value.accounts
          /\ token_order' = store.value.tokens
          /\ storage_version' = store.version
      BY <2>1, <2>2, <2>5 DEF LedgerRead
    <3>2. store' = store /\ store \in Records
      BY DEF durable, TypeOK
    <3>3. store' = MemoryRecord'
      BY <3>1, <3>2 DEF MemoryRecord, Records, Ledgers
    <3>4. Idle'
      BY <1>1, <2>3, <2>4, <2>5, <3>3 DEF Idle
    <3> QED
      BY <2>3, <3>4 DEF Synchronised
  <2>6. CASE ~ loaded'
    <3>1. Loading'
      BY <1>1, <2>3, <2>4, <2>6 DEF Loading
    <3> QED
      BY <2>3, <3>1 DEF Synchronised
  <2> QED
    BY <2>5, <2>6
<1>3. CASE Probing
  <2> PICK status \in pending_pay_status : Probing!(status)
    BY <1>3 DEF Probing
  <2>1. /\ answer.type = "status" /\ answer.request = status.request
        /\ answer.operation = status.operation
        /\ answer.outcome = "not_found" => status.operation \notin DOMAIN receipts
        /\ loaded /\ pending = {} /\ pending_pay_status = {status}
        /\ Payable(status) /\ store = MemoryRecord
    OBVIOUS
  <2>2. StatusAnswered(answer, status)
    BY <2>1 DEF LedgerRead, Ignored, Probe
  <2>3. status \in Statuses /\ pending_pay_status' = {}
    BY <2>2 DEF TypeOK, StatusAnswered
  <2>4. CASE answer.outcome = "not_found" /\ IssuePay(status)
    BY <1>1, <2>1, <2>3, <2>4, IssuePaySynchronised
  <2>5. CASE Forget /\ UNCHANGED pending
    BY <1>1, <2>1, <2>3, <2>5, ForgetLoads
  <2>6. CASE outbox' = outbox \cup {Message} /\ UNCHANGED <<memory, pending, sequence>>
    <3>1. OneExchange' /\ Outstanding' = {}
      BY <1>1, <2>6, NoRequest
    <3>2. Idle'
      BY <1>1, <2>1, <2>3, <2>6, <3>1 DEF Idle, MemoryRecord, memory, durable
    <3> QED
      BY <3>1, <3>2 DEF Synchronised
  <2> QED
    BY <2>2, <2>4, <2>5, <2>6 DEF StatusAnswered
<1>4. CASE Writing
  <2> PICK update \in pending : Writing!(update)
    BY <1>4 DEF Writing
  <2>1. /\ Awaits(update, answer)
        /\ loaded /\ pending = {update} /\ pending_pay_status = {}
        /\ answer.outcome \in {"committed", "malformed"} =>
             /\ store = Written(MemoryRecord, LedgerOf(update))
             /\ answer.version = store.version
    OBVIOUS
  <2>2. answer.type \in {"cas", "batch"}
    BY <2>1, CallTypes DEF Awaits
  <2>3. WriteAnswered(answer, update)
    BY <2>1, <2>2 DEF LedgerRead, Ignored
  <2>4. pending' = {} /\ pending_pay_status' = {}
    BY <2>1, <2>3 DEF WriteAnswered
  <2>5. CASE answer.outcome = "committed" /\ ApplyUpdate(update, answer.version)
    <3>1. OneExchange' /\ Outstanding' = {}
      BY <1>1, <2>5, NoRequest DEF ApplyUpdate
    <3>2. store' = Written(MemoryRecord, LedgerOf(update)) /\ answer.version = store.version
      BY <2>1, <2>5 DEF durable
    <3>3. store' = MemoryRecord'
      <4>1. /\ accounts' = update.accounts /\ token_order' = update.tokens
            /\ storage_version' = store.version
        BY <2>5, <3>2 DEF ApplyUpdate
      <4>2. store.version = storage_version + 1 /\ store' = store
        BY <3>2 DEF Written, MemoryRecord, durable
      <4> QED
        BY <3>2, <4>1, <4>2 DEF MemoryRecord, Written, LedgerOf
    <3>4. Idle'
      BY <1>1, <2>1, <2>4, <2>5, <3>1, <3>3 DEF Idle, ApplyUpdate
    <3> QED
      BY <3>1, <3>4 DEF Synchronised
  <2>6. CASE loaded' = FALSE /\ outbox' = outbox \cup {Message}
    <3>1. OneExchange' /\ Outstanding' = {}
      BY <1>1, <2>6, NoRequest
    <3>2. Loading'
      BY <1>1, <2>4, <2>6, <3>1 DEF Loading
    <3> QED
      BY <3>1, <3>2 DEF Synchronised
  <2>7. CASE Forget
    BY <1>1, <2>4, <2>7, ForgetLoads
  <2> QED
    BY <2>3, <2>5, <2>6, <2>7 DEF WriteAnswered
<1> QED
  BY <1>1, <1>2, <1>3, <1>4

(* The receipts after a write with these operations, at this revision. *)
Receipted(given, operations, revision) ==
  [op \in DOMAIN given \cup operations |->
     IF op \in operations THEN revision ELSE given[op]]

(* Executing a write leaves the ledger as it was or writes the update, and  *)
(* confirms nothing else.                                                   *)
LEMMA WriteExecuted ==
  ASSUME TypeOK, Synchronised, NEW call \in calls,
         ExecuteCas(call) \/ ExecuteBatch(call)
  PROVE  /\ Synchronised'
         /\ \E update \in pending :
              /\ SetsBalance(update) \/ MovesCoins(update)
              /\ update.operation \cap DOMAIN receipts = {}
              /\ store.value.accounts = accounts /\ store.value.tokens = token_order
              /\ \/ UNCHANGED durable
                 \/ /\ store'.value.accounts = update.accounts
                    /\ store'.value.tokens = update.tokens
                    /\ store'.version = store.version + 1
                    /\ receipts' = Receipted(receipts, update.operation, store.version + 1)
<1>1. call.type \in {"cas", "batch"} /\ call \in Outstanding
  BY DEF ExecuteCas, ExecuteBatch, Outstanding
<1>2. Writing
  BY <1>1, CallTypes DEF Synchronised, Loading, Idle, Probing
<1> PICK update \in pending : Writing!(update)
  BY <1>2 DEF Writing
<1>3. call = WriteOf(update) /\ update \in Updates
  BY <1>1 DEF TypeOK
<1>4. answers = {}
  BY DEF Synchronised, OneExchange
<1>5. store = MemoryRecord /\ update.operation \cap DOMAIN receipts = {}
  BY <1>4
<1>6. /\ call.expected = store.version /\ call.value = LedgerOf(update)
      /\ call.request = update.request /\ call.operation = update.operation
      /\ call.value \in Ledgers /\ store \in Records /\ call.expected \in Nat
  <2>1. /\ call.expected = update.request /\ call.value = LedgerOf(update)
        /\ call.request = update.request /\ call.operation = update.operation
    BY <1>3 DEF WriteOf
  <2>2. update.request = storage_version /\ store.version = storage_version
    BY <1>5 DEF MemoryRecord
  <2>3. LedgerOf(update) \in Ledgers
    BY <1>3 DEF LedgerOf, Updates, Ledgers
  <2>4. store \in Records
    BY DEF TypeOK
  <2>5. storage_version \in Nat
    BY DEF TypeOK
  <2> QED
    BY <2>1, <2>2, <2>3, <2>4, <2>5
<1>7. PICK x \in CasExecutions(store, call.expected, call.value) :
        /\ store' = x.record
        /\ \/ AnswerWrite(call, x.outcome, x.record.version)
           \/ /\ x.outcome = "committed"
              /\ AnswerWrite(call, "malformed", x.record.version)
        /\ call.type = "cas" => UNCHANGED receipts
        /\ call.type = "batch" =>
             receipts' = IF x.record = store THEN receipts
                         ELSE [op \in DOMAIN receipts \cup call.operation |->
                                 IF op \in call.operation THEN x.record.version
                                 ELSE receipts[op]]
  <2>1. CASE ExecuteCas(call)
    BY <2>1 DEF ExecuteCas
  <2>2. CASE ExecuteBatch(call)
    BY <2>2 DEF ExecuteBatch
  <2> QED
    BY <2>1, <2>2
<1>7a. PICK outcome \in {x.outcome, "malformed"} :
         /\ AnswerWrite(call, outcome, x.record.version)
         /\ outcome \in {"committed", "malformed"} => x.outcome = "committed"
  BY <1>6, <1>7, CasExecutionsType
<1> DEFINE reply == [type |-> call.type, request |-> call.request,
                     operation |-> call.operation, outcome |-> outcome,
                     version |-> x.record.version]
<1>8. /\ OneExchange' /\ Outstanding' = {} /\ answers' = {reply}
      /\ UNCHANGED plugin
  BY <1>7a, Answered DEF AnswerWrite, Synchronised
<1>9. /\ x.record \in {store, Written(store, call.value)}
      /\ x.outcome = "committed" => x.record = Written(store, call.value)
  BY <1>6, CasExecutionsType
<1>10. /\ MemoryRecord' = MemoryRecord /\ pending' = pending
       /\ pending_pay_status' = pending_pay_status /\ loaded' = loaded
       /\ storage_version' = storage_version
       /\ SetsBalance(update) => SetsBalance(update)'
       /\ MovesCoins(update) => MovesCoins(update)'
  BY <1>8 DEF plugin, memory, requesting, MemoryRecord, SetsBalance, MovesCoins, Balance
<1>11. Awaits(update, reply)
  BY <1>3, <1>6 DEF Awaits
<1>12. Writing'
  <2>1. /\ store' \in {MemoryRecord, Written(MemoryRecord, LedgerOf(update))}
        /\ outcome \in {"committed", "malformed"} =>
             store' = Written(MemoryRecord, LedgerOf(update))
        /\ reply.version = store'.version /\ reply.outcome = outcome
    BY <1>5, <1>6, <1>7, <1>9, <1>7a
  <2>2. PICK r : r = reply
    OBVIOUS
  <2> HIDE DEF reply
  <2>3. Awaits(update, r) /\ answers' = {r}
    BY <1>8, <1>11, <2>2
  <2> QED
    BY <1>8, <1>10, <2>1, <2>2, <2>3 DEF Writing
<1>13. store.value.accounts = accounts /\ store.value.tokens = token_order
  BY <1>5 DEF MemoryRecord
<1>14. \/ UNCHANGED durable
       \/ /\ store'.value.accounts = update.accounts
          /\ store'.value.tokens = update.tokens
          /\ store'.version = store.version + 1
          /\ receipts' = Receipted(receipts, update.operation, store.version + 1)
  <2>1. Written(store, call.value) # store
    BY <1>6 DEF Written, Records
  <2>2. store' = store \/ store' = Written(store, LedgerOf(update))
    BY <1>6, <1>7, <1>9
  <2>3. store' = Written(store, LedgerOf(update)) =>
           /\ store'.value.accounts = update.accounts
           /\ store'.value.tokens = update.tokens
           /\ store'.version = store.version + 1
    BY DEF Written, LedgerOf
  <2>4. CASE call.type = "cas"
    <3>1. update.operation = {}
      BY <1>3, <2>4 DEF WriteOf
    <3>2. Receipted(receipts, update.operation, store.version + 1) = receipts
      BY <3>1 DEF Receipted, TypeOK
    <3> QED
      BY <1>7, <2>2, <2>3, <2>4, <3>2 DEF durable
  <2>5. CASE call.type = "batch"
    <3>1. CASE store' = store
      BY <1>7, <2>5, <3>1 DEF durable
    <3>2. CASE store' = Written(store, LedgerOf(update))
      <4>1. receipts' = [op \in DOMAIN receipts \cup update.operation |->
                           IF op \in update.operation THEN x.record.version
                           ELSE receipts[op]]
        BY <1>6, <1>7, <2>1, <2>5, <3>2
      <4>2. x.record.version = store.version + 1
        BY <1>7, <2>3, <3>2
      <4> QED
        BY <2>3, <3>2, <4>1, <4>2 DEF Receipted
    <3> QED
      BY <2>2, <3>1, <3>2
  <2> QED
    BY <1>1, <2>4, <2>5
<1> QED
  BY <1>5, <1>8, <1>12, <1>13, <1>14 DEF Synchronised

(* A read or a probe is executed while it is the only exchange, and its     *)
(* answer tells the durable state of now.                                   *)
LEMMA ExecuteSynchronised ==
  ASSUME TypeOK, Synchronised, Execute PROVE Synchronised'
<1> PICK call \in calls : \/ ExecuteGet(call) \/ ExecuteStatus(call)
                          \/ ExecuteCas(call) \/ ExecuteBatch(call)
                          \/ ReplayBatch(call)
  BY DEF Execute
<1>1. call \in Outstanding
  BY DEF Outstanding
<1>2. CASE ExecuteGet(call)
  <2> PICK outcome \in ReadOutcomes :
        Answer(call, [type |-> "get", request |-> call.request,
                      outcome |-> outcome, version |-> store.version,
                      value |-> store.value])
    BY <1>2 DEF ExecuteGet
  <2> PICK reply : reply = [type |-> "get", request |-> call.request,
                            outcome |-> outcome, version |-> store.version,
                            value |-> store.value]
    OBVIOUS
  <2>1. /\ OneExchange' /\ Outstanding' = {} /\ answers' = {reply}
        /\ UNCHANGED plugin
    BY Answered DEF Synchronised
  <2>2. Loading
    BY <1>1, <1>2, CallTypes DEF ExecuteGet, Synchronised, Idle, Probing, Writing
  <2>3. store' = store
    BY <1>2 DEF ExecuteGet, durable
  <2>4. Loading'
    BY <2>1, <2>2, <2>3 DEF Loading, plugin, memory, requesting
  <2> QED
    BY <2>1, <2>4 DEF Synchronised
<1>3. CASE ExecuteStatus(call)
  <2> PICK outcome :
        /\ Answer(call, [type |-> "status", request |-> call.request,
                         operation |-> call.operation, outcome |-> outcome])
        /\ outcome = "not_found" => call.operation \notin DOMAIN receipts
    BY <1>3 DEF ExecuteStatus
  <2> PICK reply : reply = [type |-> "status", request |-> call.request,
                            operation |-> call.operation, outcome |-> outcome]
    OBVIOUS
  <2>1. /\ OneExchange' /\ Outstanding' = {} /\ answers' = {reply}
        /\ UNCHANGED plugin
    BY Answered DEF Synchronised
  <2>2. Probing
    BY <1>1, <1>3, CallTypes DEF ExecuteStatus, Synchronised, Loading, Idle, Writing
  <2> PICK status \in pending_pay_status : Probing!(status)
    BY <2>2 DEF Probing
  <2>3. call = Probe(status) /\ UNCHANGED durable
    BY <1>1, <1>3 DEF ExecuteStatus
  <2>4. /\ reply.type = "status" /\ reply.request = status.request
        /\ reply.operation = status.operation
        /\ reply.outcome = "not_found" => status.operation \notin DOMAIN receipts'
    BY <2>3 DEF Probe, durable
  <2>5. /\ Payable(status)' /\ store' = MemoryRecord' /\ loaded' /\ pending' = {}
        /\ pending_pay_status' = {status}
    BY <2>1, <2>3 DEF plugin, memory, requesting, durable, Payable, Tokens, MemoryRecord
  <2>6. Probing'
    BY <2>1, <2>4, <2>5 DEF Probing
  <2> QED
    BY <2>1, <2>6 DEF Synchronised
<1>4. CASE ExecuteCas(call) \/ ExecuteBatch(call)
  BY <1>4, WriteExecuted
<1>5. CASE ReplayBatch(call)
  <2>1. Writing
    BY <1>1, <1>5, CallTypes DEF ReplayBatch, Synchronised, Loading, Idle, Probing
  <2> PICK update \in pending : Writing!(update)
    BY <2>1 DEF Writing
  <2>2. answers = {} /\ call = WriteOf(update)
    BY <1>1 DEF Synchronised, OneExchange
  <2>3. call.operation \cap DOMAIN receipts = {}
    BY <2>2 DEF WriteOf
  <2> QED
    BY <1>5, <2>3 DEF ReplayBatch
<1> QED
  BY <1>2, <1>3, <1>4, <1>5

LEMMA InitSynchronised == Init => Synchronised
<1> SUFFICES ASSUME Init PROVE Synchronised
  OBVIOUS
<1>1. Requests(outbox) = {Reload(0)} /\ calls = {} /\ answers = {}
  BY CallTypes DEF Init, Requests
<1>2. OneExchange
  BY <1>1 DEF OneExchange, AtMostOne
<1>3. Loading
  BY <1>1, CallTypes DEF Init, Loading, Outstanding
<1> QED
  BY <1>2, <1>3 DEF Synchronised

LEMMA RestartSynchronised == Restart => Synchronised'
<1> SUFFICES ASSUME Restart PROVE Synchronised'
  OBVIOUS
<1>1. Requests(outbox') = {Reload(0)} /\ calls' = {} /\ answers' = {}
  BY CallTypes DEF Restart, Requests
<1>2. OneExchange'
  BY <1>1 DEF OneExchange, AtMostOne
<1>3. Loading'
  BY <1>1, CallTypes DEF Restart, Loading, Outstanding
<1> QED
  BY <1>2, <1>3 DEF Synchronised

LEMMA StutterSynchronised == Synchronised /\ UNCHANGED vars => Synchronised'
<1> SUFFICES ASSUME Synchronised, UNCHANGED vars PROVE Synchronised'
  OBVIOUS
<1>1. UNCHANGED <<plugin, durable, answers, outbox, calls>>
  BY DEF vars
<1>2. Outstanding' = Outstanding /\ OneExchange'
  BY <1>1 DEF Outstanding, Synchronised, OneExchange, AtMostOne
<1> QED
  BY <1>1, <1>2, SamePhase DEF Synchronised

(***************************************************************************)
(* The plugin and the host hold one exchange at a time, and the ledger is  *)
(* the one in memory, or the one in memory with the pending update.        *)
(***************************************************************************)
THEOREM SynchronisedAlways ==
  ASSUME RepliesAccepted PROVE Spec => []Synchronised
<1>1. TypeOK /\ Synchronised /\ [Next]_vars => Synchronised'
  BY CommandSynchronised, DeliverSynchronised, AcceptSynchronised,
     RejectSynchronised, ExecuteSynchronised, RestartSynchronised,
     StutterSynchronised DEF Next
<1> QED
  BY <1>1, InitSynchronised, TypeCorrect, PTL DEF Spec
-----------------------------------------------------------------------------
(* What follows from it *)

LEMMA DurableMemory == TypeOK /\ Synchronised => MemoryIsDurable
<1> SUFFICES ASSUME TypeOK, Synchronised, loaded,
                    storage_version = store.version
             PROVE  store.value = [accounts |-> accounts, tokens |-> token_order]
  BY DEF MemoryIsDurable
<1>1. CASE store = MemoryRecord
  BY <1>1 DEF MemoryRecord
<1>2. CASE store # MemoryRecord
  <2>1. Writing
    BY <1>2 DEF Synchronised, Loading, Idle, Probing
  <2> PICK update \in pending : Writing!(update)
    BY <2>1 DEF Writing
  <2>2. store = Written(MemoryRecord, LedgerOf(update))
    BY <1>2
  <2>3. store.version = storage_version + 1
    BY <2>2 DEF Written, MemoryRecord
  <2>4. storage_version \in Nat
    BY DEF TypeOK
  <2> QED
    BY <2>3, <2>4
<1> QED
  BY <1>1, <1>2

LEMMA SingleWrite == Synchronised => OneWriteUnderWay
<1> SUFFICES ASSUME Synchronised PROVE Cardinality(Writes) <= 1
  BY DEF OneWriteUnderWay
<1>1. \A x, y \in Writes : x = y
  BY DEF Synchronised, OneExchange, AtMostOne, Writes, Requests
<1>2. CASE Writes = {}
  BY <1>2, FS_EmptySet
<1>3. CASE Writes # {}
  <2> PICK w : Writes = {w}
    BY <1>1, <1>3
  <2>1. Cardinality({w}) = 1
    BY FS_Singleton
  <2> QED
    BY <2>1
<1> QED
  BY <1>2, <1>3

LEMMA SettledUpdate == Synchronised => UpdateIsUnderWay
<1> SUFFICES ASSUME Synchronised PROVE UpdateIsUnderWay
  OBVIOUS
<1>1. CASE Loading \/ Idle
  BY <1>1 DEF Loading, Idle, UpdateIsUnderWay
<1>2. CASE Probing
  <2> PICK status \in pending_pay_status : Probing!(status)
    BY <1>2 DEF Probing
  <2>1. PICK c \in Outstanding \cup answers : TRUE
    OBVIOUS
  <2>2. c \in outbox \cup calls \cup answers
    BY DEF Outstanding, Requests
  <2>3. /\ c.type = "status" /\ c.request = status.request
        /\ c.operation = status.operation
    BY DEF Probe
  <2> QED
    BY <2>2, <2>3 DEF UpdateIsUnderWay
<1>3. CASE Writing
  <2> PICK update \in pending : Writing!(update)
    BY <1>3 DEF Writing
  <2>1. PICK c \in Outstanding \cup answers : TRUE
    OBVIOUS
  <2>2. /\ c.type = WriteOf(update).type /\ c.request = update.request
        /\ c.operation = update.operation
    <3>1. CASE c \in Outstanding
      BY <3>1 DEF WriteOf
    <3>2. CASE c \in answers
      BY <3>2 DEF Awaits
    <3> QED
      BY <3>1, <3>2
  <2>3. c \in Writes
    BY <2>2, CallTypes DEF Writes, Outstanding, Requests
  <2> QED
    BY <2>2, <2>3 DEF UpdateIsUnderWay
<1> QED
  BY <1>1, <1>2, <1>3 DEF Synchronised

LEMMA NewPayment == Synchronised => PaymentIsNew
<1> SUFFICES ASSUME Synchronised, NEW c \in outbox \cup calls, c.type = "batch"
             PROVE  c.operation \cap DOMAIN receipts = {}
  BY DEF PaymentIsNew
<1>1. c \in Outstanding
  BY DEF Outstanding, Requests
<1>2. Writing
  BY <1>1, CallTypes DEF Synchronised, Loading, Idle, Probing
<1> PICK update \in pending : Writing!(update)
  BY <1>2 DEF Writing
<1>3. answers = {} /\ c = WriteOf(update)
  BY <1>1 DEF Outstanding, Synchronised, OneExchange
<1> QED
  BY <1>3 DEF WriteOf

(* While only batches that hold a host request may be refused, a loaded     *)
(* memory at the stored version is the stored ledger.                       *)
THEOREM MemoryIsDurableAlways ==
  ASSUME RepliesAccepted PROVE Spec => []MemoryIsDurable
BY SynchronisedAlways, TypeCorrect, DurableMemory, PTL

(* One write at a time, so the version names the update it confirms.        *)
THEOREM OneWriteUnderWayAlways ==
  ASSUME RepliesAccepted PROVE Spec => []OneWriteUnderWay
BY SynchronisedAlways, SingleWrite, PTL

(* An update or probe that makes the plugin busy is never orphaned.         *)
THEOREM UpdateIsUnderWayAlways ==
  ASSUME RepliesAccepted PROVE Spec => []UpdateIsUnderWay
BY SynchronisedAlways, SettledUpdate, PTL

(* No payment is written whose operation already has a receipt.             *)
THEOREM PaymentIsNewAlways ==
  ASSUME RepliesAccepted PROVE Spec => []PaymentIsNew
BY SynchronisedAlways, NewPayment, PTL
-----------------------------------------------------------------------------
(* Economy implements Money *)

LEMMA BalanceAfterInsert ==
  ASSUME NEW t, NEW p, NEW n, NEW q
  PROVE  BalanceIn(Insert(t, p, n), q) = IF q = p THEN n ELSE BalanceIn(t, q)
BY DEF Insert, BalanceIn

(* An executed write is one step of Money, or none. *)
LEMMA WriteIsMoneyStep ==
  ASSUME TypeOK, Synchronised, NEW call \in calls,
         ExecuteCas(call) \/ ExecuteBatch(call)
  PROVE  M!Next \/ UNCHANGED M!vars
<1> PICK update \in pending :
      /\ SetsBalance(update) \/ MovesCoins(update)
      /\ update.operation \cap DOMAIN receipts = {}
      /\ store.value.accounts = accounts
      /\ \/ UNCHANGED durable
         \/ /\ store'.value.accounts = update.accounts
            /\ receipts' = Receipted(receipts, update.operation, store.version + 1)
  BY WriteExecuted
<1>0. receipts' = Receipted(receipts, update.operation, store.version + 1)
        => DOMAIN receipts' = DOMAIN receipts \cup update.operation
  BY DEF Receipted
<1> DEFINE B  == [p \in Players |-> BalanceIn(store.value.accounts, p)]
           B1 == [p \in Players |-> BalanceIn(store'.value.accounts, p)]
<1>1. CASE UNCHANGED durable
  BY <1>1 DEF durable, M!vars
<1>2. CASE /\ store'.value.accounts = update.accounts
           /\ DOMAIN receipts' = DOMAIN receipts \cup update.operation
           /\ SetsBalance(update)
  <2> PICK p \in Players, n \in 0 .. MaxBalance :
        update.accounts = Insert(accounts, p, n)
    BY <1>2 DEF SetsBalance
  <2>1. B1 = [B EXCEPT ![p] = n]
    <3>1. \A q \in Players : B1[q] = IF q = p THEN n ELSE B[q]
      BY <1>2, BalanceAfterInsert
    <3> QED
      BY <3>1
  <2>2. DOMAIN receipts' = DOMAIN receipts
    BY <1>2 DEF SetsBalance
  <2>3. M!SetBalance(p, n)
    BY <2>1, <2>2 DEF M!SetBalance
  <2> QED
    BY <2>3 DEF M!Next
<1>3. CASE /\ store'.value.accounts = update.accounts
           /\ DOMAIN receipts' = DOMAIN receipts \cup update.operation
           /\ MovesCoins(update)
  <2> PICK sender \in Players, target \in Players, token \in TransferTokens,
           n \in 1 .. MaxBalance :
        /\ update.operation = {<<sender, token>>}
        /\ target # sender
        /\ n <= Balance(sender)
        /\ Balance(target) + n <= MaxBalance
        /\ update.accounts = Insert(Insert(accounts, sender, Balance(sender) - n),
                                    target, Balance(target) + n)
    BY <1>3 DEF MovesCoins
  <2>1. B[sender] = Balance(sender) /\ B[target] = Balance(target)
    BY DEF Balance
  <2>2. B1 = [B EXCEPT ![sender] = B[sender] - n, ![target] = B[target] + n]
    <3>1. \A q \in Players :
            B1[q] = IF q = target THEN B[target] + n
                    ELSE IF q = sender THEN B[sender] - n ELSE B[q]
      BY <1>3, <2>1, BalanceAfterInsert
    <3> QED
      BY <3>1
  <2>3. [B EXCEPT ![sender] = B[sender] - n, ![target] = B[target] + n]
          = [B EXCEPT ![sender] = @ - n, ![target] = @ + n]
    OBVIOUS
  <2>4. n \in 1 .. B[sender]
    <3>1. Balance(sender) \in Int
      BY LedgerDef, BalanceInRange DEF TypeOK, Balance
    <3> QED
      BY <2>1, <3>1, SettingsAssumption
  <2>5. <<sender, token>> \notin DOMAIN receipts
    OBVIOUS
  <2> HIDE DEF B, B1
  <2>6. /\ B1 = [B EXCEPT ![sender] = @ - n, ![target] = @ + n]
        /\ B[target] + n <= MaxBalance
        /\ DOMAIN receipts' = DOMAIN receipts \cup {<<sender, token>>}
    BY <1>3, <2>1, <2>2, <2>3
  <2>7. M!Pay(sender, token, target, n)
    BY <2>4, <2>5, <2>6 DEF M!Pay, B, B1
  <2> QED
    BY <2>7 DEF M!Next
<1> QED
  BY <1>0, <1>1, <1>2, <1>3

(* Everything else leaves what is stored alone. *)
LEMMA MoneyStep ==
  ASSUME TypeOK, Synchronised, [Next]_vars PROVE [M!Next]_(M!vars)
<1>1. CASE UNCHANGED durable
  BY <1>1 DEF durable, M!vars
<1>2. CASE Execute
  <2> PICK call \in calls : \/ ExecuteGet(call) \/ ExecuteStatus(call)
                            \/ ExecuteCas(call) \/ ExecuteBatch(call)
                            \/ ReplayBatch(call)
    BY <1>2 DEF Execute
  <2>1. CASE ExecuteCas(call) \/ ExecuteBatch(call)
    BY <2>1, WriteIsMoneyStep
  <2>2. CASE ExecuteGet(call) \/ ExecuteStatus(call) \/ ReplayBatch(call)
    BY <1>1, <2>2 DEF ExecuteGet, ExecuteStatus, ReplayBatch
  <2> QED
    BY <2>1, <2>2
<1>3. CASE Command \/ Deliver \/ AcceptBatch \/ RejectBatch \/ Restart
           \/ UNCHANGED vars
  BY <1>1, <1>3 DEF Command, Money, Pay, Admin, Deliver, AcceptBatch,
                    RejectBatch, Restart, vars
<1> QED
  BY <1>2, <1>3 DEF Next

LEMMA MoneyInit == Init => M!Init
<1> SUFFICES ASSUME Init PROVE M!Init
  OBVIOUS
<1>1. store.value.accounts \in Tables
  BY StoresAssumption DEF Init, Records, Ledgers, Tables
<1>2. DOMAIN receipts = {}
  BY DEF Init
<1> QED
  BY <1>1, <1>2, BalanceInRange DEF M!Init

(***************************************************************************)
(* Whatever is refused, lost, uncertain or restarted, the stored ledger    *)
(* changes only as Money allows: one payment per sender and token, debit   *)
(* and credit together, or one balance set by an operator.                 *)
(***************************************************************************)
THEOREM EconomyImplementsMoney ==
  ASSUME RepliesAccepted PROVE Spec => MoneySpec
BY MoneyInit, MoneyStep, SynchronisedAlways, TypeCorrect, PTL
   DEF Spec, MoneySpec, M!Spec
-----------------------------------------------------------------------------
(* An unconfirmed write reloads *)

LEMMA UnconfirmedReloads ==
  ASSUME Synchronised, Next, NEW a \in answers \ answers', Unconfirmed(a)
  PROVE  ~ loaded' /\ \E c \in outbox' : c.type = "get"
<1>1. CASE Command \/ AcceptBatch \/ RejectBatch
  BY <1>1 DEF Command, Money, Pay, Admin, AcceptBatch, RejectBatch
<1>2. CASE Execute
  BY <1>2 DEF Execute, ExecuteGet, ExecuteStatus, ExecuteCas, ExecuteBatch,
              ReplayBatch, AnswerWrite, Answer
<1>3. CASE Restart
  BY <1>3, CallTypes DEF Restart
<1>4. CASE Deliver
  <2>1. answers = {a} /\ Writing
    BY Delivering DEF Unconfirmed, Loading, Probing
  <2> PICK update \in pending : Writing!(update)
    BY <2>1 DEF Writing
  <2>2. pending = {update} /\ Awaits(update, a)
    OBVIOUS
  <2>3. WriteAnswered(a, update)
    BY <1>4, <2>1, <2>2
       DEF Deliver, LedgerRead, StatusAnswered, Ignored, Unconfirmed
  <2>4. Forget
    BY <2>3 DEF WriteAnswered, Unconfirmed
  <2> QED
    BY <2>4, CallTypes DEF Forget
<1> QED
  BY <1>1, <1>2, <1>3, <1>4 DEF Next

(* README: "A refused or uncertain outcome reloads the ledger".             *)
THEOREM UnconfirmedReloadsAlways ==
  ASSUME RepliesAccepted PROVE Spec => RefusedReloads
<1>1. Synchronised /\ [Next]_vars =>
        [\A a \in answers \ answers' :
            Unconfirmed(a) /\ (calls' = calls) =>
               ~ loaded' /\ \E c \in outbox' : c.type = "get"]_vars
  BY UnconfirmedReloads
<1> QED
  BY <1>1, SynchronisedAlways, PTL DEF Spec, RefusedReloads
-----------------------------------------------------------------------------
(* What is stored can be loaded *)

LEMMA InsertHasRoom ==
  ASSUME IsFiniteSet(Players), NEW t \in Tables, NEW p \in Players, NEW n,
         Cardinality(DOMAIN t) <= MaxAccounts, HasRoom(t, p)
  PROVE  Cardinality(DOMAIN Insert(t, p, n)) <= MaxAccounts
<1>1. DOMAIN Insert(t, p, n) = DOMAIN t \cup {p}
  BY DEF Insert
<1>2. IsFiniteSet(DOMAIN t)
  BY TableDef, FS_Subset
<1>3. CASE p \in DOMAIN t
  <2>1. DOMAIN t \cup {p} = DOMAIN t
    BY <1>3
  <2> QED
    BY <1>1, <2>1
<1>4. CASE p \notin DOMAIN t
  <2>1. Cardinality(DOMAIN t \cup {p}) = Cardinality(DOMAIN t) + 1
    BY <1>2, <1>4, FS_AddElement
  <2>2. Cardinality(DOMAIN t) < MaxAccounts /\ Cardinality(DOMAIN t) \in Nat
    BY <1>2, <1>4, FS_CardinalityType DEF HasRoom
  <2> QED
    BY <1>1, <2>1, <2>2, SettingsAssumption
<1> QED
  BY <1>3, <1>4

LEMMA RememberIsWindow ==
  ASSUME NEW o \in Seq(Operations), NEW op \in Operations,
         NoRepeats(o), op \notin Range(o)
  PROVE  NoRepeats(Remember(o, op)) /\ Len(Remember(o, op)) <= MaxTokens
<1> DEFINE longer == Append(o, op)
<1>1. longer \in Seq(Operations) /\ NoRepeats(longer) /\ Len(longer) = Len(o) + 1
  <2>1. \A i \in 1 .. Len(o) : o[i] # op
    BY DEF Range
  <2> QED
    BY <2>1 DEF NoRepeats
<1>2. CASE Len(longer) > MaxTokens
  <2> DEFINE m == Len(longer) - MaxTokens + 1
  <2>1. m \in 1 .. Len(longer) /\ Remember(o, op) = SubSeq(longer, m, Len(longer))
    BY <1>1, <1>2, SettingsAssumption DEF Remember
  <2>2. Len(Remember(o, op)) = MaxTokens
    BY <1>1, <2>1, SettingsAssumption
  <2> HIDE DEF longer
  <2>3. \A i \in 1 .. MaxTokens : /\ Remember(o, op)[i] = longer[m + i - 1]
                                  /\ m + i - 1 \in 1 .. Len(longer)
    BY <1>1, <1>2, <2>1, SettingsAssumption
  <2>4. Remember(o, op) \in Seq(Operations)
    BY RememberSeq
  <2>5. DOMAIN Remember(o, op) = 1 .. MaxTokens /\ DOMAIN longer = 1 .. Len(longer)
    BY <1>1, <2>2, <2>4
  <2>6. ASSUME NEW i \in 1 .. MaxTokens, NEW j \in 1 .. MaxTokens,
               Remember(o, op)[i] = Remember(o, op)[j]
        PROVE  i = j
    <3>1. longer[m + i - 1] = longer[m + j - 1]
      BY <2>3, <2>6
    <3>2. m + i - 1 = m + j - 1
      BY <1>1, <2>3, <2>5, <3>1 DEF NoRepeats
    <3>3. m \in Int
      BY <2>1
    <3> QED
      BY <3>2, <3>3
  <2> QED
    BY <2>2, <2>5, <2>6, SettingsAssumption DEF NoRepeats
<1>3. CASE ~ (Len(longer) > MaxTokens)
  <2>1. Remember(o, op) = longer
    BY <1>3 DEF Remember
  <2> QED
    BY <1>1, <1>3, <2>1, SettingsAssumption
<1> QED
  BY <1>2, <1>3

(* The stored ledger, the memory it was read into and the update that is    *)
(* about to replace it are all within the limits decode enforces.           *)
Loadable ==
  /\ Decodable(store.value)
  /\ loaded => Decodable([accounts |-> accounts, tokens |-> token_order])
  /\ \A u \in pending : Decodable(LedgerOf(u))

LEMMA DecodableParts ==
  ASSUME NEW t \in Tables, NEW o
  PROVE  Decodable([accounts |-> t, tokens |-> o]) <=>
           /\ Cardinality(DOMAIN t) <= MaxAccounts
           /\ NoRepeats(o) /\ Len(o) <= MaxTokens
<1>1. \A p \in DOMAIN t : t[p] \in 0 .. MaxBalance
  BY TableDef
<1>2. \A p \in DOMAIN t : t[p] <= MaxBalance
  BY <1>1, SettingsAssumption
<1> QED
  BY <1>2 DEF Decodable

LEMMA SaveLoadable ==
  ASSUME Loadable, NEW table, NEW order, NEW operation,
         Save(table, order, operation), UNCHANGED <<memory, store>>,
         Decodable([accounts |-> table, tokens |-> order])
  PROVE  Loadable'
<1>1. \A u \in pending' : Decodable(LedgerOf(u))
  <2> PICK update : update = [request |-> storage_version, operation |-> operation,
                              accounts |-> table, tokens |-> order]
    OBVIOUS
  <2>1. pending' = {update} \/ pending' = pending
    BY DEF Save
  <2>2. Decodable(LedgerOf(update))
    BY DEF LedgerOf
  <2> QED
    BY <2>1, <2>2 DEF Loadable
<1> QED
  BY <1>1 DEF Loadable, memory

LEMMA CommandLoadable ==
  ASSUME IsFiniteSet(Players), TypeOK, Loadable, Command PROVE Loadable'
<1>1. CASE Money
  BY <1>1 DEF Money, Loadable, plugin, memory, requesting, durable
<1>2. ASSUME NEW actor \in Players, NEW target \in Players, NEW amount \in Amounts,
             NEW token \in TransferTokens, Pay(actor, target, amount, token)
      PROVE  Loadable'
  BY <1>2 DEF Pay, Loadable, memory, durable
<1>3. ASSUME NEW target \in Players, NEW n, Admin(target, n) PROVE Loadable'
  <2>1. /\ loaded /\ n \in 0 .. MaxBalance /\ HasRoom(accounts, target)
        /\ Save(Insert(accounts, target, n), token_order, {})
        /\ UNCHANGED <<memory, store>>
    BY <1>3 DEF Admin, durable
  <2>2. accounts \in Tables
    BY LedgerDef DEF TypeOK
  <2>3. /\ Cardinality(DOMAIN accounts) <= MaxAccounts
        /\ NoRepeats(token_order) /\ Len(token_order) <= MaxTokens
    BY <2>1, <2>2, DecodableParts DEF Loadable
  <2>4. Insert(accounts, target, n) \in Tables
    BY <2>1, <2>2, InsertTable
  <2>5. Cardinality(DOMAIN Insert(accounts, target, n)) <= MaxAccounts
    BY <2>1, <2>2, <2>3, InsertHasRoom
  <2>6. Decodable([accounts |-> Insert(accounts, target, n),
                   tokens |-> token_order])
    BY <2>3, <2>4, <2>5, DecodableParts
  <2> QED
    BY <2>1, <2>6, SaveLoadable
<1> QED
  BY <1>1, <1>2, <1>3 DEF Command

LEMMA IssuePayLoadable ==
  ASSUME IsFiniteSet(Players), TypeOK, Loadable, loaded, NEW status \in Statuses,
         Payable(status), IssuePay(status), UNCHANGED durable
  PROVE  Loadable'
<1> DEFINE sender  == status.operation[1]
           left    == Balance(sender) - status.amount
           debited == Insert(accounts, sender, left)
           total   == Balance(status.target) + status.amount
           credited == Insert(debited, status.target, total)
           order == Remember(token_order, status.operation)
<1>1. UNCHANGED <<memory, store>>
  BY DEF IssuePay, durable
<1>2. CASE outbox' = outbox \cup {Message} /\ UNCHANGED pending
  BY <1>1, <1>2 DEF Loadable, memory
<1>3. CASE /\ left >= 0 /\ total <= MaxBalance
           /\ HasRoom(accounts, sender) /\ HasRoom(debited, status.target)
           /\ Save(credited, order, {status.operation})
  <2>1. /\ sender \in Players /\ status.target \in Players
        /\ status.amount \in 1 .. MaxBalance /\ status.operation \in Operations
    BY DEF Statuses, Operations
  <2>2. accounts \in Tables /\ token_order \in Seq(Operations)
    BY LedgerDef DEF TypeOK
  <2>3. Balance(sender) \in 0 .. MaxBalance /\ Balance(status.target) \in 0 .. MaxBalance
    BY <2>2, BalanceInRange DEF Balance
  <2>4. left \in 0 .. MaxBalance /\ total \in 0 .. MaxBalance
    BY <1>3, <2>1, <2>3, SettingsAssumption
  <2>5. debited \in Tables
    BY <2>1, <2>2, <2>4, InsertTable
  <2>6. credited \in Tables
    BY <2>1, <2>4, <2>5, InsertTable
  <2>7. Cardinality(DOMAIN accounts) <= MaxAccounts /\ NoRepeats(token_order)
    BY <2>2, DecodableParts DEF Loadable
  <2>8. Cardinality(DOMAIN debited) <= MaxAccounts
    BY <1>3, <2>1, <2>2, <2>7, InsertHasRoom
  <2>9. Cardinality(DOMAIN credited) <= MaxAccounts
    BY <1>3, <2>1, <2>5, <2>8, InsertHasRoom
  <2>10. NoRepeats(order) /\ Len(order) <= MaxTokens
    BY <2>1, <2>2, <2>7, RememberIsWindow DEF Payable, Tokens
  <2>11. Decodable([accounts |-> credited, tokens |-> order])
    <3> HIDE DEF credited, order
    <3> QED
      BY <2>6, <2>9, <2>10, DecodableParts
  <2> HIDE DEF credited, order
  <2> QED
    BY <1>1, <1>3, <2>11, SaveLoadable
<1> QED
  BY <1>2, <1>3 DEF IssuePay

LEMMA DeliverLoadable ==
  ASSUME IsFiniteSet(Players), TypeOK, Synchronised, Loadable, Deliver
  PROVE  Loadable'
<1> PICK answer \in answers :
      \/ LedgerRead(answer)
      \/ \E status \in pending_pay_status : StatusAnswered(answer, status)
      \/ \E update \in pending : WriteAnswered(answer, update)
      \/ Ignored(answer)
  BY DEF Deliver
<1>1. UNCHANGED durable
  BY DEF Deliver
<1>2. CASE LedgerRead(answer)
  <2>1. UNCHANGED <<pending, store>>
    BY <1>1, <1>2 DEF LedgerRead, requesting, durable
  <2>2. CASE answer.outcome = "read" /\ Decodable(answer.value)
    <3>1. accounts' = answer.value.accounts /\ token_order' = answer.value.tokens
      BY <1>2, <2>2 DEF LedgerRead
    <3>2. Decodable([accounts |-> accounts', tokens |-> token_order'])
      BY <2>2, <3>1 DEF Decodable
    <3> QED
      BY <2>1, <3>2 DEF Loadable
  <2>3. CASE ~ (answer.outcome = "read" /\ Decodable(answer.value))
    BY <1>2, <2>1, <2>3 DEF LedgerRead, Loadable
  <2> QED
    BY <2>2, <2>3
<1>3. ASSUME NEW status \in pending_pay_status, StatusAnswered(answer, status)
      PROVE  Loadable'
  <2>1. Probing
    BY DEF Synchronised, Loading, Idle, Writing
  <2>2. loaded /\ Payable(status) /\ status \in Statuses
    BY <2>1 DEF Probing, TypeOK
  <2>3. CASE IssuePay(status)
    BY <1>1, <2>2, <2>3, IssuePayLoadable
  <2>4. CASE Forget /\ UNCHANGED pending
    BY <1>1, <2>4 DEF Forget, Loadable, durable
  <2>5. CASE UNCHANGED <<memory, pending, sequence>>
    BY <1>1, <2>5 DEF Loadable, memory, durable
  <2> QED
    BY <1>3, <2>3, <2>4, <2>5 DEF StatusAnswered
<1>4. ASSUME NEW update \in pending, WriteAnswered(answer, update)
      PROVE  Loadable'
  <2>1. pending' = {} /\ store' = store
    BY <1>1, <1>4 DEF WriteAnswered, durable
  <2>2. CASE ApplyUpdate(update, answer.version)
    BY <2>1, <2>2 DEF ApplyUpdate, Loadable, LedgerOf
  <2>3. CASE loaded' = FALSE
    BY <2>1, <2>3 DEF Loadable
  <2> QED
    BY <1>4, <2>2, <2>3 DEF WriteAnswered, Forget
<1>5. CASE Ignored(answer)
  BY <1>1, <1>5 DEF Ignored, Loadable, plugin, memory, requesting, durable
<1> QED
  BY <1>2, <1>3, <1>4, <1>5

LEMMA ExecuteLoadable ==
  ASSUME TypeOK, Synchronised, Loadable, Execute PROVE Loadable'
<1> PICK call \in calls : \/ ExecuteGet(call) \/ ExecuteStatus(call)
                          \/ ExecuteCas(call) \/ ExecuteBatch(call)
                          \/ ReplayBatch(call)
  BY DEF Execute
<1>1. UNCHANGED plugin
  BY DEF ExecuteGet, ExecuteStatus, ExecuteCas, ExecuteBatch, ReplayBatch,
         AnswerWrite, Answer
<1>2. \/ store' = store
      \/ store' = Written(store, call.value) /\ call.type \in {"cas", "batch"}
  <2>1. CASE ExecuteGet(call) \/ ExecuteStatus(call) \/ ReplayBatch(call)
    BY <2>1 DEF ExecuteGet, ExecuteStatus, ReplayBatch, durable
  <2>2. CASE ExecuteCas(call) \/ ExecuteBatch(call)
    <3>1. PICK x \in CasExecutions(store, call.expected, call.value) :
            store' = x.record /\ call.type \in {"cas", "batch"}
      <4>1. CASE ExecuteCas(call)
        BY <4>1 DEF ExecuteCas
      <4>2. CASE ExecuteBatch(call)
        BY <4>2 DEF ExecuteBatch
      <4> QED
        BY <2>2, <4>1, <4>2
    <3>2. x.record \in {store, Written(store, call.value)}
      BY DEF CasExecutions, CasOutcomes
    <3> QED
      BY <3>1, <3>2
  <2> QED
    BY <2>1, <2>2
<1>3. CASE store' = store
  BY <1>1, <1>3 DEF Loadable, plugin, memory, requesting
<1>4. CASE store' = Written(store, call.value) /\ call.type \in {"cas", "batch"}
  <2>1. call \in Outstanding
    BY DEF Outstanding
  <2>2. Writing
    BY <1>4, <2>1, CallTypes DEF Synchronised, Loading, Idle, Probing
  <2> PICK update \in pending : Writing!(update)
    BY <2>2 DEF Writing
  <2>3. store'.value = LedgerOf(update)
    BY <1>4, <2>1 DEF Written, WriteOf
  <2> QED
    BY <1>1, <2>3 DEF Loadable, plugin, memory, requesting
<1> QED
  BY <1>2, <1>3, <1>4

(* Every ledger the plugin stores, decode accepts at the next start.        *)
THEOREM StoreIsLoadableAlways ==
  ASSUME RepliesAccepted, IsFiniteSet(Players) PROVE Spec => []StoreIsLoadable
<1>1. Init => Loadable
  <2> SUFFICES ASSUME Init PROVE Loadable
    OBVIOUS
  <2>1. Decodable(store.value)
    BY StoresAssumption DEF Init
  <2> QED
    BY <2>1 DEF Init, Loadable
<1>2. TypeOK /\ Synchronised /\ Loadable /\ [Next]_vars => Loadable'
  <2> SUFFICES ASSUME TypeOK, Synchronised, Loadable, [Next]_vars PROVE Loadable'
    OBVIOUS
  <2>1. CASE AcceptBatch \/ UNCHANGED vars
    BY <2>1 DEF AcceptBatch, vars, plugin, memory, requesting, durable, Loadable
  <2>2. CASE RejectBatch
    BY <2>2 DEF RejectBatch, memory, durable, Loadable
  <2>3. CASE Restart
    BY <2>3 DEF Restart, durable, Loadable
  <2> QED
    BY <2>1, <2>2, <2>3, CommandLoadable, DeliverLoadable, ExecuteLoadable DEF Next
<1>3. Loadable => StoreIsLoadable
  BY DEF Loadable, StoreIsLoadable
<1> QED
  BY <1>1, <1>2, <1>3, SynchronisedAlways, TypeCorrect, PTL DEF Spec
-----------------------------------------------------------------------------
(* The window keeps the newest payments *)

(* The update adds at most its own payment to the window of now. *)
Remembered(u) ==
  \/ u.operation = {} /\ u.tokens = token_order
  \/ \E op \in Operations \ Tokens :
        u.operation = {op} /\ u.tokens = Remember(token_order, op)

(***************************************************************************)
(* The payments with a receipt are the newest of the window, in the order  *)
(* of their revisions, behind the tokens the first ledger came with; one   *)
(* that was dropped is older than every payment kept.                      *)
(***************************************************************************)
ReceiptsInOrder(order, given) ==
  \A i, j \in DOMAIN order :
     i < j /\ order[i] \in DOMAIN given =>
       order[j] \in DOMAIN given /\ given[order[i]] < given[order[j]]

DroppedAreOlder(order, given) ==
  \A op \in DOMAIN given \ Range(order) : \A i \in DOMAIN order :
     order[i] \in DOMAIN given /\ given[op] < given[order[i]]

Ordered(order, given, version) ==
  /\ \A op \in DOMAIN given : given[op] <= version
  /\ ReceiptsInOrder(order, given)
  /\ DroppedAreOlder(order, given)

Windowed ==
  /\ Ordered(store.value.tokens, receipts, store.version)
  /\ \A u \in pending : Remembered(u)

(* The window after a payment is the end of the window with it appended. *)
LEMMA RememberIsSuffix ==
  ASSUME NEW o \in Seq(Operations), NEW op \in Operations
  PROVE  \E k \in 0 .. Len(o) :
           /\ DOMAIN Remember(o, op) = 1 .. Len(o) + 1 - k
           /\ \A i \in 1 .. Len(o) + 1 - k :
                Remember(o, op)[i] = Append(o, op)[k + i]
<1> DEFINE longer == Append(o, op)
<1>1. longer \in Seq(Operations) /\ Len(longer) = Len(o) + 1 /\ Len(o) \in Nat
  OBVIOUS
<1>2. CASE Len(longer) > MaxTokens
  <2> DEFINE k == Len(longer) - MaxTokens
  <2>1. /\ k \in 0 .. Len(o)
        /\ Remember(o, op) = SubSeq(longer, k + 1, Len(longer))
    BY <1>1, <1>2, SettingsAssumption DEF Remember
  <2> HIDE DEF longer, k
  <2>2. Len(longer) - (k + 1) + 1 = Len(o) + 1 - k /\ k \in Int
    BY <1>1, <2>1
  <2>3. Len(Remember(o, op)) = Len(o) + 1 - k
    BY <1>1, <2>1, <2>2
  <2>4. \A i \in 1 .. Len(o) + 1 - k : Remember(o, op)[i] = longer[k + i]
    BY <1>1, <2>1, <2>2
  <2>5. Remember(o, op) \in Seq(Operations)
    BY RememberSeq
  <2>6. DOMAIN Remember(o, op) = 1 .. Len(o) + 1 - k
    BY <2>3, <2>5
  <2> QED
    BY <2>1, <2>4, <2>6 DEF longer
<1>3. CASE ~ (Len(longer) > MaxTokens)
  <2>1. Remember(o, op) = longer
    BY <1>3 DEF Remember
  <2>2. DOMAIN longer = 1 .. Len(o) + 1 - 0
    BY <1>1
  <2>3. \A i \in 1 .. Len(o) + 1 - 0 : 0 + i = i
    BY <1>1
  <2>4. 0 \in 0 .. Len(o)
    BY <1>1
  <2> HIDE DEF longer
  <2>5. /\ DOMAIN Remember(o, op) = 1 .. Len(o) + 1 - 0
        /\ \A i \in 1 .. Len(o) + 1 - 0 : Remember(o, op)[i] = longer[0 + i]
    BY <2>1, <2>2, <2>3
  <2> QED
    BY <2>4, <2>5 DEF longer
<1> QED
  BY <1>2, <1>3

(* A payment the window and the receipts do not know keeps them in order.   *)
LEMMA OrderedNext ==
  ASSUME NEW o \in Seq(Operations), NEW given, NEW op \in Operations,
         NEW version \in Nat, given \in [DOMAIN given -> Nat],
         op \notin Range(o), op \notin DOMAIN given, Ordered(o, given, version)
  PROVE  Ordered(Remember(o, op), Receipted(given, {op}, version + 1), version + 1)
<1> PICK n : n = Len(o)
  OBVIOUS
<1> PICK next : next = Remember(o, op)
  OBVIOUS
<1> PICK after : after = Receipted(given, {op}, version + 1)
  OBVIOUS
<1> PICK longer : longer = Append(o, op)
  OBVIOUS
<1> PICK k \in 0 .. n :
      /\ DOMAIN next = 1 .. n + 1 - k
      /\ \A i \in 1 .. n + 1 - k : next[i] = longer[k + i]
  BY RememberIsSuffix
<1>1. /\ n \in Nat /\ DOMAIN o = 1 .. n /\ longer[n + 1] = op
      /\ \A i \in 1 .. n : longer[i] = o[i] /\ o[i] # op
  BY DEF Range
<1>2. /\ DOMAIN after = DOMAIN given \cup {op} /\ after[op] = version + 1
      /\ \A q \in DOMAIN given : after[q] = given[q]
  <2> PICK revision : revision = version + 1
    OBVIOUS
  <2>1. after = Receipted(given, {op}, revision)
    OBVIOUS
  <2>2. DOMAIN after = DOMAIN given \cup {op}
    BY <2>1 DEF Receipted
  <2>3. after[op] = version + 1
    BY <2>1 DEF Receipted
  <2>4. ASSUME NEW q \in DOMAIN given PROVE after[q] = given[q]
    BY <2>1, <2>4 DEF Receipted
  <2> QED
    BY <2>2, <2>3, <2>4
<1>3. \A q \in DOMAIN given : given[q] \in Nat /\ given[q] <= version
  BY DEF Ordered
<1>4. \A i \in DOMAIN next :
        /\ k + i \in 1 .. n + 1
        /\ k + i = n + 1 => next[i] = op
        /\ k + i # n + 1 => k + i \in DOMAIN o /\ next[i] = o[k + i] /\ next[i] # op
  <2> TAKE i \in DOMAIN next
  <2>1. i \in 1 .. n + 1 - k /\ k + i \in 1 .. n + 1
    BY <1>1
  <2>2. next[i] = longer[k + i]
    BY <2>1
  <2>3. k + i # n + 1 => k + i \in 1 .. n
    BY <1>1, <2>1
  <2> QED
    BY <1>1, <2>1, <2>2, <2>3
<1>5. \A q \in DOMAIN after : after[q] <= version + 1
  <2> TAKE q \in DOMAIN after
  <2>1. CASE q = op
    BY <1>2, <2>1
  <2>2. CASE q \in DOMAIN given
    <3>1. after[q] = given[q]
      BY <1>2, <2>2
    <3>2. given[q] \in Nat /\ given[q] <= version
      BY <1>3, <2>2
    <3> QED
      BY <3>1, <3>2
  <2> QED
    BY <1>2, <2>1, <2>2
<1>6. ReceiptsInOrder(next, after)
  <2> SUFFICES ASSUME NEW i \in DOMAIN next, NEW j \in DOMAIN next, i < j,
                      next[i] \in DOMAIN after
               PROVE  next[j] \in DOMAIN after /\ after[next[i]] < after[next[j]]
    BY DEF ReceiptsInOrder
  <2>1. i \in Int /\ j \in Int /\ k \in Int /\ n \in Int
    BY <1>1
  <2>2. k + i # n + 1 /\ k + i < k + j
    BY <1>4, <2>1
  <2>3. next[i] = o[k + i] /\ next[i] \in DOMAIN given /\ k + i \in DOMAIN o
    BY <1>2, <1>4, <2>2
  <2>4. CASE k + j = n + 1
    <3>1. next[j] = op
      BY <1>4, <2>4
    <3>2. after[next[i]] \in Nat /\ after[next[i]] <= version
      BY <1>2, <1>3, <2>3
    <3> QED
      BY <1>2, <3>1, <3>2
  <2>5. CASE k + j # n + 1
    <3>1. next[j] = o[k + j] /\ k + j \in DOMAIN o
      BY <1>4, <2>5
    <3>2. next[j] \in DOMAIN given /\ given[next[i]] < given[next[j]]
      BY <2>2, <2>3, <3>1 DEF Ordered, ReceiptsInOrder
    <3> QED
      BY <1>2, <2>3, <3>2
  <2> QED
    BY <2>4, <2>5
<1>7. DroppedAreOlder(next, after)
  <2> SUFFICES ASSUME NEW q \in DOMAIN after \ Range(next), NEW i \in DOMAIN next
               PROVE  next[i] \in DOMAIN after /\ after[q] < after[next[i]]
    BY DEF DroppedAreOlder
  <2>1. q # op /\ q \in DOMAIN given
    <3>1. n + 1 - k \in DOMAIN next /\ k + (n + 1 - k) = n + 1
      BY <1>1
    <3>2. next[n + 1 - k] = op
      BY <1>4, <3>1
    <3>3. op \in Range(next)
      BY <3>1, <3>2 DEF Range
    <3> QED
      BY <1>2, <3>3
  <2>2. after[q] = given[q] /\ given[q] \in Nat /\ given[q] <= version
    BY <1>2, <1>3, <2>1
  <2>3. CASE k + i = n + 1
    BY <1>2, <1>4, <2>2, <2>3
  <2>4. CASE k + i # n + 1
    <3>1. next[i] = o[k + i] /\ k + i \in DOMAIN o
      BY <1>4, <2>4
    <3>2. o[k + i] \in DOMAIN given /\ given[q] < given[o[k + i]]
      <4>1. CASE q \notin Range(o)
        BY <2>1, <3>1, <4>1 DEF Ordered, DroppedAreOlder
      <4>2. CASE q \in Range(o)
        <5> PICK h \in DOMAIN o : o[h] = q
          BY <4>2 DEF Range
        <5>1. h <= k
          <6> SUFFICES ASSUME ~ (h <= k) PROVE FALSE
            OBVIOUS
          <6>1. h - k \in DOMAIN next /\ k + (h - k) = h /\ h # n + 1
            BY <1>1
          <6>2. next[h - k] = q
            BY <1>4, <6>1
          <6> QED
            BY <6>1, <6>2 DEF Range
        <5>2. h < k + i
          BY <1>1, <5>1
        <5> QED
          BY <2>1, <3>1, <5>2 DEF Ordered, ReceiptsInOrder
      <4> QED
        BY <4>1, <4>2
    <3> QED
      BY <1>2, <2>2, <3>1, <3>2
  <2> QED
    BY <2>3, <2>4
<1> QED
  BY <1>5, <1>6, <1>7 DEF Ordered

(* An update of balances alone leaves the window and the receipts.          *)
LEMMA OrderedAlso ==
  ASSUME NEW o, NEW given, NEW version \in Nat, given \in [DOMAIN given -> Nat],
         Ordered(o, given, version)
  PROVE  Ordered(o, Receipted(given, {}, version + 1), version + 1)
<1>1. Receipted(given, {}, version + 1) = given
  BY DEF Receipted
<1>2. \A op \in DOMAIN given : given[op] <= version + 1
  BY DEF Ordered
<1> QED
  BY <1>1, <1>2 DEF Ordered

(* While memory stays, and nothing is stored, only a new update matters.    *)
LEMMA SaveWindowed ==
  ASSUME Windowed, NEW table, NEW order, NEW operation,
         Save(table, order, operation), UNCHANGED <<memory, durable>>,
         \/ operation = {} /\ order = token_order
         \/ \E op \in Operations \ Tokens :
               operation = {op} /\ order = Remember(token_order, op)
  PROVE  Windowed'
<1> PICK update : update = [request |-> storage_version, operation |-> operation,
                            accounts |-> table, tokens |-> order]
  OBVIOUS
<1>1. pending' = {update} \/ pending' = pending
  BY DEF Save
<1>2. token_order' = token_order /\ Tokens' = Tokens
  BY DEF memory, Tokens
<1>3. \A u : Remembered(u) => Remembered(u)'
  BY <1>2 DEF Remembered
<1>4. Remembered(update)
  BY DEF Remembered
<1>5. \A u \in pending' : Remembered(u)'
  BY <1>1, <1>3, <1>4 DEF Windowed
<1>6. store' = store /\ receipts' = receipts
  BY DEF durable
<1> QED
  BY <1>5, <1>6 DEF Windowed

(* Nothing stored, no update begun, and memory kept while one is pending.   *)
LEMMA StaysWindowed ==
  ASSUME Windowed, UNCHANGED durable,
         \/ pending' = {}
         \/ UNCHANGED <<pending, token_order>>
  PROVE  Windowed'
<1>1. store' = store /\ receipts' = receipts
  BY DEF durable
<1>2. \A u \in pending' : Remembered(u)'
  <2>1. CASE pending' = {}
    BY <2>1
  <2>2. CASE UNCHANGED <<pending, token_order>>
    <3>1. \A u : Remembered(u) => Remembered(u)'
      BY <2>2 DEF Remembered, Tokens
    <3> QED
      BY <2>2, <3>1 DEF Windowed
  <2> QED
    BY <2>1, <2>2
<1> QED
  BY <1>1, <1>2 DEF Windowed

LEMMA CommandWindowed ==
  ASSUME Windowed, Command PROVE Windowed'
<1>1. CASE Money
  BY <1>1, StaysWindowed DEF Money, plugin, memory, requesting
<1>2. ASSUME NEW actor \in Players, NEW target \in Players, NEW amount \in Amounts,
             NEW token \in TransferTokens, Pay(actor, target, amount, token)
      PROVE  Windowed'
  BY <1>2, StaysWindowed DEF Pay, memory
<1>3. ASSUME NEW target \in Players, NEW n, Admin(target, n) PROVE Windowed'
  <2>1. /\ Save(Insert(accounts, target, n), token_order, {})
        /\ UNCHANGED <<memory, durable>>
    BY <1>3 DEF Admin
  <2> QED
    BY <2>1, SaveWindowed
<1> QED
  BY <1>1, <1>2, <1>3 DEF Command

LEMMA DeliverWindowed ==
  ASSUME TypeOK, Synchronised, Windowed, Deliver PROVE Windowed'
<1> PICK answer \in answers :
      \/ LedgerRead(answer)
      \/ \E status \in pending_pay_status : StatusAnswered(answer, status)
      \/ \E update \in pending : WriteAnswered(answer, update)
      \/ Ignored(answer)
  BY DEF Deliver
<1>1. UNCHANGED durable
  BY DEF Deliver
<1>2. CASE LedgerRead(answer)
  <2>1. answer.type = "get" /\ pending' = pending
    BY <1>2 DEF LedgerRead, requesting
  <2>2. Loading
    BY <2>1, Delivering DEF Probing, Writing, Awaits, WriteOf
  <2> QED
    BY <1>1, <2>1, <2>2, StaysWindowed DEF Loading
<1>3. ASSUME NEW status \in pending_pay_status, StatusAnswered(answer, status)
      PROVE  Windowed'
  <2>1. Probing
    BY DEF Synchronised, Loading, Idle, Writing
  <2>2. Payable(status) /\ status.operation \in Operations
    BY <2>1 DEF Probing, TypeOK, Statuses
  <2>3. CASE IssuePay(status)
    <3>1. UNCHANGED memory
      BY <2>3 DEF IssuePay
    <3>2. CASE UNCHANGED pending
      BY <1>1, <3>1, <3>2, StaysWindowed DEF memory
    <3>3. CASE pending' # pending
      <4> PICK table : Save(table, Remember(token_order, status.operation),
                            {status.operation})
        BY <2>3, <3>3 DEF IssuePay
      <4> QED
        BY <1>1, <2>2, <3>1, SaveWindowed DEF Payable
    <3> QED
      BY <3>2, <3>3
  <2>4. CASE Forget /\ UNCHANGED pending
    BY <1>1, <2>4, StaysWindowed DEF Forget
  <2>5. CASE UNCHANGED <<memory, pending, sequence>>
    BY <1>1, <2>5, StaysWindowed DEF memory
  <2> QED
    BY <1>3, <2>3, <2>4, <2>5 DEF StatusAnswered
<1>4. ASSUME NEW update \in pending, WriteAnswered(answer, update)
      PROVE  Windowed'
  BY <1>1, <1>4, StaysWindowed DEF WriteAnswered
<1>5. CASE Ignored(answer)
  BY <1>1, <1>5, StaysWindowed DEF Ignored, plugin, memory, requesting
<1> QED
  BY <1>2, <1>3, <1>4, <1>5

LEMMA ExecuteWindowed ==
  ASSUME TypeOK, Synchronised, Windowed, Execute PROVE Windowed'
<1> PICK call \in calls : \/ ExecuteGet(call) \/ ExecuteStatus(call)
                          \/ ExecuteCas(call) \/ ExecuteBatch(call)
                          \/ ReplayBatch(call)
  BY DEF Execute
<1>1. UNCHANGED plugin
  BY DEF ExecuteGet, ExecuteStatus, ExecuteCas, ExecuteBatch, ReplayBatch,
         AnswerWrite, Answer
<1>2. UNCHANGED <<pending, token_order>>
  BY <1>1 DEF plugin, memory, requesting
<1>3. CASE UNCHANGED durable
  BY <1>2, <1>3, StaysWindowed
<1>4. CASE ExecuteCas(call) \/ ExecuteBatch(call)
  <2> PICK update \in pending :
        /\ update.operation \cap DOMAIN receipts = {}
        /\ store.value.tokens = token_order
        /\ \/ UNCHANGED durable
           \/ /\ store'.value.tokens = update.tokens
              /\ store'.version = store.version + 1
              /\ receipts' = Receipted(receipts, update.operation, store.version + 1)
    BY <1>4, WriteExecuted
  <2>1. CASE /\ store'.value.tokens = update.tokens
             /\ store'.version = store.version + 1
             /\ receipts' = Receipted(receipts, update.operation, store.version + 1)
    <3>1. /\ token_order \in Seq(Operations) /\ store.version \in Nat
          /\ receipts \in [DOMAIN receipts -> Nat]
      BY LedgerDef DEF TypeOK, Records
    <3>2. Ordered(token_order, receipts, store.version) /\ Remembered(update)
      BY DEF Windowed
    <3>3. Ordered(store'.value.tokens, receipts', store'.version)
      <4>1. CASE update.operation = {} /\ update.tokens = token_order
        <5>1. Ordered(token_order, Receipted(receipts, {}, store.version + 1),
                      store.version + 1)
          BY <3>1, <3>2, OrderedAlso
        <5> QED
          BY <2>1, <4>1, <5>1
      <4>2. ASSUME NEW op \in Operations \ Tokens, update.operation = {op},
                   update.tokens = Remember(token_order, op)
            PROVE  Ordered(store'.value.tokens, receipts', store'.version)
        <5>1. op \notin DOMAIN receipts /\ op \notin Range(token_order)
          BY <4>2 DEF Tokens
        <5>2. Ordered(Remember(token_order, op),
                      Receipted(receipts, {op}, store.version + 1),
                      store.version + 1)
          BY <3>1, <3>2, <5>1, OrderedNext
        <5> QED
          BY <2>1, <4>2, <5>2
      <4> QED
        BY <3>2, <4>1, <4>2 DEF Remembered
    <3>4. \A u : Remembered(u) => Remembered(u)'
      BY <1>2 DEF Remembered, Tokens
    <3> QED
      BY <1>2, <3>3, <3>4 DEF Windowed
  <2> QED
    BY <1>3, <2>1
<1>5. CASE ExecuteGet(call) \/ ExecuteStatus(call) \/ ReplayBatch(call)
  BY <1>3, <1>5 DEF ExecuteGet, ExecuteStatus, ReplayBatch
<1> QED
  BY <1>4, <1>5

(***************************************************************************)
(* The window of tokens that issue_pay trims drops the oldest payments: a  *)
(* token with a receipt that is gone from the stored ledger was paid       *)
(* before every one with a receipt that is still there.                    *)
(***************************************************************************)
THEOREM WindowKeepsNewestAlways ==
  ASSUME RepliesAccepted PROVE Spec => []WindowKeepsNewest
<1>1. Init => Windowed
  BY DEF Init, Windowed, Ordered, ReceiptsInOrder, DroppedAreOlder
<1>2. TypeOK /\ Synchronised /\ Windowed /\ [Next]_vars => Windowed'
  <2> SUFFICES ASSUME TypeOK, Synchronised, Windowed, [Next]_vars PROVE Windowed'
    OBVIOUS
  <2>1. CASE AcceptBatch \/ UNCHANGED vars
    BY <2>1, StaysWindowed DEF AcceptBatch, vars, plugin, memory, requesting
  <2>2. CASE RejectBatch \/ Restart
    BY <2>2, StaysWindowed DEF RejectBatch, Restart
  <2> QED
    BY <2>1, <2>2, CommandWindowed, DeliverWindowed, ExecuteWindowed DEF Next
<1>3. TypeOK /\ Windowed => WindowKeepsNewest
  <2> SUFFICES ASSUME TypeOK, Windowed,
                      NEW kept \in DOMAIN receipts, NEW dropped \in DOMAIN receipts,
                      kept \in Range(store.value.tokens),
                      dropped \notin Range(store.value.tokens)
               PROVE  receipts[kept] > receipts[dropped]
    BY DEF WindowKeepsNewest
  <2>1. PICK i \in DOMAIN store.value.tokens : store.value.tokens[i] = kept
    BY DEF Range
  <2>2. receipts[dropped] < receipts[kept]
    BY <2>1 DEF Windowed, Ordered, DroppedAreOlder
  <2>3. receipts[dropped] \in Nat /\ receipts[kept] \in Nat
    BY DEF TypeOK
  <2> QED
    BY <2>2, <2>3
<1> QED
  BY <1>1, <1>2, <1>3, SynchronisedAlways, TypeCorrect, PTL DEF Spec
=============================================================================
