------------------------- MODULE PermissionsProofs -------------------------
(***************************************************************************)
(* Theorems about Permissions for any players, nodes, groups, limits,      *)
(* initial registers and faults but one: the host never refuses a batch    *)
(* of chat messages alone (RepliesAccepted).                               *)
(***************************************************************************)
EXTENDS Permissions, TLAPS, FiniteSetTheorems

RepliesAccepted == "reply_rejection" \notin Faults

Updates == [request : Nat, assignments : Tables]
Records == [version : Nat, value : Tables]
Writes == [type : {"cas"}, request : Nat, expected : Nat, value : Tables]
Answers ==
  [type : {"get"}, outcome : {"read", "failed"}, version : Nat, value : Tables]
    \cup [type : {"cas"}, request : Nat, outcome : {"committed", "refused", "failed"},
          version : Nat]

TypeOK ==
  /\ assignments \in Tables /\ storage_version \in Nat
  /\ loaded \in BOOLEAN /\ pending \in SUBSET Updates
  /\ store \in Records /\ refused \in BOOLEAN
  /\ outbox \in SUBSET ({Read, Message} \cup Writes)
  /\ calls \in SUBSET ({Read} \cup Writes)
  /\ answers \in SUBSET Answers

-----------------------------------------------------------------------------
(* The inductive invariant *)

AtMostOne(S) == \A x, y \in S : x = y

(* One request or answer is under way at a time. *)
OneExchange ==
  /\ AtMostOne(Requests(outbox)) /\ AtMostOne(calls) /\ AtMostOne(answers)
  /\ Requests(outbox) # {} => calls = {} /\ answers = {}
  /\ calls # {} => answers = {}

UnderWay == Requests(outbox) \cup calls

MemoryRecord == [version |-> storage_version, value |-> assignments]
Updated(update) == Written(MemoryRecord, update.assignments)

(* The table before the first read, or after an update whose outcome is    *)
(* unknown: only a read is under way.                                      *)
Loading ==
  /\ ~ loaded /\ pending = {}
  /\ UnderWay \subseteq {Read}
  /\ \A a \in answers : /\ a.type = "get"
                        /\ a.version = store.version /\ a.value = store.value

Idle ==
  /\ loaded /\ pending = {}
  /\ UnderWay = {} /\ answers = {}
  /\ store = MemoryRecord

(* The update that is pending is the one under way. *)
Writing ==
  /\ loaded
  /\ \E update \in pending :
        /\ pending = {update} /\ update.request = storage_version
        /\ \/ UnderWay = {WriteOf(update)} /\ answers = {} /\ store = MemoryRecord
           \/ /\ UnderWay = {} /\ answers # {}
              /\ store \in {MemoryRecord, Updated(update)}
              /\ \A a \in answers :
                    /\ a.type = "cas" /\ a.request = update.request
                    /\ a.outcome = "committed" =>
                          store = Updated(update) /\ a.version = store.version

(* The published table was made from what was stored at its version; in a  *)
(* loaded plugin it is that of the memory, unless the host refused the     *)
(* last publication.                                                       *)
Published ==
  /\ store.version \in DOMAIN committed /\ committed[store.version] = store.value
  /\ \A v \in DOMAIN committed :
        v \in Nat /\ v <= store.version /\ committed[v] \in Tables
  /\ \A t \in published : /\ t.version \in DOMAIN committed
                          /\ t.rows = CommandEntries(committed[t.version])
  /\ loaded /\ ~ refused =>
        published = {[version |-> storage_version, rows |-> CommandEntries(assignments)]}

(* Nothing over the limit is stored, remembered or about to be written. *)
WithinLimit ==
  /\ Decodable(store.value)
  /\ loaded => Decodable(assignments)
  /\ \A update \in pending : Decodable(update.assignments)

Synchronised ==
  /\ OneExchange
  /\ Loading \/ Idle \/ Writing
  /\ Published

-----------------------------------------------------------------------------
(* Types *)

LEMMA TableDef ==
  ASSUME NEW t
  PROVE  t \in Tables <=> DOMAIN t \subseteq Players /\ t \in [DOMAIN t -> DOMAIN Groups]
BY DEF Tables

LEMMA EmptyTable == <<>> \in Tables /\ DOMAIN <<>> = {}
<1>1. <<>> \in [{} -> DOMAIN Groups]
  OBVIOUS
<1> QED
  BY <1>1 DEF Tables

(* The tables an update may ask for. *)
SetTable(target, group) ==
  [p \in DOMAIN assignments \cup {target} |-> IF p = target THEN group ELSE assignments[p]]
ClearTable(target) == [p \in DOMAIN assignments \ {target} |-> assignments[p]]

LEMMA UpdateTables ==
  ASSUME assignments \in Tables, NEW target \in Players
  PROVE  /\ \A group \in DOMAIN Groups : SetTable(target, group) \in Tables
         /\ ClearTable(target) \in Tables
<1>1. DOMAIN assignments \subseteq Players /\ assignments \in [DOMAIN assignments -> DOMAIN Groups]
  BY TableDef
<1>2. ASSUME NEW group \in DOMAIN Groups PROVE SetTable(target, group) \in Tables
  <2> PICK t : t = SetTable(target, group)
    OBVIOUS
  <2>1. DOMAIN t \subseteq Players /\ t \in [DOMAIN t -> DOMAIN Groups]
    BY <1>1 DEF SetTable
  <2> QED
    BY <2>1, TableDef
<1>3. ClearTable(target) \in Tables
  <2> PICK t : t = ClearTable(target)
    OBVIOUS
  <2>1. DOMAIN t \subseteq Players /\ t \in [DOMAIN t -> DOMAIN Groups]
    BY <1>1 DEF ClearTable
  <2> QED
    BY <2>1, TableDef
<1> QED
  BY <1>2, <1>3

LEMMA WriteType == ASSUME NEW u \in Updates PROVE WriteOf(u) \in Writes
BY DEF WriteOf, Updates, Writes

LEMMA SaveType ==
  ASSUME TypeOK, NEW table \in Tables, UserCommand(table)
  PROVE  TypeOK'
<1> PICK u : u = [request |-> storage_version, assignments |-> table]
  OBVIOUS
<1>1. u \in Updates /\ WriteOf(u) \in Writes
  BY WriteType DEF Updates, TypeOK
<1>2. /\ pending' \in SUBSET Updates
      /\ outbox' \in SUBSET ({Read, Message} \cup Writes)
  BY <1>1 DEF UserCommand, Save, TypeOK
<1> QED
  BY <1>2 DEF UserCommand, TypeOK, host

LEMMA CommandType ==
  ASSUME TypeOK, Command
  PROVE  TypeOK'
<1>1. ASSUME NEW target \in Players, NEW group \in DOMAIN Groups, Set(target, group)
      PROVE  TypeOK'
  BY <1>1, UpdateTables, SaveType DEF Set, SetTable, TypeOK
<1>2. ASSUME NEW target \in Players, Clear(target)
      PROVE  TypeOK'
  BY <1>2, UpdateTables, SaveType DEF Clear, ClearTable, TypeOK
<1>3. CASE Reply
  BY <1>3 DEF Reply, TypeOK, plugin, host
<1> QED
  BY <1>1, <1>2, <1>3 DEF Command

LEMMA WriteOutcomes ==
  ASSUME NEW record, NEW expected, NEW value,
         NEW x \in CasExecutions(record, expected, value)
  PROVE  /\ x.outcome \in {"committed", "refused", "failed"}
         /\ \/ x.record = record /\ x.outcome # "committed"
            \/ x.record = Written(record, value) /\ record.version = expected
BY DEF CasExecutions, CasOutcomes

LEMMA ExecuteType ==
  ASSUME TypeOK, Execute
  PROVE  TypeOK'
<1> PICK call \in calls :
      /\ calls' = calls \ {call}
      /\ ExecuteGet(call) \/ ExecuteCas(call)
      /\ UNCHANGED <<plugin, published, refused, outbox>>
  BY DEF Execute
<1>1. call \in {Read} \cup Writes
  BY DEF TypeOK
<1>2. CASE ExecuteGet(call)
  <2>1. answers' \in SUBSET Answers /\ UNCHANGED store
    BY <1>2 DEF ExecuteGet, ReadOutcomes, Answers, Records, TypeOK
  <2> QED
    BY <2>1 DEF TypeOK, plugin
<1>3. CASE ExecuteCas(call)
  <2>1. call \in Writes
    BY <1>1, <1>3 DEF ExecuteCas, Read
  <2> PICK x \in CasExecutions(store, call.expected, call.value) :
        /\ store' = x.record
        /\ answers' = answers \cup {[type |-> "cas", request |-> call.request,
                                     outcome |-> x.outcome, version |-> x.record.version]}
    BY <1>3 DEF ExecuteCas
  <2>2. x.record \in Records /\ x.outcome \in {"committed", "refused", "failed"}
    <3>1. store \in Records /\ Written(store, call.value) \in Records
      BY <2>1 DEF Written, Records, Writes, TypeOK
    <3> QED
      BY <3>1, WriteOutcomes
  <2>3. answers' \in SUBSET Answers
    BY <2>1, <2>2 DEF Answers, Writes, Records, TypeOK
  <2> QED
    BY <2>2, <2>3 DEF TypeOK, plugin
<1> QED
  BY <1>2, <1>3

LEMMA DeliverType ==
  ASSUME TypeOK, Deliver
  PROVE  TypeOK'
<1> PICK answer \in answers :
      /\ answers' = answers \ {answer}
      /\ \/ StorageGet(answer)
         \/ \E update \in pending : StorageCas(answer, update)
         \/ Ignored(answer)
      /\ UNCHANGED <<store, committed, calls>>
  BY DEF Deliver
<1>1. answer \in Answers
  BY DEF TypeOK
<1>2. CASE StorageGet(answer)
  BY <1>1, <1>2 DEF StorageGet, Publish, Answers, TypeOK
<1>3. ASSUME NEW update \in pending, StorageCas(answer, update)
      PROVE  TypeOK'
  <2>1. answer.version \in Nat /\ update.assignments \in Tables
    BY <1>1, <1>3 DEF StorageCas, Answers, Updates, TypeOK
  <2> QED
    BY <1>3, <2>1 DEF StorageCas, Publish, TypeOK
<1>4. CASE Ignored(answer)
  BY <1>4 DEF Ignored, TypeOK, plugin
<1> QED
  BY <1>2, <1>3, <1>4

(* Every variable keeps its type. *)
THEOREM TypeCorrect == Spec => []TypeOK
<1>1. Init => TypeOK
  <2> SUFFICES ASSUME Init PROVE TypeOK
    OBVIOUS
  <2>1. store \in Records
    BY StoresAssumption DEF Init, Records
  <2> QED
    BY <2>1, EmptyTable DEF Init, TypeOK
<1>2. TypeOK /\ [Next]_vars => TypeOK'
  <2> SUFFICES ASSUME TypeOK, [Next]_vars PROVE TypeOK'
    OBVIOUS
  <2>1. CASE AcceptBatch
    BY <2>1 DEF AcceptBatch, Requests, Message, TypeOK, plugin, host
  <2>2. CASE RejectBatch
    BY <2>2 DEF RejectBatch, TypeOK, host
  <2>3. CASE Restart
    BY <2>3, EmptyTable DEF Restart, TypeOK
  <2>4. CASE UNCHANGED vars
    BY <2>4 DEF vars, plugin, host, TypeOK
  <2> QED
    BY <2>1, <2>2, <2>3, <2>4, CommandType, DeliverType, ExecuteType DEF Next
<1> QED
  BY <1>1, <1>2, PTL DEF Spec

-----------------------------------------------------------------------------
(* The exchange between plugin and host *)

LEMMA RequestSets ==
  /\ Requests({}) = {} /\ Requests({Read}) = {Read} /\ Requests({Message, Read}) = {Read}
  /\ \A S : Requests(S \cup {Message}) = Requests(S)
  /\ \A S : Requests(S \cup {Message, Read}) = Requests(S) \cup {Read}
  /\ \A S, u : Requests(S \cup {WriteOf(u)}) = Requests(S) \cup {WriteOf(u)}
BY DEF Requests, Message, Read, WriteOf

(* The phase depends on the requests under way, not on where they are. *)
LEMMA SamePhase ==
  ASSUME Synchronised, UNCHANGED <<plugin, host, answers>>, OneExchange',
         UnderWay' = UnderWay
  PROVE  Synchronised'
<1> USE DEF plugin, host
<1>1. Loading => Loading'
  BY DEF Loading
<1>2. Idle => Idle'
  BY DEF Idle, MemoryRecord
<1>3. Writing => Writing'
  BY DEF Writing, MemoryRecord, Updated
<1>4. Published'
  BY DEF Synchronised, Published
<1> QED
  BY <1>1, <1>2, <1>3, <1>4 DEF Synchronised

LEMMA CommandSynchronised ==
  ASSUME TypeOK, Synchronised, Command
  PROVE  Synchronised'
<1>1. ASSUME NEW table, UserCommand(table) PROVE Synchronised'
  <2>1. /\ loaded /\ Save(table)
        /\ UNCHANGED <<assignments, storage_version, loaded, host, calls, answers>>
    BY <1>1 DEF UserCommand
  <2>2. CASE pending = {}
    <3>1. Idle
      BY <2>1, <2>2 DEF Synchronised, Loading, Writing
    <3> PICK u : u = [request |-> storage_version, assignments |-> table]
      OBVIOUS
    <3>2. pending' = {u} /\ outbox' = outbox \cup {WriteOf(u)}
      BY <2>1, <2>2 DEF Save
    <3>3. Requests(outbox) = {} /\ calls = {} /\ answers = {}
      BY <3>1 DEF Idle, UnderWay
    <3>4. Requests(outbox') = {WriteOf(u)} /\ calls' = {} /\ answers' = {}
      BY <2>1, <3>2, <3>3, RequestSets
    <3>5. OneExchange' /\ UnderWay' = {WriteOf(u)}
      BY <3>4 DEF OneExchange, AtMostOne, UnderWay
    <3>6. Writing'
      BY <2>1, <3>1, <3>2, <3>4, <3>5 DEF Writing, Idle, MemoryRecord, host
    <3> QED
      BY <2>1, <3>5, <3>6 DEF Synchronised, Published, host
  <2>3. CASE pending # {}
    <3>1. Requests(outbox') = Requests(outbox) /\ UNCHANGED <<plugin, host, calls, answers>>
      BY <2>1, <2>3, RequestSets DEF Save, plugin
    <3> QED
      BY <3>1, SamePhase DEF OneExchange, AtMostOne, UnderWay, Synchronised
  <2> QED
    BY <2>2, <2>3
<1>2. CASE Reply
  <2>1. Requests(outbox') = Requests(outbox) /\ UNCHANGED <<plugin, host, calls, answers>>
    BY <1>2, RequestSets DEF Reply
  <2> QED
    BY <2>1, SamePhase DEF OneExchange, AtMostOne, UnderWay, Synchronised
<1> QED
  BY <1>1, <1>2 DEF Command, Set, Clear

LEMMA AcceptSynchronised ==
  ASSUME Synchronised, AcceptBatch
  PROVE  Synchronised'
<1>1. Requests(outbox') = {} /\ calls' = calls \cup Requests(outbox)
  BY RequestSets DEF AcceptBatch
<1>2. OneExchange' /\ UnderWay' = UnderWay
  BY <1>1 DEF AcceptBatch, Synchronised, OneExchange, AtMostOne, UnderWay
<1> QED
  BY <1>2, SamePhase DEF AcceptBatch

(* A refused batch held the only request, so clearing the update that       *)
(* waited for it is right.                                                  *)
LEMMA RejectSynchronised ==
  ASSUME RepliesAccepted, Synchronised, RejectBatch
  PROVE  Synchronised'
<1>1. Requests(outbox) # {}
  BY DEF RejectBatch, Rejectable, RepliesAccepted
<1>2. calls = {} /\ answers = {} /\ UnderWay # {}
  BY <1>1 DEF Synchronised, OneExchange, UnderWay
<1>3. /\ Requests(outbox') = {} /\ calls' = {} /\ answers' = {} /\ pending' = {}
      /\ UNCHANGED <<assignments, storage_version, loaded, host>>
  BY <1>2, RequestSets DEF RejectBatch
<1>4. OneExchange' /\ UnderWay' = {}
  BY <1>3 DEF OneExchange, AtMostOne, UnderWay
<1>5. Published'
  BY <1>3 DEF Synchronised, Published, host
<1>6. CASE Loading
  BY <1>3, <1>4, <1>5, <1>6 DEF Loading, Synchronised
<1>7. CASE Writing
  <2>1. store = MemoryRecord /\ loaded
    BY <1>2, <1>7 DEF Writing
  <2>2. Idle'
    BY <1>3, <1>4, <2>1 DEF Idle, MemoryRecord, host
  <2> QED
    BY <1>4, <1>5, <2>2 DEF Synchronised
<1> QED
  BY <1>2, <1>6, <1>7 DEF Synchronised, Idle

(* What the memory became is published, or the last table stays. *)
LEMMA PublishPublished ==
  ASSUME TypeOK, Published, UNCHANGED <<store, committed>>,
         NEW table, NEW version, Publish(table, version),
         store = [version |-> version, value |-> table],
         assignments' = table, storage_version' = version
  PROVE  Published'
<1>1. store.version = version /\ store.value = table
  OBVIOUS
<1>2. \A v \in DOMAIN committed' :
         v \in Nat /\ v <= store'.version /\ committed'[v] \in Tables
  BY DEF Published
<1>3. CASE /\ published' = {[version |-> version, rows |-> CommandEntries(table)]}
           /\ refused' = FALSE
  BY <1>1, <1>2, <1>3 DEF Published
<1>4. CASE refused' = TRUE /\ UNCHANGED published
  BY <1>2, <1>4 DEF Published
<1> QED
  BY <1>3, <1>4 DEF Publish

LEMMA DeliverSynchronised ==
  ASSUME TypeOK, Synchronised, Deliver
  PROVE  Synchronised'
<1> PICK answer \in answers :
      /\ answers' = answers \ {answer}
      /\ \/ StorageGet(answer)
         \/ \E update \in pending : StorageCas(answer, update)
         \/ Ignored(answer)
      /\ UNCHANGED <<store, committed, calls>>
  BY DEF Deliver
<1>1. Requests(outbox) = {} /\ calls = {} /\ answers' = {} /\ UnderWay = {}
  BY DEF Synchronised, OneExchange, AtMostOne, UnderWay
<1>2. CASE Loading
  <2>1. /\ answer.type = "get" /\ answer.version = store.version
        /\ answer.value = store.value /\ ~ loaded /\ pending = {}
    BY <1>2 DEF Loading
  <2>2. StorageGet(answer)
    BY <2>1 DEF StorageCas, Ignored
  <2>3. UNCHANGED <<pending, outbox>>
    BY <2>2 DEF StorageGet
  <2>4. OneExchange' /\ UnderWay' = {}
    BY <1>1, <2>3 DEF OneExchange, AtMostOne, UnderWay
  <2>5. CASE answer.outcome = "read" /\ Decodable(answer.value)
    <3>1. /\ assignments' = store.value /\ storage_version' = store.version /\ loaded'
          /\ Publish(answer.value, answer.version)
      BY <2>1, <2>2, <2>5 DEF StorageGet
    <3>2. Idle'
      BY <1>1, <2>1, <2>3, <2>4, <3>1 DEF Idle, MemoryRecord, TypeOK, Records
    <3>3. store = [version |-> answer.version, value |-> answer.value]
      BY <2>1 DEF TypeOK, Records
    <3>4. Published'
      BY <2>1, <3>1, <3>3, PublishPublished DEF Synchronised
    <3> QED
      BY <2>4, <3>2, <3>4 DEF Synchronised
  <2>6. CASE ~ (answer.outcome = "read" /\ Decodable(answer.value))
    <3>1. ~ loaded' /\ UNCHANGED <<assignments, storage_version, published, refused>>
      BY <2>2, <2>6 DEF StorageGet
    <3>2. Loading'
      BY <1>1, <2>1, <2>3, <2>4, <3>1 DEF Loading
    <3>3. Published'
      BY <3>1 DEF Published, Synchronised
    <3> QED
      BY <2>4, <3>2, <3>3 DEF Synchronised
  <2> QED
    BY <2>5, <2>6
<1>3. CASE Writing
  <2> PICK update \in pending :
        /\ pending = {update} /\ update.request = storage_version
        /\ store \in {MemoryRecord, Updated(update)}
        /\ \A a \in answers :
              /\ a.type = "cas" /\ a.request = update.request
              /\ a.outcome = "committed" =>
                    store = Updated(update) /\ a.version = store.version
    BY <1>3 DEF Writing
  <2>1. StorageCas(answer, update) /\ loaded
    BY <1>3 DEF StorageGet, Ignored, Writing
  <2>2. pending' = {}
    BY <2>1 DEF StorageCas
  <2>3. CASE answer.outcome = "committed"
    <3>1. /\ assignments' = update.assignments /\ storage_version' = store.version
          /\ Publish(update.assignments, answer.version) /\ answer.version = store.version
          /\ outbox' = outbox \cup {Message} /\ loaded'
      BY <2>1, <2>3 DEF StorageCas
    <3>2. Requests(outbox') = {}
      BY <1>1, <3>1, RequestSets
    <3>3. OneExchange' /\ UnderWay' = {}
      BY <1>1, <3>2 DEF OneExchange, AtMostOne, UnderWay
    <3>4. store.value = update.assignments /\ store = Updated(update)
      BY <2>3 DEF Updated, Written
    <3>5. Idle'
      BY <1>1, <2>2, <3>1, <3>3, <3>4 DEF Idle, MemoryRecord, TypeOK, Records
    <3>6. store = [version |-> answer.version, value |-> update.assignments]
      BY <3>1, <3>4 DEF TypeOK, Records
    <3>7. Published'
      BY <3>1, <3>6, PublishPublished DEF Synchronised
    <3> QED
      BY <3>3, <3>5, <3>7 DEF Synchronised
  <2>4. CASE answer.outcome # "committed"
    <3>1. /\ ~ loaded' /\ outbox' = outbox \cup {Message, Read}
          /\ UNCHANGED <<assignments, storage_version, published, refused>>
      BY <2>1, <2>4 DEF StorageCas
    <3>2. Requests(outbox') = {Read}
      BY <1>1, <3>1, RequestSets
    <3>3. OneExchange' /\ UnderWay' = {Read}
      BY <1>1, <3>2 DEF OneExchange, AtMostOne, UnderWay
    <3>4. Loading'
      BY <1>1, <2>2, <3>1, <3>3 DEF Loading
    <3>5. Published'
      BY <3>1 DEF Published, Synchronised
    <3> QED
      BY <3>3, <3>4, <3>5 DEF Synchronised
  <2> QED
    BY <2>3, <2>4
<1> QED
  BY <1>2, <1>3 DEF Synchronised, Idle

(* Executing the only call leaves its answer and nothing else. *)
LEMMA ExecuteSynchronised ==
  ASSUME TypeOK, Synchronised, Execute
  PROVE  Synchronised'
<1> PICK call \in calls :
      /\ calls' = calls \ {call}
      /\ ExecuteGet(call) \/ ExecuteCas(call)
      /\ UNCHANGED <<plugin, published, refused, outbox>>
  BY DEF Execute
<1>1. Requests(outbox) = {} /\ answers = {} /\ calls' = {} /\ UnderWay = {call}
  BY DEF Synchronised, OneExchange, AtMostOne, UnderWay
<1>2. Requests(outbox') = {} /\ UnderWay' = {}
  BY <1>1 DEF UnderWay
<1>3. CASE Loading
  <2>1. call = Read
    BY <1>1, <1>3 DEF Loading
  <2>2. ExecuteGet(call) /\ UNCHANGED <<store, committed>>
    BY <2>1 DEF ExecuteGet, ExecuteCas, Read
  <2> PICK outcome \in ReadOutcomes :
        answers' = {[type |-> "get", outcome |-> outcome,
                     version |-> store.version, value |-> store.value]}
    BY <1>1, <2>2 DEF ExecuteGet
  <2>3. OneExchange'
    BY <1>1, <1>2 DEF OneExchange, AtMostOne
  <2>4. Loading'
    BY <1>2, <1>3, <2>2 DEF Loading, plugin
  <2>5. Published'
    BY <2>2 DEF Published, Synchronised, plugin
  <2> QED
    BY <2>3, <2>4, <2>5 DEF Synchronised
<1>4. CASE Writing
  <2> PICK update \in pending :
        /\ pending = {update} /\ update.request = storage_version
        /\ call = WriteOf(update) /\ store = MemoryRecord
    BY <1>1, <1>4 DEF Writing
  <2>1. ExecuteCas(call)
    BY DEF ExecuteGet, WriteOf
  <2>2. call.value = update.assignments /\ call.request = update.request
    BY DEF WriteOf
  <2> PICK x \in CasExecutions(store, call.expected, call.value) :
        /\ store' = x.record
        /\ committed' = [v \in DOMAIN committed \cup {x.record.version} |->
                           IF v = x.record.version THEN x.record.value ELSE committed[v]]
        /\ answers' = {[type |-> "cas", request |-> call.request,
                        outcome |-> x.outcome, version |-> x.record.version]}
    BY <1>1, <2>1 DEF ExecuteCas
  <2>3. \/ x.record = store /\ x.outcome # "committed"
        \/ x.record = Updated(update)
    BY <2>2, WriteOutcomes DEF Updated
  <2>4. OneExchange'
    BY <1>1, <1>2 DEF OneExchange, AtMostOne
  <2>5. Writing'
    BY <1>2, <1>4, <2>2, <2>3 DEF Writing, plugin, MemoryRecord, Updated
  <2>6. Published'
    <3>1. /\ store.version \in DOMAIN committed /\ committed[store.version] = store.value
          /\ \A v \in DOMAIN committed :
                v \in Nat /\ v <= store.version /\ committed[v] \in Tables
          /\ store.version \in Nat
      BY DEF Synchronised, Published, TypeOK, Records
    <3>2. \/ x.record = store
          \/ x.record.version = store.version + 1 /\ x.record.version \notin DOMAIN committed
      BY <2>3, <3>1 DEF Updated, Written
    <3>3. /\ DOMAIN committed' = DOMAIN committed \cup {x.record.version}
          /\ committed'[x.record.version] = x.record.value
          /\ \A v \in DOMAIN committed : committed'[v] = committed[v]
      BY <3>1, <3>2
    <3>4. x.record.value \in Tables
      BY <2>3 DEF Updated, Written, Updates, Records, TypeOK
    <3>5. \A v \in DOMAIN committed' :
             v \in Nat /\ v <= x.record.version /\ committed'[v] \in Tables
      BY <3>1, <3>2, <3>3, <3>4
    <3>6. \A t \in published' : /\ t.version \in DOMAIN committed'
                                /\ t.rows = CommandEntries(committed'[t.version])
      BY <3>3 DEF Synchronised, Published
    <3> QED
      BY <3>3, <3>5, <3>6 DEF Synchronised, Published, plugin
  <2> QED
    BY <2>4, <2>5, <2>6 DEF Synchronised
<1> QED
  BY <1>1, <1>3, <1>4 DEF Synchronised, Idle

LEMMA RestartSynchronised ==
  ASSUME Synchronised, Restart
  PROVE  Synchronised'
<1>1. Requests(outbox') = {Read} /\ calls' = {} /\ answers' = {} /\ ~ loaded' /\ pending' = {}
  BY RequestSets DEF Restart
<1>2. OneExchange' /\ UnderWay' = {Read}
  BY <1>1 DEF OneExchange, AtMostOne, UnderWay
<1>3. Loading'
  BY <1>1, <1>2 DEF Loading
<1>4. Published'
  BY <1>1 DEF Restart, Synchronised, Published
<1> QED
  BY <1>2, <1>3, <1>4 DEF Synchronised

LEMMA InitSynchronised == Init => Synchronised
<1> SUFFICES ASSUME Init PROVE Synchronised
  OBVIOUS
<1>1. Requests(outbox) = {Read} /\ calls = {} /\ answers = {} /\ ~ loaded /\ pending = {}
  BY RequestSets DEF Init
<1>2. OneExchange /\ UnderWay = {Read}
  BY <1>1 DEF OneExchange, AtMostOne, UnderWay
<1>3. Loading
  BY <1>1, <1>2 DEF Loading
<1>4. store.version \in Nat /\ store.value \in Tables
  BY StoresAssumption DEF Init
<1>5. Published
  BY <1>1, <1>4 DEF Init, Published
<1> QED
  BY <1>2, <1>3, <1>5 DEF Synchronised

(***************************************************************************)
(* One exchange is under way at a time, its kind is told by loaded and     *)
(* pending, and the published table was made from what was stored at its   *)
(* version, which is what a loaded plugin remembers, unless the host       *)
(* refused the last publication.                                           *)
(***************************************************************************)
THEOREM SynchronisedAlways ==
  ASSUME RepliesAccepted PROVE Spec => []Synchronised
<1>1. TypeOK /\ Synchronised /\ [Next]_vars => Synchronised'
  <2> SUFFICES ASSUME TypeOK, Synchronised, [Next]_vars PROVE Synchronised'
    OBVIOUS
  <2>1. CASE UNCHANGED vars
    BY <2>1, SamePhase DEF vars, OneExchange, AtMostOne, UnderWay, Synchronised
  <2> QED
    BY <2>1, CommandSynchronised, DeliverSynchronised, AcceptSynchronised,
       RejectSynchronised, ExecuteSynchronised, RestartSynchronised DEF Next
<1> QED
  BY <1>1, InitSynchronised, TypeCorrect, PTL DEF Spec

-----------------------------------------------------------------------------
(* The three encodings of a table *)

(* The host has rows of a player exactly when the player has an assignment. *)
LEMMA RowsOfPlayer ==
  ASSUME NEW table \in Tables, NEW p \in Players
  PROVE  (\E row \in CommandEntries(table) : row[1] = p) <=> p \in DOMAIN table
<1>1. ASSUME NEW row \in CommandEntries(table), row[1] = p PROVE p \in DOMAIN table
  <2>1. CASE \E n \in Groups[DefaultGroup] : row = <<Everyone, n>>
    BY <1>1, <2>1, SettingsAssumption
  <2>2. CASE \E q \in DOMAIN table : row = <<q>>
    BY <1>1, <2>2
  <2>3. CASE \E q \in DOMAIN table : \E n \in Groups[table[q]] : row = <<q, n>>
    BY <1>1, <2>3
  <2> QED
    BY <1>1, <2>1, <2>2, <2>3 DEF CommandEntries
<1>2. ASSUME p \in DOMAIN table PROVE <<p>> \in CommandEntries(table)
  BY <1>2 DEF CommandEntries
<1>3. <<p>>[1] = p
  OBVIOUS
<1> QED
  BY <1>1, <1>2, <1>3

LEMMA RowsGrant ==
  ASSUME NEW table \in Tables, NEW m
  PROVE  /\ <<Everyone, m>> \in CommandEntries(table) <=> m \in Groups[DefaultGroup]
         /\ \A p \in Players : <<p, m>> \in CommandEntries(table) <=>
                                  p \in DOMAIN table /\ m \in Groups[table[p]]
<1>1. DOMAIN table \subseteq Players
  BY TableDef
<1>2. \A x, y : <<x, m>> # <<y>>
  OBVIOUS
<1>3. \A x, y, n : <<x, m>> = <<y, n>> <=> x = y /\ m = n
  OBVIOUS
<1>4. \A x : <<x, m>> \in CommandEntries(table) <=>
               \/ x = Everyone /\ m \in Groups[DefaultGroup]
               \/ x \in DOMAIN table /\ m \in Groups[table[x]]
  BY <1>2, <1>3 DEF CommandEntries
<1> QED
  BY <1>1, <1>4, SettingsAssumption

(* The nodes of the player's group, found through the rows. *)
LEMMA RowsAllow ==
  ASSUME NEW table \in Tables, NEW p \in Players, NEW n
  PROVE  Allows(CommandEntries(table), p, n) <=>
            {n, Wildcard} \cap Groups[EffectiveGroup(table, p)] # {}
<1>1. CASE p \in DOMAIN table
  <2>1. Allows(CommandEntries(table), p, n) <=>
          \E m \in {n, Wildcard} : <<p, m>> \in CommandEntries(table)
    BY <1>1, RowsOfPlayer DEF Allows
  <2> QED
    BY <1>1, <2>1, RowsGrant DEF EffectiveGroup
<1>2. CASE p \notin DOMAIN table
  <2>1. Allows(CommandEntries(table), p, n) <=>
          \E m \in {n, Wildcard} : <<Everyone, m>> \in CommandEntries(table)
    BY <1>2, RowsOfPlayer DEF Allows
  <2> QED
    BY <1>2, <2>1, RowsGrant DEF EffectiveGroup
<1> QED
  BY <1>1, <1>2

LEMMA EncodingsAgree ==
  ASSUME NEW table \in Tables
  PROVE  Agree(CommandEntries(table), table)
<1> SUFFICES ASSUME NEW p \in Players, NEW n \in Nodes
             PROVE  LET rows == CommandEntries(table)
                    IN  /\ Allows(rows, p, n) <=> HasNode(table, p, n, {})
                        /\ \A c \in Contexts : HasNode(table, p, n, {c}) <=>
                              Allows(rows, p, n) \/ Allows(rows, p, <<n, c>>)
  BY DEF Agree
<1>1. \A m : Allows(CommandEntries(table), p, m) <=>
               {m, Wildcard} \cap Groups[EffectiveGroup(table, p)] # {}
  BY RowsAllow
<1> QED
  BY <1>1 DEF HasNode

(* The host's command admission and /perm check agree on every player, node *)
(* and context, the players whose group grants nothing included; after a    *)
(* refused publication admission is the check of an earlier stored table.   *)
THEOREM AdmissionMatchesCheckAlways ==
  ASSUME RepliesAccepted PROVE Spec => []AdmissionMatchesCheck
<1>1. TypeOK /\ Synchronised => AdmissionMatchesCheck
  <2> SUFFICES ASSUME TypeOK, Synchronised, NEW t \in published
               PROVE  /\ Agree(t.rows, committed[t.version])
                      /\ loaded /\ ~ refused => Agree(t.rows, assignments)
    BY DEF AdmissionMatchesCheck
  <2>1. t.rows = CommandEntries(committed[t.version]) /\ committed[t.version] \in Tables
    BY DEF Synchronised, Published
  <2>2. loaded /\ ~ refused => t.rows = CommandEntries(assignments)
    BY DEF Synchronised, Published
  <2> QED
    BY <2>1, <2>2, EncodingsAgree DEF TypeOK
<1> QED
  BY <1>1, SynchronisedAlways, TypeCorrect, PTL

-----------------------------------------------------------------------------
(* What is stored is within the limit *)

LEMMA UpdateWithinLimit ==
  ASSUME IsFiniteSet(Players), TypeOK, Decodable(assignments), NEW target \in Players
  PROVE  /\ \A group :
               (target \in DOMAIN assignments
                  \/ Cardinality(DOMAIN assignments) < MaxAssignments)
                  => Decodable(SetTable(target, group))
         /\ Decodable(ClearTable(target))
<1>1. IsFiniteSet(DOMAIN assignments)
  BY TableDef, FS_Subset DEF TypeOK
<1>2. Cardinality(DOMAIN assignments) \in Nat /\ MaxAssignments \in Nat
  BY <1>1, FS_CardinalityType, SettingsAssumption
<1>3. \A group : DOMAIN SetTable(target, group) = DOMAIN assignments \cup {target}
  BY DEF SetTable
<1>4. Cardinality(DOMAIN assignments \cup {target}) =
        IF target \in DOMAIN assignments THEN Cardinality(DOMAIN assignments)
                                         ELSE Cardinality(DOMAIN assignments) + 1
  BY <1>1, FS_AddElement
<1>5. DOMAIN ClearTable(target) = DOMAIN assignments \ {target}
  BY DEF ClearTable
<1>6. Cardinality(DOMAIN assignments \ {target}) <= Cardinality(DOMAIN assignments)
      /\ Cardinality(DOMAIN assignments \ {target}) \in Nat
  BY <1>1, FS_Subset, FS_CardinalityType
<1>7. ASSUME NEW group,
             target \in DOMAIN assignments
               \/ Cardinality(DOMAIN assignments) < MaxAssignments
      PROVE  Decodable(SetTable(target, group))
  BY <1>2, <1>3, <1>4, <1>7 DEF Decodable
<1>8. Decodable(ClearTable(target))
  BY <1>2, <1>5, <1>6 DEF Decodable
<1> QED
  BY <1>7, <1>8

LEMMA SaveWithinLimit ==
  ASSUME WithinLimit, NEW table, Decodable(table), UserCommand(table)
  PROVE  WithinLimit'
<1>1. \A u \in pending' : Decodable(u.assignments)
  BY DEF UserCommand, Save, WithinLimit
<1> QED
  BY <1>1 DEF UserCommand, WithinLimit, host, Decodable

LEMMA NextWithinLimit ==
  ASSUME IsFiniteSet(Players), TypeOK, Synchronised, WithinLimit, [Next]_vars
  PROVE  WithinLimit'
<1>1. ASSUME NEW target \in Players, NEW group \in DOMAIN Groups, Set(target, group)
      PROVE  WithinLimit'
  <2>1. loaded /\ UserCommand(SetTable(target, group))
    BY <1>1 DEF Set, UserCommand, SetTable
  <2>2. Decodable(SetTable(target, group))
    BY <1>1, <2>1, UpdateWithinLimit DEF Set, WithinLimit
  <2> QED
    BY <2>1, <2>2, SaveWithinLimit
<1>2. ASSUME NEW target \in Players, Clear(target)
      PROVE  WithinLimit'
  <2>1. loaded /\ UserCommand(ClearTable(target))
    BY <1>2 DEF Clear, UserCommand, ClearTable
  <2>2. Decodable(ClearTable(target))
    BY <2>1, UpdateWithinLimit DEF WithinLimit
  <2> QED
    BY <2>1, <2>2, SaveWithinLimit
<1>3. CASE Reply
  BY <1>3 DEF Reply, WithinLimit, plugin, host, Decodable
<1>4. CASE AcceptBatch
  BY <1>4 DEF AcceptBatch, WithinLimit, plugin, host, Decodable
<1>5. CASE RejectBatch
  BY <1>5 DEF RejectBatch, WithinLimit, host, Decodable
<1>6. CASE Deliver
  <2> PICK answer \in answers :
        /\ \/ StorageGet(answer)
           \/ \E update \in pending : StorageCas(answer, update)
           \/ Ignored(answer)
        /\ UNCHANGED <<store, committed, calls>>
    BY <1>6 DEF Deliver
  <2>1. CASE StorageGet(answer)
    BY <2>1 DEF StorageGet, WithinLimit, Decodable
  <2>2. ASSUME NEW update \in pending, StorageCas(answer, update)
        PROVE  WithinLimit'
    BY <2>2 DEF StorageCas, WithinLimit, Decodable
  <2>3. CASE Ignored(answer)
    BY <2>3 DEF Ignored, WithinLimit, Decodable, plugin
  <2> QED
    BY <2>1, <2>2, <2>3
<1>7. CASE Execute
  <2> PICK call \in calls :
        /\ ExecuteGet(call) \/ ExecuteCas(call)
        /\ UNCHANGED <<plugin, published, refused, outbox>>
    BY <1>7 DEF Execute
  <2>1. CASE ExecuteGet(call)
    BY <2>1 DEF ExecuteGet, WithinLimit, Decodable, plugin
  <2>2. CASE ExecuteCas(call)
    <3>1. call.type = "cas" /\ call \in UnderWay
      BY <2>2 DEF ExecuteCas, UnderWay
    <3> PICK update \in pending : call = WriteOf(update)
      BY <3>1 DEF Synchronised, Loading, Idle, Writing, Read
    <3>2. call.value = update.assignments /\ Decodable(update.assignments)
      BY DEF WriteOf, WithinLimit
    <3> PICK x \in CasExecutions(store, call.expected, call.value) : store' = x.record
      BY <2>2 DEF ExecuteCas
    <3>3. x.record = store \/ x.record = Written(store, call.value)
      BY WriteOutcomes
    <3>4. x.record = store \/ x.record.value = call.value
      BY <3>3 DEF Written
    <3> QED
      BY <3>2, <3>4 DEF WithinLimit, Decodable, plugin
  <2> QED
    BY <2>1, <2>2
<1>8. CASE Restart
  BY <1>8 DEF Restart, WithinLimit, Decodable
<1>9. CASE UNCHANGED vars
  BY <1>9 DEF vars, plugin, host, WithinLimit, Decodable
<1> QED
  BY <1>1, <1>2, <1>3, <1>4, <1>5, <1>6, <1>7, <1>8, <1>9 DEF Next, Command

(* The published grants are those of the assignments stored at their        *)
(* version, of the ones stored now when no update is pending and the last   *)
(* publication was not refused; and nothing over the limit, which the next  *)
(* instance could not load, is ever stored.                                 *)
THEOREM GrantsAreStoredAlways ==
  ASSUME RepliesAccepted, IsFiniteSet(Players) PROVE Spec => []GrantsAreStored
<1>1. Init => WithinLimit
  BY StoresAssumption DEF Init, WithinLimit
<1>2. TypeOK /\ Synchronised /\ WithinLimit /\ [Next]_vars => WithinLimit'
  BY NextWithinLimit
<1>3. TypeOK /\ Synchronised /\ WithinLimit => GrantsAreStored
  <2> SUFFICES ASSUME TypeOK, Synchronised, WithinLimit PROVE GrantsAreStored
    OBVIOUS
  <2>1. ASSUME loaded, pending = {}, ~ refused PROVE \E t \in published : t.version = store.version
    <3>1. Idle
      BY <2>1 DEF Synchronised, Loading, Writing
    <3>2. store.version = storage_version
      BY <3>1 DEF Idle, MemoryRecord
    <3>3. published = {[version |-> storage_version, rows |-> CommandEntries(assignments)]}
      BY <2>1 DEF Synchronised, Published
    <3> QED
      BY <3>2, <3>3
  <2> QED
    BY <2>1 DEF GrantsAreStored, WithinLimit, Synchronised, Published
<1> QED
  BY <1>1, <1>2, <1>3, SynchronisedAlways, TypeCorrect, PTL DEF Spec

-----------------------------------------------------------------------------
(* The table in force *)

(* A table that is published is that of the stored record, the newest there *)
(* is, so the one it replaces is older or has the same rows.                *)
LEMMA DeliverKeepsTable ==
  ASSUME TypeOK, Synchronised, Deliver, NEW t \in published
  PROVE  \E u \in published' : u = t \/ u.version > t.version \/ u.rows = t.rows
<1> PICK answer \in answers :
      /\ \/ StorageGet(answer)
         \/ \E update \in pending : StorageCas(answer, update)
         \/ Ignored(answer)
      /\ UNCHANGED <<store, committed, calls>>
  BY DEF Deliver
<1>1. UnderWay = {}
  BY DEF Synchronised, OneExchange, UnderWay
<1>2. \/ published' = published
      \/ published' = {[version |-> store.version, rows |-> CommandEntries(store.value)]}
  <2>1. CASE Loading
    BY <2>1 DEF Loading, StorageGet, StorageCas, Ignored, Publish
  <2>2. CASE Writing
    <3> PICK update \in pending :
          /\ pending = {update}
          /\ \A a \in answers :
                /\ a.type = "cas" /\ a.request = update.request
                /\ a.outcome = "committed" =>
                      store = Updated(update) /\ a.version = store.version
      BY <1>1, <2>2 DEF Writing
    <3>1. StorageCas(answer, update)
      BY DEF StorageGet, Ignored
    <3>2. CASE answer.outcome = "committed"
      <4>1. /\ \/ published' = published
               \/ published' = {[version |-> answer.version,
                                 rows |-> CommandEntries(update.assignments)]}
            /\ answer.version = store.version /\ store = Updated(update)
        BY <3>1, <3>2 DEF StorageCas, Publish
      <4>2. store.value = update.assignments
        BY <4>1 DEF Updated, Written
      <4> QED
        BY <4>1, <4>2
    <3>3. CASE answer.outcome # "committed"
      BY <3>1, <3>3 DEF StorageCas
    <3> QED
      BY <3>2, <3>3
  <2> QED
    BY <2>1, <2>2 DEF Synchronised, Idle
<1>3. /\ t.version \in Nat /\ store.version \in Nat /\ t.version <= store.version
      /\ t.rows = CommandEntries(committed[t.version])
      /\ committed[store.version] = store.value
  BY DEF Synchronised, Published, TypeOK, Records
<1>4. CASE published' = published
  BY <1>4
<1>5. ASSUME NEW u \in published', u.version = store.version,
             u.rows = CommandEntries(store.value)
      PROVE  u.version > t.version \/ u.rows = t.rows
  BY <1>3, <1>5
<1>6. CASE published' = {[version |-> store.version, rows |-> CommandEntries(store.value)]}
  BY <1>5, <1>6
<1> QED
  BY <1>2, <1>4, <1>6

(* README.md: "The last accepted assignments remain in force while          *)
(* reloading": published grants give way to newer ones only, or to none     *)
(* when another instance starts.                                            *)
THEOREM LastTableStaysInForce ==
  ASSUME RepliesAccepted PROVE Spec => LastTableInForce
<1>1. TypeOK /\ Synchronised /\ [Next]_vars =>
        [\A t \in published : published' = {} \/ \E u \in published' :
            u = t \/ u.version > t.version \/ u.rows = t.rows]_vars
  <2> SUFFICES ASSUME TypeOK, Synchronised, Next, NEW t \in published,
                      published' # {}
               PROVE  \E u \in published' :
                         u = t \/ u.version > t.version \/ u.rows = t.rows
    OBVIOUS
  <2>1. CASE Deliver
    BY <2>1, DeliverKeepsTable
  <2>2. CASE ~ Deliver
    <3>1. published' = published
      BY <2>2 DEF Next, Command, Set, Clear, UserCommand, Reply, AcceptBatch,
                  RejectBatch, Execute, Restart, host
    <3> QED
      BY <3>1
  <2> QED
    BY <2>1, <2>2
<1> QED
  BY <1>1, SynchronisedAlways, TypeCorrect, PTL DEF Spec, LastTableInForce
=============================================================================
