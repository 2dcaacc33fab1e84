---------------------------- MODULE Permissions ----------------------------
(***************************************************************************)
(* sources/solaris-permissions/src/lib.rs: the group of every player, and  *)
(* the table of command grants the host admits commands by.                *)
(*                                                                         *)
(* /perm user writes one register of assignments with a compare-and-set    *)
(* against the version in memory.  A confirmed write and every successful  *)
(* read become the memory, and the whole grant table is published from it. *)
(* The host may refuse the publication: README.md: "rejected updates       *)
(* retain the previous table".  Before the first read nothing is published *)
(* and managed commands stay denied.                                       *)
(*                                                                         *)
(* Every read answers, whatever its request id, and only one is under way, *)
(* so the counter behind load-<n> and reload-<n> is left out.              *)
(***************************************************************************)
EXTENDS HostCalls, FiniteSets

CONSTANTS
  Players,
  Nodes,            \* the configured and asked-for ones; node@context is the
                    \* pair <<node, context>>
  Contexts,
  Wildcard,         \* the node "*"
  Everyone,         \* the identity "*" of the default grants
  Groups,           \* the configured groups: group -> set of nodes
  DefaultGroup, MaxAssignments,
  InitialStores,    \* the registers an instance may find at first start
  MaxVersion,       \* bound: no update is started at this version
  MaxOutstanding    \* bound: calls and answers under way when one starts

Tables == UNION {[S -> DOMAIN Groups] : S \in SUBSET Players}

(* Settings::parse accepts the configuration. *)
ASSUME SettingsAssumption ==
  /\ Wildcard \in Nodes /\ Everyone \notin Players
  /\ \A g \in DOMAIN Groups : Groups[g] \subseteq Nodes
  /\ DefaultGroup \in DOMAIN Groups
  /\ MaxAssignments \in Nat \ {0}

ASSUME BoundsAssumption == MaxVersion \in Nat /\ MaxOutstanding \in Nat

VARIABLES
  assignments, storage_version, loaded, pending,    \* struct Permissions
  store,       \* the record under assignments-v1
  published,   \* the grant table in force, if any: its rows, and the version
               \* of the memory it was made from
  refused,     \* history: the host refused the last publication
  committed,   \* history: version -> the assignments stored at it
  outbox, calls, answers

plugin == <<assignments, storage_version, loaded, pending>>
host == <<store, published, refused, committed>>
vars == <<plugin, host, outbox, calls, answers>>

-----------------------------------------------------------------------------
(* Data *)

(* decode_assignments accepts the register. *)
Decodable(table) == Cardinality(DOMAIN table) <= MaxAssignments

ASSUME StoresAssumption ==
  InitialStores \subseteq {r \in [version: Nat, value: Tables] : Decodable(r.value)}

EffectiveGroup(table, p) == IF p \in DOMAIN table THEN table[p] ELSE DefaultGroup

(* What /perm check answers, for the context given, if any. *)
HasNode(table, p, n, context) ==
  LET nodes == Groups[EffectiveGroup(table, p)]
  IN  \/ Wildcard \in nodes
      \/ \E c \in context : <<n, c>> \in nodes
      \/ n \in nodes

(* Mutant: no row for an assignment as such. *)
CommandEntries_NoIdentity(table) ==
  {<<Everyone, n>> : n \in Groups[DefaultGroup]}
    \cup UNION {{<<p, n>> : n \in Groups[table[p]]} : p \in DOMAIN table}

(* The rows to publish: the default grants, and for every assignment a row *)
(* of its own and one for each of its nodes.                               *)
CommandEntries(table) ==
  {<<Everyone, n>> : n \in Groups[DefaultGroup]}
    \cup {<<p>> : p \in DOMAIN table}
    \cup UNION {{<<p, n>> : n \in Groups[table[p]]} : p \in DOMAIN table}

(* The host's admission of a command that needs node n: the rows of the    *)
(* player if there are any, those of everyone otherwise.                   *)
Allows(rows, p, n) ==
  LET identity == IF \E row \in rows : row[1] = p THEN p ELSE Everyone
  IN  \E m \in {n, Wildcard} : <<identity, m>> \in rows

Read == [type |-> "get"]

WriteOf(update) == [type |-> "cas", request |-> update.request,
                    expected |-> update.request, value |-> update.assignments]

(* publish: all rows or, if the host refuses them, none; the plugin only   *)
(* logs the refusal.                                                       *)
Publish(table, version) ==
  \/ /\ published' = {[version |-> version, rows |-> CommandEntries(table)]}
     /\ refused' = FALSE
  \/ /\ "publication_refusal" \in Faults
     /\ refused' = TRUE
     /\ UNCHANGED published

-----------------------------------------------------------------------------
(* Commands *)

CanWrite == /\ store.version < MaxVersion
            /\ Cardinality(calls) + Cardinality(answers) <= MaxOutstanding

(* Mutant: save without its check that no other update is committing. *)
Save_Unguarded(table) ==
  LET update == [request |-> storage_version, assignments |-> table]
  IN  pending' = {update} /\ outbox' = outbox \cup {WriteOf(update)}

(* save: one update at a time, its request save-v<n> named by the version. *)
Save(table) ==
  IF pending = {}
  THEN LET update == [request |-> storage_version, assignments |-> table]
       IN  pending' = {update} /\ outbox' = outbox \cup {WriteOf(update)}
  ELSE outbox' = outbox \cup {Message} /\ UNCHANGED pending

UserCommand(table) ==
  /\ CanWrite
  /\ loaded
  /\ Save(table)
  /\ UNCHANGED <<assignments, storage_version, loaded, host, calls, answers>>

(* /perm user set *)
Set(target, group) ==
  /\ target \in DOMAIN assignments \/ Cardinality(DOMAIN assignments) < MaxAssignments
  /\ UserCommand([p \in DOMAIN assignments \cup {target} |->
                    IF p = target THEN group ELSE assignments[p]])

(* /perm user clear *)
Clear(target) ==
  UserCommand([p \in DOMAIN assignments \ {target} |-> assignments[p]])

(* /perm groups, check and list, and everything refused with a message. *)
Reply ==
  /\ Message \notin outbox
  /\ outbox' = outbox \cup {Message}
  /\ UNCHANGED <<plugin, host, calls, answers>>

-----------------------------------------------------------------------------
(* Answers *)

(* Mutant: a read that fails publishes the default grants. *)
StorageGet_Fallback(answer) ==
  /\ answer.type = "get"
  /\ IF answer.outcome = "read" /\ Decodable(answer.value)
     THEN /\ assignments' = answer.value
          /\ storage_version' = answer.version
          /\ loaded' = TRUE
          /\ Publish(answer.value, answer.version)
     ELSE /\ loaded' = FALSE
          /\ Publish(<<>>, storage_version)
          /\ UNCHANGED <<assignments, storage_version>>
  /\ UNCHANGED <<pending, outbox>>

(* storage_get *)
StorageGet(answer) ==
  /\ answer.type = "get"
  /\ IF answer.outcome = "read" /\ Decodable(answer.value)
     THEN /\ assignments' = answer.value
          /\ storage_version' = answer.version
          /\ loaded' = TRUE
          /\ Publish(answer.value, answer.version)
     ELSE /\ loaded' = FALSE
          /\ UNCHANGED <<assignments, storage_version, published, refused>>
  /\ UNCHANGED <<pending, outbox>>

(* storage_cas, for the write that is awaited. *)
StorageCas(answer, update) ==
  /\ answer.type = "cas" /\ answer.request = update.request
  /\ pending' = {}
  /\ IF answer.outcome = "committed"
     THEN /\ assignments' = update.assignments
          /\ storage_version' = answer.version
          /\ Publish(update.assignments, answer.version)
          /\ outbox' = outbox \cup {Message}
          /\ UNCHANGED loaded
     ELSE /\ loaded' = FALSE
          /\ outbox' = outbox \cup {Message, Read}
          /\ UNCHANGED <<assignments, storage_version, published, refused>>

Ignored(answer) ==
  /\ answer.type = "cas" /\ \A u \in pending : u.request # answer.request
  /\ UNCHANGED <<plugin, published, refused, outbox>>

Deliver ==
  \E answer \in answers :
     /\ answers' = answers \ {answer}
     /\ \/ StorageGet(answer)
        \/ \E update \in pending : StorageCas(answer, update)
        \/ Ignored(answer)
     /\ UNCHANGED <<store, committed, calls>>

-----------------------------------------------------------------------------
(* The host (external) *)

AcceptBatch ==
  /\ outbox # {}
  /\ calls' = calls \cup Requests(outbox)
  /\ outbox' = {}
  /\ UNCHANGED <<plugin, host, answers>>

(* Mutant: a refused batch leaves the update that waited for it. *)
RejectBatch_Waits ==
  /\ Rejectable(outbox)
  /\ outbox' = {}
  /\ UNCHANGED <<plugin, host, calls, answers>>

(* A refused batch, and the plugin's CommandBatchRejected handler. *)
RejectBatch ==
  /\ Rejectable(outbox)
  /\ outbox' = {} /\ pending' = {}
  /\ UNCHANGED <<assignments, storage_version, loaded, host, calls, answers>>

ExecuteGet(call) ==
  /\ call.type = "get"
  /\ \E outcome \in ReadOutcomes :
        answers' = answers \cup {[type |-> "get", outcome |-> outcome,
                                  version |-> store.version, value |-> store.value]}
  /\ UNCHANGED <<store, committed>>

ExecuteCas(call) ==
  /\ call.type = "cas"
  /\ \E x \in CasExecutions(store, call.expected, call.value) :
        /\ store' = x.record
        /\ committed' = [v \in DOMAIN committed \cup {x.record.version} |->
                           IF v = x.record.version THEN x.record.value ELSE committed[v]]
        /\ answers' = answers \cup {[type |-> "cas", request |-> call.request,
                                     outcome |-> x.outcome, version |-> x.record.version]}

Execute ==
  \E call \in calls :
     /\ calls' = calls \ {call}
     /\ ExecuteGet(call) \/ ExecuteCas(call)
     /\ UNCHANGED <<plugin, published, refused, outbox>>

(* Another instance starts.  The host may go on with the last table, or    *)
(* with none until the first read.                                         *)
Restart ==
  /\ "restart" \in Faults
  /\ assignments' = <<>> /\ storage_version' = 0 /\ loaded' = FALSE /\ pending' = {}
  /\ outbox' = {Read} /\ calls' = {} /\ answers' = {}
  /\ published' \in {published, {}}
  /\ UNCHANGED <<store, committed, refused>>

-----------------------------------------------------------------------------
Init ==
  /\ assignments = <<>> /\ storage_version = 0 /\ loaded = FALSE /\ pending = {}
  /\ store \in InitialStores
  /\ published = {} /\ refused = FALSE
  /\ committed = [v \in {store.version} |-> store.value]
  /\ outbox = {Read} /\ calls = {} /\ answers = {}

Command == \/ \E target \in Players, group \in DOMAIN Groups : Set(target, group)
           \/ \E target \in Players : Clear(target)
           \/ Reply

Next == Command \/ Deliver \/ AcceptBatch \/ RejectBatch \/ Execute \/ Restart

Spec == Init /\ [][Next]_vars

(* The host decides on every batch, executes every call and delivers every *)
(* answer.                                                                 *)
FairSpec == Spec /\ WF_vars(AcceptBatch) /\ WF_vars(Execute) /\ WF_vars(Deliver)

-----------------------------------------------------------------------------
(* Properties *)

(* The grants in force were stored: those of the version they were made    *)
(* from, never of an update that was refused, lost or replaced; when no    *)
(* update is pending, those of the assignments stored now, unless the host *)
(* refused to publish them; and what is stored is within the limit, so     *)
(* that the next instance has grants too.                                  *)
GrantsAreStored ==
  /\ Decodable(store.value)
  /\ \A t \in published : t.rows = CommandEntries(committed[t.version])
  /\ loaded /\ pending = {} /\ ~ refused => \E t \in published : t.version = store.version

(* Admission by these rows is /perm check of this table; a context grants  *)
(* the nodes of the context besides.                                       *)
Agree(rows, table) ==
  \A p \in Players, n \in Nodes :
     /\ Allows(rows, p, n) <=> HasNode(table, p, n, {})
     /\ \A c \in Contexts : HasNode(table, p, n, {c}) <=>
                               Allows(rows, p, n) \/ Allows(rows, p, <<n, c>>)

(* Command admission and /perm check agree on every player and node, also  *)
(* for a player whose group grants nothing: publish, command_entries and   *)
(* has_node are three encodings of one table.  A publication the host      *)
(* refused leaves them apart until the next one, and then admission is     *)
(* still the check of one stored table as a whole.                         *)
AdmissionMatchesCheck ==
  \A t \in published : /\ Agree(t.rows, committed[t.version])
                       /\ loaded /\ ~ refused => Agree(t.rows, assignments)

(* README.md: "The last accepted assignments remain in force while         *)
(* reloading": a player keeps the published grants until newer assignments *)
(* replace them.  Only a restart may drop the table.                       *)
LastTableInForce ==
  [][\A t \in published : published' = {} \/ \E u \in published' :
        u = t \/ u.version > t.version \/ u.rows = t.rows]_vars

(* An update that makes every other one wait is settled. *)
UpdateEnds == pending # {} ~> pending = {}
=============================================================================
