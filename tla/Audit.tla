------------------------------- MODULE Audit -------------------------------
(***************************************************************************)
(* sources/solaris-audit/src/lib.rs: the bounded history of what players   *)
(* did, and the bounded queue of records in front of it.                   *)
(*                                                                         *)
(* One record at a time is appended with a compare-and-set; the others     *)
(* wait.  "Runtime writes are serialized through compare-and-swap so the   *)
(* in-memory history only advances after the host reports a durable        *)
(* commit."  (lib.rs:4)                                                    *)
(*                                                                         *)
(* A record is the number of its arrival.  Its tick, kind, actor, position *)
(* and detail, and the lookups of /audit over them, are abstracted.        *)
(***************************************************************************)
EXTENDS HostCalls, Sequences, SequencesExt, FiniteSets, Bags

CONSTANTS
  MaxRecords,          \* Settings::maximum_records
  MaxPendingRecords,   \* Settings::maximum_pending_records
  MaxArrivals,         \* bound: the records that arrive
  MaxFaultyVersion,    \* bound: no write fails and no batch is refused once
                       \* this version is stored
  MaxOutstanding       \* bound: requests and answers under way when a record
                       \* arrives or a query is answered

ASSUME SettingsAssumption ==
  MaxRecords \in Nat \ {0} /\ MaxPendingRecords \in Nat \ {0}

ASSUME BoundsAssumption ==
  MaxArrivals \in Nat /\ MaxFaultyVersion \in Nat /\ MaxOutstanding \in Nat

VARIABLES
  records, queue, storage_version, loaded, pending,   \* struct Audit
  store,        \* the record under actions-v1
  arrived,      \* history: how many records were accepted
  log,          \* history: every append that was stored, oldest first
  forgotten,    \* history: records a restart found waiting
  unconfirmed,  \* history: records queued again when it was unknown whether
                \* they were stored
  outbox, calls, answers    \* calls and answers are bags: two equal writes
                            \* are executed and answered twice

plugin == <<records, queue, storage_version, loaded, pending>>
history == <<arrived, log, forgotten, unconfirmed>>
vars == <<plugin, store, history, outbox, calls, answers>>

Read == [type |-> "get"]

WriteOf(update) == [type |-> "cas", request |-> update.request,
                    expected |-> update.request, value |-> update.records]

Newest(rows) ==
  SubSeq(rows, IF Len(rows) > MaxRecords THEN Len(rows) - MaxRecords + 1 ELSE 1, Len(rows))

(* Settings::decode accepts the register. *)
Decodable(rows) == Len(rows) <= MaxRecords

Waiting == ToSet(queue) \cup {u.record : u \in pending}

OutstandingCount == BagCardinality(calls) + BagCardinality(answers)

-----------------------------------------------------------------------------
(* The queue *)

(* Mutant: the history keeps its oldest records. *)
ProcessQueue_Oldest(rows, version, waiting) ==
  LET update == [request |-> version, record |-> Head(waiting),
                 records |-> SubSeq(Append(rows, Head(waiting)), 1,
                                    IF Len(rows) < MaxRecords THEN Len(rows) + 1
                                                              ELSE MaxRecords)]
  IN  IF waiting = <<>>
      THEN queue' = waiting /\ pending' = {} /\ UNCHANGED outbox
      ELSE /\ queue' = Tail(waiting)
           /\ pending' = {update}
           /\ outbox' = outbox \cup {WriteOf(update)}

(* process_queue of a loaded history with nothing pending: the write of    *)
(* the record that has waited longest, named append-v<n> by the version.   *)
ProcessQueue(rows, version, waiting) ==
  LET update == [request |-> version, record |-> Head(waiting),
                 records |-> Newest(Append(rows, Head(waiting)))]
  IN  IF waiting = <<>>
      THEN queue' = waiting /\ pending' = {} /\ UNCHANGED outbox
      ELSE /\ queue' = Tail(waiting)
           /\ pending' = {update}
           /\ outbox' = outbox \cup {WriteOf(update)}

Enqueue ==
  LET waiting == Append(queue, arrived + 1)
  IN  /\ arrived < MaxArrivals /\ OutstandingCount <= MaxOutstanding
      /\ arrived' = arrived + 1
      /\ IF loaded /\ pending = {}
         THEN ProcessQueue(records, storage_version, waiting)
         ELSE queue' = waiting /\ UNCHANGED <<pending, outbox>>
      /\ UNCHANGED <<records, storage_version, loaded, store, log, forgotten,
                     unconfirmed, calls, answers>>

(* append: the record of an event.  A full queue drops it, which changes   *)
(* nothing.                                                                *)
AppendRecord == Len(queue) < MaxPendingRecords /\ Enqueue

(* command: every /audit is answered from memory. *)
Query ==
  /\ OutstandingCount <= MaxOutstanding
  /\ Message \notin outbox
  /\ outbox' = outbox \cup {Message}
  /\ UNCHANGED <<plugin, store, history, calls, answers>>

-----------------------------------------------------------------------------
(* Answers *)

StorageGet(answer) ==
  /\ answer.type = "get"
  /\ IF answer.outcome = "read" /\ Decodable(answer.value)
     THEN /\ records' = answer.value
          /\ storage_version' = answer.version
          /\ loaded' = TRUE
          /\ IF pending = {} THEN ProcessQueue(answer.value, answer.version, queue)
                             ELSE UNCHANGED <<queue, pending, outbox>>
     ELSE loaded' = FALSE /\ UNCHANGED <<records, storage_version, queue, pending, outbox>>
  /\ UNCHANGED unconfirmed

Committed(answer, update) ==
  /\ answer.outcome = "committed"
  /\ records' = update.records
  /\ storage_version' = answer.version
  /\ IF loaded THEN ProcessQueue(update.records, answer.version, queue)
               ELSE pending' = {} /\ UNCHANGED <<queue, outbox>>
  /\ UNCHANGED <<loaded, unconfirmed>>

(* Mutant: the record goes to the end of the queue. *)
NotCommitted_Back(answer, update) ==
  /\ answer.outcome # "committed"
  /\ queue' = Append(queue, update.record)
  /\ pending' = {} /\ loaded' = FALSE
  /\ outbox' = outbox \cup {Read}
  /\ unconfirmed' = IF answer.outcome = "failed" THEN unconfirmed \cup {update.record}
                                                 ELSE unconfirmed
  /\ UNCHANGED <<records, storage_version>>

(* Mutant: the record of a refused write is dropped. *)
NotCommitted_Drops(answer, update) ==
  /\ answer.outcome # "committed"
  /\ pending' = {} /\ loaded' = FALSE
  /\ outbox' = outbox \cup {Read}
  /\ UNCHANGED <<records, storage_version, queue, unconfirmed>>

(* The record waits again, before all others, and the history is reloaded. *)
NotCommitted(answer, update) ==
  /\ answer.outcome # "committed"
  /\ queue' = <<update.record>> \o queue
  /\ pending' = {} /\ loaded' = FALSE
  /\ outbox' = outbox \cup {Read}
  /\ unconfirmed' = IF answer.outcome = "failed" THEN unconfirmed \cup {update.record}
                                                 ELSE unconfirmed
  /\ UNCHANGED <<records, storage_version>>

Ignored(answer) ==
  /\ answer.type = "cas" /\ \A u \in pending : u.request # answer.request
  /\ UNCHANGED <<plugin, unconfirmed, outbox>>

(* storage_cas *)
StorageCas(answer) ==
  \/ \E update \in pending :
        /\ answer.type = "cas" /\ answer.request = update.request
        /\ Committed(answer, update) \/ NotCommitted(answer, update)
  \/ Ignored(answer)

Deliver ==
  \E answer \in BagToSet(answers) :
     /\ answers' = answers (-) SetToBag({answer})
     /\ StorageGet(answer) \/ StorageCas(answer)
     /\ UNCHANGED <<store, arrived, log, forgotten, calls>>

-----------------------------------------------------------------------------
(* The host (external) *)

AcceptBatch ==
  /\ outbox # {}
  /\ calls' = calls (+) SetToBag(Requests(outbox))
  /\ outbox' = {}
  /\ UNCHANGED <<plugin, store, history, answers>>

(* A refused batch, and the plugin's CommandBatchRejected handler.  The    *)
(* batch may have held the pending write or not; when it did not, the      *)
(* write is under way and its record is queued all the same.               *)
RejectBatch ==
  /\ Rejectable(outbox) /\ store.version < MaxFaultyVersion
  /\ outbox' = {} /\ pending' = {}
  /\ queue' = SetToSeq({u.record : u \in pending}) \o queue
  /\ unconfirmed' = unconfirmed \cup {u.record : u \in {w \in pending : WriteOf(w) \notin outbox}}
  /\ UNCHANGED <<records, storage_version, loaded, store, arrived, log, forgotten,
                 calls, answers>>

ExecuteGet(call) ==
  /\ call.type = "get"
  /\ \E outcome \in ReadOutcomes :
        answers' = answers (+) SetToBag({[type |-> "get", outcome |-> outcome,
                                          version |-> store.version, value |-> store.value]})
  /\ UNCHANGED <<store, log>>

ExecuteCas(call) ==
  /\ call.type = "cas"
  /\ \E x \in CasExecutions(store, call.expected, call.value) :
        /\ x.outcome = "failed" => store.version < MaxFaultyVersion
        /\ store' = x.record
        /\ log' = IF x.record = store THEN log ELSE Append(log, Last(call.value))
        /\ answers' = answers (+) SetToBag({[type |-> "cas", request |-> call.request,
                                             outcome |-> x.outcome, version |-> x.record.version]})

Execute ==
  \E call \in BagToSet(calls) :
     /\ calls' = calls (-) SetToBag({call})
     /\ ExecuteGet(call) \/ ExecuteCas(call)
     /\ UNCHANGED <<plugin, arrived, forgotten, unconfirmed, outbox>>

Restart ==
  /\ "restart" \in Faults
  /\ records' = <<>> /\ queue' = <<>> /\ storage_version' = 0
  /\ loaded' = FALSE /\ pending' = {}
  /\ outbox' = {Read} /\ calls' = EmptyBag /\ answers' = EmptyBag
  /\ forgotten' = forgotten \cup Waiting
  /\ UNCHANGED <<store, arrived, log, unconfirmed>>

-----------------------------------------------------------------------------
Init ==
  /\ records = <<>> /\ queue = <<>> /\ storage_version = 0
  /\ loaded = FALSE /\ pending = {}
  /\ store = [version |-> 0, value |-> <<>>]
  /\ arrived = 0 /\ log = <<>> /\ forgotten = {} /\ unconfirmed = {}
  /\ outbox = {Read} /\ calls = EmptyBag /\ answers = EmptyBag

Next == \/ AppendRecord \/ Query \/ Deliver
        \/ AcceptBatch \/ RejectBatch \/ Execute \/ Restart

Spec == Init /\ [][Next]_vars

-----------------------------------------------------------------------------
(* Properties *)

Arrivals == 1 .. arrived

(* An accepted record is stored, waits, or was still waiting at a restart, *)
(* whatever was refused, failed or answered late; and no more wait than    *)
(* the limit and the one a failure puts back.                              *)
NothingLost ==
  /\ Arrivals \subseteq ToSet(log) \cup Waiting \cup forgotten
  /\ Cardinality(pending) + Len(queue) <= MaxPendingRecords + 1

(* The stored history is the newest of everything that was appended, and a *)
(* loaded memory is what was stored at the version it claims: no append    *)
(* replaces another one's.                                                 *)
HistoryIsNewest ==
  /\ store.value = Newest(log)
  /\ loaded => records = Newest(SubSeq(log, 1, storage_version))

(* Records are stored in the order of their arrival, each once, unless it  *)
(* was unknown whether the first write of a repeated one was stored.       *)
OnlyUnconfirmedRepeat ==
  \A i, j \in DOMAIN log :
     i < j => \/ log[i] < log[j]
              \/ log[i] = log[j] /\ log[i] \in unconfirmed
=============================================================================
