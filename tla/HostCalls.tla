----------------------------- MODULE HostCalls -----------------------------
(***************************************************************************)
(* What the plugins in src/ rely on from the Solaris host (external code:  *)
(* no part of the host is in the repository).                              *)
(*                                                                         *)
(*   - The commands one callback returns are one batch.  Server admission  *)
(*     accepts the whole batch or refuses it, and a refusal is reported    *)
(*     by CommandBatchRejected, which names no request, before any other   *)
(*     callback.                                                           *)
(*   - An accepted storage request is executed later, and its answer       *)
(*     delivered later still, in any order.                                *)
(*   - Storage is versioned.  A compare-and-set commits only against the   *)
(*     version it names; a "failed" answer leaves it unknown whether it    *)
(*     committed.                                                          *)
(*                                                                         *)
(* An Option<T> of the Rust code is a set of at most one element.  The     *)
(* version 0 stands for a key that was never written (None).               *)
(***************************************************************************)
EXTENDS Integers

CONSTANT Faults       \* what may go wrong in this instance, see FaultKinds

(***************************************************************************)
(* batch_rejection    admission may refuse a batch holding a host request  *)
(* reply_rejection    it may also refuse a batch that only replies; Towns  *)
(*                    counts its queries and timers among the replies      *)
(* uncertain_write    a write may be answered "failed"                     *)
(* read_failure       a read may be answered "failed"                      *)
(* malformed_receipt  a committed operation may carry another payload      *)
(* zone_refusal       a zone command may be answered "refused"             *)
(* publication_refusal   a table of grants may be refused, and the last    *)
(*                    one stays in force                                   *)
(* hash_failure       a password may come back without a usable hash       *)
(* restart            the plugin may be dropped and instantiated again     *)
(***************************************************************************)
FaultKinds == {"batch_rejection", "reply_rejection", "uncertain_write",
               "read_failure", "malformed_receipt", "zone_refusal",
               "publication_refusal", "hash_failure", "restart"}

ASSUME FaultsAssumption == Faults \subseteq FaultKinds

(* A chat message; nothing but its presence in a batch matters here. *)
Message == [type |-> "message"]

Requests(batch) == {c \in batch : c.type # "message"}

(* Whether admission may refuse this batch. *)
Rejectable(batch) ==
  \/ "batch_rejection" \in Faults /\ Requests(batch) # {}
  \/ "reply_rejection" \in Faults /\ batch # {}

(* The stored record after a write of value. *)
Written(record, value) == [version |-> record.version + 1, value |-> value]

(***************************************************************************)
(* What executing a compare-and-set may do: the stored record it leaves,   *)
(* which is the new one or the one there was, and the outcome it is        *)
(* answered with.                                                          *)
(***************************************************************************)
CasOutcomes(record, expected, new) ==
  IF record.version = expected
  THEN {[record |-> new, outcome |-> "committed"]}
         \cup IF "uncertain_write" \in Faults
              THEN {[record |-> new, outcome |-> "failed"],
                    [record |-> record, outcome |-> "failed"]}
              ELSE {}
  ELSE {[record |-> record, outcome |-> "refused"]}

CasExecutions(record, expected, value) ==
  CasOutcomes(record, expected, Written(record, value))

(* What a read may be answered with. *)
ReadOutcomes ==
  {"read"} \cup IF "read_failure" \in Faults THEN {"failed"} ELSE {}
=============================================================================
