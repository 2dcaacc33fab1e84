------------------------------ MODULE MCAudit ------------------------------
(***************************************************************************)
(* Small instance of Audit: four records, a history of two and a queue of *)
(* one, so that the history is trimmed, the queue is full and a failure    *)
(* puts one more in front of it.                                           *)
(***************************************************************************)
EXTENDS Audit
=============================================================================
