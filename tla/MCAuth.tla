------------------------------ MODULE MCAuth -------------------------------
(***************************************************************************)
(* Small instance of Auth: two sessions of one account, which race for it  *)
(* or follow one another; it is new or unreadable at first.                *)
(***************************************************************************)
EXTENDS Auth

CONSTANTS s1, s2, ann, p, q, garbage

OneAccount == [s \in {s1, s2} |-> ann]

NewOrUnreadable == {{}, {garbage}}
=============================================================================
