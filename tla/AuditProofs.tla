----------------------------- MODULE AuditProofs -----------------------------
(***************************************************************************)
(* Theorems about Audit for any limits, bounds and faults.                 *)
(*                                                                         *)
(* The records that wait form one line, the pending one first (Line); a    *)
(* refusal or a failure puts the pending record back without moving it.    *)
(* log and storage_version tell what was stored; the invariant says how    *)
(* far the memory may be behind and what writes and answers are left.      *)
(***************************************************************************)
EXTENDS Audit, TLAPS, FiniteSetTheorems, SequenceTheorems

Rows == Seq(Nat)

NonEmpty == Rows \ {<<>>}

Updates == [request : Nat, record : Nat, records : NonEmpty]
Writes == [type : {"cas"}, request : Nat, expected : Nat, value : NonEmpty]
ReadAnswers == [type : {"get"}, outcome : {"read", "failed"}, version : Nat, value : Rows]
WriteAnswers == [type : {"cas"}, request : Nat, outcome : {"committed", "refused", "failed"},
                 version : Nat]

TypeOK ==
  /\ records \in Rows /\ queue \in Rows
  /\ storage_version \in Nat /\ loaded \in BOOLEAN
  /\ pending \subseteq Updates /\ \A u, w \in pending : u = w
  /\ store \in [version : Nat, value : Rows]
  /\ arrived \in Nat /\ log \in Rows
  /\ outbox \subseteq {Message, Read} \cup Writes
  /\ IsABag(calls) /\ BagToSet(calls) \subseteq {Read} \cup Writes
  /\ IsABag(answers) /\ BagToSet(answers) \subseteq ReadAnswers \cup WriteAnswers

-----------------------------------------------------------------------------
(* The inductive invariant *)

(* The records that wait, in the order they will be written. *)
Line == SetToSeq({u.record : u \in pending}) \o queue

(* What was stored at version n. *)
Stored(n) == Newest(SubSeq(log, 1, n))

Memory ==
  /\ store.version = Len(log) /\ store.value = Newest(log)
  /\ storage_version <= Len(log)
  /\ loaded => records = Stored(storage_version)

(* The pending update is the first of the line, made from the memory. *)
Pending ==
  \A u \in pending :
     /\ loaded /\ u.request = storage_version
     /\ u.records = Newest(Append(Stored(u.request), u.record))

(* The write or the answer that follows the memory has the first of the    *)
(* line to store.                                                          *)
FirstIs(record) == Line # <<>> /\ Head(Line) = record

WritesUnderWay == {c \in outbox \cup BagToSet(calls) : c.type = "cas"}

WriteSound(w) ==
  /\ w.expected = w.request /\ w.request <= storage_version
  /\ w.value = Newest(Append(Stored(w.request), Last(w.value)))
  /\ w.request = storage_version => FirstIs(Last(w.value))

(* The log is ahead of the memory by one append at most, which is that of  *)
(* the first of the line; or nothing was read since a restart.             *)
AheadOf(version) ==
  /\ version <= Len(log) /\ Len(log) <= version + 1
  /\ Len(log) = version + 1 => FirstIs(log[Len(log)])

Behind ==
  \/ AheadOf(storage_version)
  \/ ~ loaded /\ WritesUnderWay = {}

WriteAnswerSound(a) ==
  /\ a.request <= storage_version
  /\ a.request = storage_version => Line # <<>>
  /\ a.outcome = "committed" => a.version = a.request + 1 /\ a.version <= Len(log)

ReadAnswerSound(a) ==
  /\ storage_version <= a.version /\ AheadOf(a.version)
  /\ a.value = Stored(a.version)

Messages ==
  /\ \A w \in WritesUnderWay : WriteSound(w)
  /\ \A a \in BagToSet(answers) : IF a.type = "cas" THEN WriteAnswerSound(a)
                                                    ELSE ReadAnswerSound(a)

(* Of one kind of request, there is none, or it is in the batch, accepted, *)
(* or answered.                                                            *)
None(O, C, A) == O = {} /\ C = {} /\ A = {}
InBatch(O, C, A) == C = {} /\ A = {} /\ \E x \in O : O = {x}
Accepted(O, C, A) == O = {} /\ A = {} /\ \E x \in C : C = {x} /\ calls[x] = 1
Answered(O, C, A) == O = {} /\ C = {} /\ \E x \in A : A = {x} /\ answers[x] = 1

ReadsIn(S) == {x \in S : x.type = "get"}

(* One read is under way, which the memory waits for. *)
OneRead ==
  LET O == ReadsIn(outbox)
      C == ReadsIn(BagToSet(calls))
      A == ReadsIn(BagToSet(answers))
  IN  \/ None(O, C, A)
      \/ /\ \/ InBatch(O, C, A) \/ Accepted(O, C, A) \/ Answered(O, C, A)
         /\ ~ loaded /\ pending = {}

At(S) == {x \in S : x.type = "cas" /\ x.request = storage_version}

(* Unless it is unconfirmed, the first of the line is written once and not *)
(* yet stored, or stored and answered.                                     *)
OneWrite ==
  LET O == At(outbox)
      C == At(BagToSet(calls))
      A == At(BagToSet(answers))
  IN  Line # <<>> /\ Head(Line) \notin unconfirmed =>
        \/ /\ IF pending = {} THEN None(O, C, A) ELSE InBatch(O, C, A) \/ Accepted(O, C, A)
           /\ Head(Line) \notin ToSet(log)
        \/ pending # {} /\ Answered(O, C, A) /\ \A a \in A : a.outcome # "refused"

(* Records are stored in the order of their arrival. *)
Ordered ==
  /\ \A i, j \in DOMAIN Line : i < j => Line[i] < Line[j]
  /\ \A i \in DOMAIN Line : Line[i] <= arrived
  /\ \A i \in DOMAIN log : log[i] <= arrived /\ (Line # <<>> => log[i] <= Head(Line))

Sound ==
  /\ Memory /\ Pending /\ Behind /\ Messages /\ OneRead /\ OneWrite /\ Ordered
  /\ Len(Line) <= MaxPendingRecords + 1
  /\ Arrivals \subseteq ToSet(log) \cup ToSet(Line) \cup forgotten
  /\ OnlyUnconfirmedRepeat

-----------------------------------------------------------------------------
(* Bags *)

LEMMA NoCalls == IsABag(EmptyBag) /\ BagToSet(EmptyBag) = {}
BY DEF EmptyBag, SetToBag, IsABag, BagToSet

(* The bag with one more of each element of S. *)
LEMMA BagAdd ==
  ASSUME NEW B, IsABag(B), NEW S
  PROVE  LET C == B (+) SetToBag(S)
         IN  /\ IsABag(C) /\ BagToSet(C) = BagToSet(B) \cup S
             /\ \A x \in BagToSet(B) \ S : C[x] = B[x]
             /\ \A x \in S \ BagToSet(B) : C[x] = 1
<1> PICK C : C = B (+) SetToBag(S)
  OBVIOUS
<1>1. C = [e \in DOMAIN B \cup S |-> (IF e \in DOMAIN B THEN B[e] ELSE 0)
                                       + (IF e \in S THEN 1 ELSE 0)]
  BY DEF (+), SetToBag
<1>2. \A e \in DOMAIN B : B[e] \in Nat /\ B[e] > 0
  BY DEF IsABag
<1>3. DOMAIN C = DOMAIN B \cup S /\ \A e \in DOMAIN C : C[e] \in Nat /\ C[e] > 0
  <2>1. DOMAIN C = DOMAIN B \cup S
    BY <1>1
  <2>2. ASSUME NEW e \in DOMAIN C PROVE C[e] \in Nat /\ C[e] > 0
    <3>1. CASE e \in DOMAIN B
      <4>1. B[e] \in Nat /\ B[e] > 0 /\ C[e] = B[e] + (IF e \in S THEN 1 ELSE 0)
        BY <1>1, <1>2, <3>1
      <4> QED
        BY <4>1
    <3>2. CASE e \notin DOMAIN B
      BY <1>1, <2>1, <3>2
    <3> QED
      BY <3>1, <3>2
  <2> QED
    BY <2>1, <2>2
<1>4. C \in [DOMAIN C -> {n \in Nat : n > 0}]
  BY <1>1, <1>3
<1> QED
  BY <1>1, <1>2, <1>3, <1>4 DEF IsABag, BagToSet

(* The bag with one x less. *)
LEMMA BagRemove ==
  ASSUME NEW B, IsABag(B), NEW x \in BagToSet(B)
  PROVE  LET C == B (-) SetToBag({x})
         IN  /\ IsABag(C) /\ BagToSet(C) \subseteq BagToSet(B)
             /\ BagToSet(B) \ {x} \subseteq BagToSet(C)
             /\ \A y \in BagToSet(B) \ {x} : C[y] = B[y]
             /\ B[x] = 1 => BagToSet(C) = BagToSet(B) \ {x}
<1> PICK C : C = B (-) SetToBag({x})
  OBVIOUS
<1> PICK R : R = [e \in DOMAIN B |-> IF e = x THEN B[e] - 1 ELSE B[e]]
  OBVIOUS
<1>1. C = [e \in {d \in DOMAIN R : R[d] > 0} |-> R[e]]
  <2>1. R = [e \in DOMAIN B |-> IF e \in DOMAIN SetToBag({x}) THEN B[e] - SetToBag({x})[e]
                                                             ELSE B[e]]
    BY DEF SetToBag
  <2> QED
    BY <2>1 DEF (-)
<1>2. \A e \in DOMAIN B : B[e] \in Nat /\ B[e] > 0
  BY DEF IsABag
<1>3. \A e \in DOMAIN C : e \in DOMAIN B /\ C[e] \in Nat /\ C[e] > 0
  <2>1. \A e \in DOMAIN R : e \in DOMAIN B /\ R[e] \in Int
    BY <1>2
  <2>2. \A e \in DOMAIN C : e \in DOMAIN R /\ R[e] > 0 /\ C[e] = R[e]
    BY <1>1
  <2> QED
    BY <2>1, <2>2
<1>4. C \in [DOMAIN C -> {n \in Nat : n > 0}]
  BY <1>1, <1>3
<1> QED
  BY <1>1, <1>2, <1>3, <1>4 DEF IsABag, BagToSet

-----------------------------------------------------------------------------
(* Sequences *)

LEMMA LineOf ==
  ASSUME NEW P, NEW q \in Rows
  PROVE  /\ P = {} => SetToSeq({u.record : u \in P}) \o q = q
         /\ \A u : P = {u} => SetToSeq({w.record : w \in P}) \o q = <<u.record>> \o q
<1>1. SetToSeq({}) = <<>>
  <2>1. Cardinality({}) = 0
    BY FS_EmptySet
  <2>2. SetToSeq({}) = CHOOSE f \in [1 .. 0 -> {}] : IsInjective(f)
    BY <2>1 DEF SetToSeq
  <2>3. \A f \in [1 .. 0 -> {}] : f = <<>>
    <3>1. 1 .. 0 = {}
      OBVIOUS
    <3> QED
      BY <3>1
  <2>4. <<>> \in [1 .. 0 -> {}] /\ IsInjective(<<>>)
    BY DEF IsInjective
  <2> QED
    BY <2>2, <2>3, <2>4
<1>2. ASSUME NEW r PROVE SetToSeq({r}) = <<r>>
  <2>1. Cardinality({r}) = 1
    BY FS_Singleton
  <2>2. SetToSeq({r}) = CHOOSE f \in [1 .. 1 -> {r}] : IsInjective(f)
    BY <2>1 DEF SetToSeq
  <2>3. \A f \in [1 .. 1 -> {r}] : f = <<r>>
    OBVIOUS
  <2>4. <<r>> \in [1 .. 1 -> {r}] /\ IsInjective(<<r>>)
    BY DEF IsInjective
  <2> QED
    BY <2>2, <2>3, <2>4
<1>3. P = {} => {u.record : u \in P} = {}
  OBVIOUS
<1>4. \A u : P = {u} => {w.record : w \in P} = {u.record}
  OBVIOUS
<1>5. <<>> \o q = q
  BY ConcatEmptySeq DEF Rows
<1> QED
  BY <1>1, <1>2, <1>3, <1>4, <1>5

LEMMA NewestOf ==
  ASSUME NEW s \in Rows
  PROVE  /\ Newest(s) \in Rows
         /\ Len(Newest(s)) = IF Len(s) > MaxRecords THEN MaxRecords ELSE Len(s)
         /\ \A i \in 1 .. Len(Newest(s)) : Newest(s)[i] = s[i + (Len(s) - Len(Newest(s)))]
<1> PICK m : m = IF Len(s) > MaxRecords THEN Len(s) - MaxRecords + 1 ELSE 1
  OBVIOUS
<1>1. Len(s) \in Nat /\ MaxRecords \in Nat \ {0} /\ m \in 1 .. Len(s) + 1
  BY SettingsAssumption DEF Rows
<1>2. \A i \in m .. Len(s) : s[i] \in Nat
  BY <1>1 DEF Rows
<1>3. Newest(s) = SubSeq(s, m, Len(s))
  BY DEF Newest
<1>4. /\ SubSeq(s, m, Len(s)) \in Seq(Nat)
      /\ Len(SubSeq(s, m, Len(s))) = IF m <= Len(s) THEN Len(s) - m + 1 ELSE 0
      /\ \A i \in 1 .. Len(s) - m + 1 : SubSeq(s, m, Len(s))[i] = s[m + i - 1]
  BY <1>1, <1>2, SubSeqProperties
<1>5. Len(Newest(s)) = Len(s) - m + 1
  <2>1. Len(s) \in Nat /\ m \in Nat /\ (m <= Len(s) \/ m = Len(s) + 1)
    BY <1>1
  <2> QED
    BY <2>1, <1>3, <1>4
<1>5a. Len(s) - m + 1 = IF Len(s) > MaxRecords THEN MaxRecords ELSE Len(s)
  BY <1>1
<1>6. m = Len(s) - Len(Newest(s)) + 1
  BY <1>1, <1>5
<1>7. \A i \in 1 .. Len(Newest(s)) : m + i - 1 = i + (Len(s) - Len(Newest(s)))
  BY <1>1, <1>5
<1> QED
  <2>1. /\ Newest(s) \in Seq(Nat)
        /\ \A i \in 1 .. Len(Newest(s)) : Newest(s)[i] = s[m + i - 1]
    BY <1>3, <1>4, <1>5
  <2> QED
    BY <2>1, <1>5, <1>5a, <1>7 DEF Rows

LEMMA AppendOf ==
  ASSUME NEW s \in Rows, NEW r \in Nat
  PROVE  /\ Append(s, r) \in Rows /\ Len(Append(s, r)) = Len(s) + 1
         /\ \A i \in 1 .. Len(s) : Append(s, r)[i] = s[i]
         /\ Append(s, r)[Len(s) + 1] = r
BY DEF Rows

(* Trimming before an append makes no difference. *)
LEMMA NewestAppend ==
  ASSUME NEW s \in Rows, NEW r \in Nat
  PROVE  /\ Newest(Append(Newest(s), r)) = Newest(Append(s, r))
         /\ Newest(Append(s, r)) # <<>> /\ Last(Newest(Append(s, r))) = r
<1> PICK t : t = Newest(s)
  OBVIOUS
<1> PICK a : a = Append(t, r)
  OBVIOUS
<1> PICK b : b = Append(s, r)
  OBVIOUS
<1>1. Len(s) \in Nat /\ MaxRecords \in Nat /\ MaxRecords > 0
  BY SettingsAssumption DEF Rows
<1>2. /\ t \in Rows /\ Len(t) = IF Len(s) > MaxRecords THEN MaxRecords ELSE Len(s)
      /\ \A i \in 1 .. Len(t) : t[i] = s[i + (Len(s) - Len(t))]
  BY NewestOf
<1>3. /\ a \in Rows /\ Len(a) = Len(t) + 1
      /\ \A i \in 1 .. Len(t) : a[i] = t[i]
      /\ a[Len(t) + 1] = r
  BY <1>2, AppendOf
<1>4. /\ b \in Rows /\ Len(b) = Len(s) + 1
      /\ \A i \in 1 .. Len(s) : b[i] = s[i]
      /\ b[Len(s) + 1] = r
  BY AppendOf
<1>5. /\ Newest(a) \in Rows
      /\ Len(Newest(a)) = IF Len(a) > MaxRecords THEN MaxRecords ELSE Len(a)
      /\ \A i \in 1 .. Len(Newest(a)) : Newest(a)[i] = a[i + (Len(a) - Len(Newest(a)))]
  BY <1>3, NewestOf
<1>6. /\ Newest(b) \in Rows
      /\ Len(Newest(b)) = IF Len(b) > MaxRecords THEN MaxRecords ELSE Len(b)
      /\ \A i \in 1 .. Len(Newest(b)) : Newest(b)[i] = b[i + (Len(b) - Len(Newest(b)))]
  BY <1>4, NewestOf
<1> PICK n : n = Len(Newest(b))
  OBVIOUS
<1>7. n \in Nat /\ n > 0 /\ Len(Newest(a)) = n /\ n <= Len(t) + 1 /\ Len(t) <= Len(s)
  BY <1>1, <1>2, <1>3, <1>4, <1>5, <1>6
<1>7a. /\ Len(s) \in Nat /\ Len(t) \in Nat
       /\ Len(a) = Len(t) + 1 /\ Len(b) = Len(s) + 1
  BY <1>1, <1>2, <1>3, <1>4 DEF Rows
<1>8. \A i \in 1 .. Len(t) + 1 : a[i] = b[i + (Len(s) - Len(t))]
  <2> SUFFICES ASSUME NEW i \in 1 .. Len(t) + 1 PROVE a[i] = b[i + (Len(s) - Len(t))]
    OBVIOUS
  <2>1. CASE i = Len(t) + 1
    <3>1. i + (Len(s) - Len(t)) = Len(s) + 1
      BY <2>1, <1>7a
    <3> QED
      BY <3>1, <2>1, <1>3, <1>4
  <2>2. CASE i \in 1 .. Len(t)
    <3>1. i + (Len(s) - Len(t)) \in 1 .. Len(s)
      BY <2>2, <1>7, <1>7a
    <3> QED
      BY <3>1, <2>2, <1>2, <1>3, <1>4
  <2>3. i = Len(t) + 1 \/ i \in 1 .. Len(t)
    BY <1>7a
  <2> QED
    BY <2>1, <2>2, <2>3
<1>9. \A i \in 1 .. n : Newest(a)[i] = Newest(b)[i]
  <2> SUFFICES ASSUME NEW i \in 1 .. n PROVE Newest(a)[i] = Newest(b)[i]
    OBVIOUS
  <2>1. i + (Len(a) - n) \in 1 .. Len(t) + 1
    BY <1>7, <1>7a
  <2>2. (i + (Len(a) - n)) + (Len(s) - Len(t)) = i + (Len(b) - n)
    BY <1>7, <1>7a
  <2>3. a[i + (Len(a) - n)] = b[i + (Len(b) - n)]
    BY <2>1, <2>2, <1>8
  <2> QED
    BY <2>3, <1>5, <1>6, <1>7
<1>10. Newest(a) = Newest(b)
  BY <1>5, <1>6, <1>7, <1>9, SeqEqual DEF Rows
<1>11. Newest(b) # <<>>
  BY <1>6, <1>7 DEF Rows
<1>12. Newest(b)[n] = r
  <2>1. n + (Len(b) - n) = Len(s) + 1
    BY <1>1, <1>4, <1>7
  <2> QED
    BY <2>1, <1>4, <1>6, <1>7
<1> QED
  BY <1>10, <1>11, <1>12 DEF Last

LEMMA StoredOf ==
  ASSUME log \in Rows
  PROVE  /\ \A n \in 0 .. Len(log) : Stored(n) \in Rows /\ SubSeq(log, 1, n) \in Rows
         /\ Stored(Len(log)) = Newest(log)
         /\ \A n \in Nat : n < Len(log) =>
               Stored(n + 1) = Newest(Append(Stored(n), log[n + 1]))
<1>1. Len(log) \in Nat
  BY DEF Rows
<1>2. ASSUME NEW n \in 0 .. Len(log) PROVE SubSeq(log, 1, n) \in Rows
  <2>1. \A i \in 1 .. n : log[i] \in Nat
    BY <1>1 DEF Rows
  <2> QED
    BY <1>1, <2>1, SubSeqProperties DEF Rows
<1>3. SubSeq(log, 1, Len(log)) = log
  BY SubSeqFull DEF Rows
<1>4. ASSUME NEW n \in Nat, n < Len(log)
      PROVE  Stored(n + 1) = Newest(Append(Stored(n), log[n + 1]))
  <2>1. n \in 0 .. Len(log) /\ n + 1 \in 0 .. Len(log) /\ log[n + 1] \in Nat
    BY <1>1, <1>4 DEF Rows
  <2>2. SubSeq(log, 1, n + 1) = Append(SubSeq(log, 1, n), log[n + 1])
    <3>1. SubSeq(log, 1, n) \in Rows /\ Len(SubSeq(log, 1, n)) = n
          /\ \A i \in 1 .. n : SubSeq(log, 1, n)[i] = log[i]
      <4>1. \A i \in 1 .. n : log[i] \in Nat
        BY <1>1, <2>1 DEF Rows
      <4>2. /\ Len(SubSeq(log, 1, n)) = IF 1 <= n THEN n - 1 + 1 ELSE 0
            /\ \A i \in 1 .. n - 1 + 1 : SubSeq(log, 1, n)[i] = log[1 + i - 1]
        BY <4>1, SubSeqProperties
      <4> QED
        BY <4>2, <2>1, <1>2
    <3>2. SubSeq(log, 1, n + 1) \in Rows /\ Len(SubSeq(log, 1, n + 1)) = n + 1
          /\ \A i \in 1 .. n + 1 : SubSeq(log, 1, n + 1)[i] = log[i]
      <4>1. \A i \in 1 .. n + 1 : log[i] \in Nat
        BY <1>1, <2>1 DEF Rows
      <4>2. /\ Len(SubSeq(log, 1, n + 1)) = IF 1 <= n + 1 THEN n + 1 - 1 + 1 ELSE 0
            /\ \A i \in 1 .. n + 1 - 1 + 1 : SubSeq(log, 1, n + 1)[i] = log[1 + i - 1]
        BY <4>1, SubSeqProperties
      <4> QED
        BY <4>2, <2>1, <1>2
    <3> PICK t : t = Append(SubSeq(log, 1, n), log[n + 1])
      OBVIOUS
    <3>3. /\ t \in Rows /\ Len(t) = n + 1 /\ \A i \in 1 .. n : t[i] = log[i]
          /\ t[n + 1] = log[n + 1]
      BY <3>1, <2>1, AppendOf
    <3>4. \A i \in 1 .. n + 1 : t[i] = SubSeq(log, 1, n + 1)[i]
      BY <3>2, <3>3
    <3> QED
      BY <3>2, <3>3, <3>4, SeqEqual DEF Rows
  <2> QED
    BY <2>1, <2>2, <1>2, NewestAppend DEF Stored
<1> QED
  BY <1>1, <1>2, <1>3, <1>4, NewestOf DEF Stored

(* An append leaves what was stored before. *)
LEMMA StoredStays ==
  ASSUME log \in Rows, NEW r \in Nat, log' = Append(log, r)
  PROVE  \A n \in 0 .. Len(log) : Stored(n)' = Stored(n)
<1>1. SubSeq(log', 1, 0) = SubSeq(log, 1, 0)
  BY SubSeqEmpty
<1>2. ASSUME NEW n \in 1 .. Len(log) PROVE SubSeq(log', 1, n) = SubSeq(log, 1, n)
  <2>1. log' = log \o <<r>>
    BY DEF Rows
  <2>2. <<r>> \in Seq(Nat) /\ Len(log) \in Nat
    BY DEF Rows
  <2> QED
    BY <2>1, <2>2, SubSeqOfConcat1 DEF Rows
<1>3. Len(log) \in Nat
  BY DEF Rows
<1>4. \A n \in 0 .. Len(log) : n = 0 \/ n \in 1 .. Len(log)
  BY <1>3
<1> QED
  BY <1>1, <1>2, <1>4 DEF Stored, Newest

-----------------------------------------------------------------------------
(* Types *)

(* process_queue leaves the line as it is.                                 *)
LEMMA Processed ==
  ASSUME NEW rows \in Rows, NEW version \in Nat, NEW waiting \in Rows,
         ProcessQueue(rows, version, waiting)
  PROVE  /\ Line' = waiting
         /\ waiting = <<>> => queue' = waiting /\ pending' = {} /\ outbox' = outbox
         /\ waiting # <<>> =>
              \E u \in Updates :
                 /\ pending' = {u} /\ u.request = version /\ u.record = Head(waiting)
                 /\ u.records = Newest(Append(rows, u.record))
                 /\ WriteOf(u) \in Writes
                 /\ outbox' = outbox \cup {WriteOf(u)} /\ queue' = Tail(waiting)
<1>1. CASE waiting = <<>>
  <2>1. queue' = waiting /\ pending' = {} /\ outbox' = outbox
    BY <1>1 DEF ProcessQueue
  <2> QED
    BY <1>1, <2>1, LineOf DEF Line
<1>2. CASE waiting # <<>>
  <2> PICK u : u = [request |-> version, record |-> Head(waiting),
                    records |-> Newest(Append(rows, Head(waiting)))]
    OBVIOUS
  <2>1. /\ queue' = Tail(waiting) /\ pending' = {u}
        /\ outbox' = outbox \cup {WriteOf(u)}
    BY <1>2 DEF ProcessQueue
  <2>2. Head(waiting) \in Nat /\ Tail(waiting) \in Rows /\ waiting = <<Head(waiting)>> \o Tail(waiting)
    BY <1>2 DEF Rows
  <2>3. Newest(Append(rows, Head(waiting))) \in NonEmpty
    BY <2>2, AppendOf, NewestOf, NewestAppend DEF NonEmpty
  <2>4. u \in Updates
    BY <2>2, <2>3 DEF Updates
  <2>5. WriteOf(u) \in Writes
    BY <2>4 DEF Updates, WriteOf, Writes
  <2>6. Line' = waiting
    <3>1. Line' = <<u.record>> \o queue'
      BY <2>1, <2>2, LineOf DEF Line
    <3> QED
      BY <2>1, <2>2, <3>1
  <2> QED
    BY <1>2, <2>1, <2>4, <2>5, <2>6
<1> QED
  BY <1>1, <1>2

LEMMA ProcessType ==
  ASSUME TypeOK, NEW rows \in Rows, NEW version \in Nat,
         ProcessQueue(rows, version, queue)
  PROVE  /\ queue' \in Rows /\ pending' \subseteq Updates /\ (\A v, w \in pending' : v = w)
         /\ outbox' \subseteq {Message, Read} \cup Writes
<1>1. queue \in Rows /\ (queue # <<>> => Tail(queue) \in Rows)
  BY DEF TypeOK, Rows
<1>2. CASE queue = <<>>
  BY <1>1, <1>2, Processed DEF TypeOK
<1>3. CASE queue # <<>>
  <2> PICK u \in Updates : /\ pending' = {u} /\ WriteOf(u) \in Writes
                            /\ outbox' = outbox \cup {WriteOf(u)} /\ queue' = Tail(queue)
    BY <1>1, <1>3, Processed
  <2> QED
    BY <1>1, <1>3 DEF TypeOK
<1> QED
  BY <1>2, <1>3

LEMMA CasResult ==
  ASSUME NEW record, NEW expected, NEW new, NEW x \in CasOutcomes(record, expected, new)
  PROVE  /\ x.outcome \in {"committed", "refused", "failed"}
         /\ x.record = record \/ (x.record = new /\ record.version = expected)
         /\ x.outcome = "committed" => x.record = new
         /\ x.outcome = "refused" => record.version # expected
         /\ record.version # expected => x.outcome = "refused" /\ x.record = record
<1>1. CASE record.version = expected
  <2>1. x \in {[record |-> new, outcome |-> "committed"],
               [record |-> new, outcome |-> "failed"],
               [record |-> record, outcome |-> "failed"]}
    BY <1>1 DEF CasOutcomes
  <2> QED
    BY <1>1, <2>1
<1>2. CASE record.version # expected
  <2>1. x = [record |-> record, outcome |-> "refused"]
    BY <1>2 DEF CasOutcomes
  <2> QED
    BY <1>2, <2>1
<1> QED
  BY <1>1, <1>2

LEMMA InitType == Init => TypeOK
<1> SUFFICES ASSUME Init PROVE TypeOK
  OBVIOUS
<1>1. <<>> \in Rows
  BY DEF Rows
<1> QED
  BY <1>1, NoCalls DEF Init, TypeOK

LEMMA AnswerType ==
  ASSUME TypeOK, NEW a \in BagToSet(answers)
  PROVE  /\ a.type = "get" => a \in ReadAnswers
         /\ a.type = "cas" => a \in WriteAnswers
         /\ a.type \in {"get", "cas"}
BY DEF TypeOK, ReadAnswers, WriteAnswers

LEMMA DeliverType ==
  ASSUME TypeOK, Deliver
  PROVE  TypeOK'
<1> PICK a \in BagToSet(answers) :
      /\ answers' = answers (-) SetToBag({a})
      /\ StorageGet(a) \/ StorageCas(a)
      /\ UNCHANGED <<store, arrived, log, forgotten, calls>>
  BY DEF Deliver
<1>1. IsABag(answers') /\ BagToSet(answers') \subseteq ReadAnswers \cup WriteAnswers
  BY BagRemove DEF TypeOK
<1> PICK D : D = BagToSet(answers')
  OBVIOUS
<1>2. CASE StorageGet(a)
  <2>1. a \in ReadAnswers
    BY <1>2, AnswerType DEF StorageGet
  <2>2. a.version \in Nat /\ a.value \in Rows
    BY <2>1 DEF ReadAnswers
  <2>3. records' \in Rows /\ storage_version' \in Nat /\ loaded' \in BOOLEAN
    BY <1>2, <2>2 DEF StorageGet, TypeOK
  <2>4. queue' \in Rows /\ pending' \subseteq Updates /\ (\A v, w \in pending' : v = w)
        /\ outbox' \subseteq {Message, Read} \cup Writes
    <3>1. CASE ProcessQueue(a.value, a.version, queue)
      BY <3>1, <2>2, ProcessType
    <3>2. CASE UNCHANGED <<queue, pending, outbox>>
      BY <3>2 DEF TypeOK
    <3> QED
      BY <3>1, <3>2, <1>2 DEF StorageGet
  <2> QED
    BY <1>1, <2>3, <2>4 DEF TypeOK
<1>3. CASE StorageCas(a)
  <2>1. CASE Ignored(a)
    BY <2>1, <1>1 DEF Ignored, plugin, TypeOK
  <2>2. ASSUME NEW u \in pending, a.type = "cas", Committed(a, u) PROVE TypeOK'
    <3>1. a.version \in Nat /\ u \in Updates
      BY <2>2, AnswerType DEF WriteAnswers, TypeOK
    <3>2. records' \in Rows /\ storage_version' \in Nat /\ loaded' \in BOOLEAN
      BY <2>2, <3>1 DEF Committed, Updates, NonEmpty, TypeOK
    <3>3. queue' \in Rows /\ pending' \subseteq Updates /\ (\A v, w \in pending' : v = w)
          /\ outbox' \subseteq {Message, Read} \cup Writes
      <4>1. CASE ProcessQueue(u.records, a.version, queue)
        <5>1. u.records \in Rows
          BY <3>1 DEF Updates, NonEmpty
        <5> QED
          BY <4>1, <3>1, <5>1, ProcessType
      <4>2. CASE pending' = {} /\ UNCHANGED <<queue, outbox>>
        BY <4>2 DEF TypeOK
      <4> QED
        BY <4>1, <4>2, <2>2 DEF Committed
    <3> QED
      BY <1>1, <3>2, <3>3 DEF TypeOK
  <2>3. ASSUME NEW u \in pending, NotCommitted(a, u) PROVE TypeOK'
    <3>1. <<u.record>> \o queue \in Rows
      BY DEF TypeOK, Updates, Rows
    <3> QED
      BY <1>1, <2>3, <3>1 DEF NotCommitted, TypeOK
  <2> QED
    BY <1>3, <2>1, <2>2, <2>3 DEF StorageCas
<1> QED
  BY <1>2, <1>3

LEMMA ExecuteType ==
  ASSUME TypeOK, Execute
  PROVE  TypeOK'
<1> PICK call \in BagToSet(calls) :
      /\ calls' = calls (-) SetToBag({call})
      /\ ExecuteGet(call) \/ ExecuteCas(call)
      /\ UNCHANGED <<plugin, arrived, forgotten, unconfirmed, outbox>>
  BY DEF Execute
<1>1. IsABag(calls') /\ BagToSet(calls') \subseteq {Read} \cup Writes
  BY BagRemove DEF TypeOK
<1>2. CASE ExecuteGet(call)
  <2> PICK outcome \in ReadOutcomes :
        answers' = answers (+) SetToBag({[type |-> "get", outcome |-> outcome,
                                          version |-> store.version, value |-> store.value]})
    BY <1>2 DEF ExecuteGet
  <2>1. [type |-> "get", outcome |-> outcome, version |-> store.version,
         value |-> store.value] \in ReadAnswers
    BY DEF ReadOutcomes, ReadAnswers, TypeOK
  <2>2. IsABag(answers') /\ BagToSet(answers') \subseteq ReadAnswers \cup WriteAnswers
    BY <2>1, BagAdd DEF TypeOK
  <2> QED
    BY <1>1, <1>2, <2>2 DEF ExecuteGet, plugin, TypeOK
<1>3. CASE ExecuteCas(call)
  <2>1. call \in Writes
    BY <1>3 DEF ExecuteCas, TypeOK, Read
  <2> PICK x \in CasExecutions(store, call.expected, call.value) :
        /\ store' = x.record
        /\ log' = IF x.record = store THEN log ELSE Append(log, Last(call.value))
        /\ answers' = answers (+) SetToBag({[type |-> "cas", request |-> call.request,
                                             outcome |-> x.outcome, version |-> x.record.version]})
    BY <1>3 DEF ExecuteCas
  <2>2. x.outcome \in {"committed", "refused", "failed"}
        /\ (x.record = store \/ x.record = Written(store, call.value))
    BY CasResult DEF CasExecutions
  <2>3. Written(store, call.value) \in [version : Nat, value : Rows]
    BY <2>1 DEF Written, Writes, NonEmpty, TypeOK
  <2>4. store' \in [version : Nat, value : Rows]
    BY <2>2, <2>3 DEF TypeOK
  <2>5. [type |-> "cas", request |-> call.request, outcome |-> x.outcome,
         version |-> x.record.version] \in WriteAnswers
    BY <2>1, <2>2, <2>4 DEF WriteAnswers, Writes
  <2>6. IsABag(answers') /\ BagToSet(answers') \subseteq ReadAnswers \cup WriteAnswers
    BY <2>5, BagAdd DEF TypeOK
  <2>7. log' \in Rows
    <3>1. Last(call.value) \in Nat
      BY <2>1 DEF Writes, NonEmpty, Rows, Last
    <3> QED
      BY <3>1, AppendOf DEF TypeOK
  <2> QED
    BY <1>1, <2>4, <2>6, <2>7 DEF plugin, TypeOK
<1> QED
  BY <1>2, <1>3

LEMMA LineType ==
  ASSUME TypeOK
  PROVE  /\ Line \in Rows
         /\ pending = {} => Line = queue
         /\ \A u \in pending : /\ pending = {u} /\ Line = <<u.record>> \o queue
                               /\ Line # <<>> /\ Head(Line) = u.record /\ Tail(Line) = queue
<1>1. queue \in Rows
  BY DEF TypeOK
<1>2. CASE pending = {}
  BY <1>1, <1>2, LineOf DEF Line
<1>3. ASSUME NEW u \in pending
      PROVE  /\ pending = {u} /\ Line = <<u.record>> \o queue /\ Line \in Rows
             /\ Line # <<>> /\ Head(Line) = u.record /\ Tail(Line) = queue
  <2>1. pending = {u} /\ u.record \in Nat
    BY DEF TypeOK, Updates
  <2>2. Line = <<u.record>> \o queue
    BY <1>1, <2>1, LineOf DEF Line
  <2> QED
    BY <1>1, <2>1, <2>2 DEF Rows
<1> QED
  BY <1>2, <1>3

LEMMA WaitingLine ==
  ASSUME TypeOK
  PROVE  ToSet(Line) = Waiting
<1>1. CASE pending = {}
  BY <1>1, LineType DEF Waiting
<1>2. ASSUME NEW u \in pending PROVE ToSet(Line) = Waiting
  <2>1. pending = {u} /\ Line = <<u.record>> \o queue /\ queue \in Rows /\ u.record \in Nat
    BY LineType DEF TypeOK, Updates
  <2>2. /\ DOMAIN Line = 1 .. Len(queue) + 1 /\ Line[1] = u.record
        /\ DOMAIN queue = 1 .. Len(queue) /\ Len(queue) \in Nat
        /\ \A i \in 1 .. Len(queue) : Line[i + 1] = queue[i]
    BY <2>1 DEF Rows
  <2>3. \A i \in DOMAIN Line : i = 1 \/ \E j \in DOMAIN queue : i = j + 1
    <3> SUFFICES ASSUME NEW i \in DOMAIN Line, i # 1 PROVE \E j \in DOMAIN queue : i = j + 1
      OBVIOUS
    <3>1. i - 1 \in DOMAIN queue /\ i = (i - 1) + 1
      BY <2>2
    <3> QED
      BY <3>1
  <2>4. ToSet(Line) \subseteq {u.record} \cup ToSet(queue)
    <3> SUFFICES ASSUME NEW i \in DOMAIN Line
                 PROVE  Line[i] \in {u.record} \cup ToSet(queue)
      BY DEF ToSet
    <3>1. CASE i = 1
      BY <2>2, <3>1
    <3>2. CASE i # 1
      <4>1. PICK j \in DOMAIN queue : i = j + 1
        BY <2>3, <3>2
      <4>2. Line[i] = queue[j]
        BY <2>2, <4>1
      <4> QED
        BY <4>2 DEF ToSet
    <3> QED
      BY <3>1, <3>2
  <2>5. u.record \in ToSet(Line)
    <3>1. 1 \in DOMAIN Line
      BY <2>2
    <3> QED
      BY <2>2, <3>1 DEF ToSet
  <2>6. ToSet(queue) \subseteq ToSet(Line)
    <3> SUFFICES ASSUME NEW j \in DOMAIN queue PROVE queue[j] \in ToSet(Line)
      BY DEF ToSet
    <3>1. j + 1 \in DOMAIN Line /\ Line[j + 1] = queue[j]
      BY <2>2
    <3> QED
      BY <3>1 DEF ToSet
  <2> QED
    BY <2>1, <2>4, <2>5, <2>6 DEF Waiting
<1> QED
  BY <1>1, <1>2

LEMMA EnqueueLine ==
  ASSUME TypeOK, Enqueue
  PROVE  LET waiting == Append(queue, arrived + 1)
         IN  /\ waiting \in Rows /\ waiting # <<>>
             /\ arrived' = arrived + 1
             /\ \/ /\ loaded /\ pending = {}
                   /\ ProcessQueue(records, storage_version, waiting)
                \/ /\ ~ (loaded /\ pending = {})
                   /\ queue' = waiting /\ UNCHANGED <<pending, outbox>>
<1>1. Append(queue, arrived + 1) \in Rows /\ Append(queue, arrived + 1) # <<>>
  <2>1. queue \in Rows /\ arrived + 1 \in Nat
    BY DEF TypeOK
  <2> QED
    BY <2>1 DEF Rows
<1> QED
  BY <1>1 DEF Enqueue

LEMMA NextType == TypeOK /\ [Next]_vars => TypeOK'
<1> SUFFICES ASSUME TypeOK, [Next]_vars PROVE TypeOK'
  OBVIOUS
<1>1. CASE AppendRecord
  <2>1. Enqueue
    BY <1>1 DEF AppendRecord
  <2> PICK waiting \in Rows :
        /\ waiting # <<>> /\ arrived' = arrived + 1
        /\ \/ ProcessQueue(records, storage_version, waiting)
           \/ queue' = waiting /\ UNCHANGED <<pending, outbox>>
    BY <2>1, EnqueueLine
  <2>2. queue' \in Rows /\ pending' \subseteq Updates /\ (\A v, w \in pending' : v = w)
        /\ outbox' \subseteq {Message, Read} \cup Writes
    <3>1. CASE ProcessQueue(records, storage_version, waiting)
      <4> PICK u \in Updates : /\ pending' = {u} /\ WriteOf(u) \in Writes
                               /\ outbox' = outbox \cup {WriteOf(u)} /\ queue' = Tail(waiting)
        BY <3>1, Processed DEF TypeOK
      <4>1. Tail(waiting) \in Rows
        BY DEF Rows
      <4> QED
        BY <4>1 DEF TypeOK
    <3>2. CASE queue' = waiting /\ UNCHANGED <<pending, outbox>>
      BY <3>2 DEF TypeOK
    <3> QED
      BY <3>1, <3>2
  <2> QED
    BY <2>1, <2>2 DEF Enqueue, TypeOK
<1>2. CASE Query
  BY <1>2 DEF Query, plugin, history, TypeOK
<1>3. CASE AcceptBatch
  <2>1. IsABag(calls') /\ BagToSet(calls') = BagToSet(calls) \cup Requests(outbox)
    BY <1>3, BagAdd DEF AcceptBatch, TypeOK
  <2>2. Requests(outbox) \subseteq {Read} \cup Writes
    BY DEF Requests, Message, TypeOK
  <2> QED
    BY <1>3, <2>1, <2>2 DEF AcceptBatch, plugin, history, TypeOK
<1>4. CASE RejectBatch
  <2> SUFFICES queue' \in Rows
    BY <1>4 DEF RejectBatch, TypeOK
  <2>1. queue' = Line
    BY <1>4 DEF RejectBatch, Line
  <2> QED
    BY <2>1, LineType
<1>5. CASE Restart
  <2>1. <<>> \in Rows
    BY DEF Rows
  <2> QED
    BY <1>5, <2>1, NoCalls DEF Restart, TypeOK
<1> QED
  BY <1>1, <1>2, <1>3, <1>4, <1>5, DeliverType, ExecuteType
     DEF Next, vars, plugin, history, TypeOK

-----------------------------------------------------------------------------
(* Steps of single messages *)

LEMMA MessageType ==
  ASSUME TypeOK
  PROVE  /\ \A w \in WritesUnderWay : w \in Writes
         /\ \A x \in outbox \cup BagToSet(calls) : x.type = "cas" => x \in Writes
         /\ \A x \in outbox \cup BagToSet(calls) : x.type = "get" => x = Read
         /\ \A x \in outbox \cup BagToSet(calls) : x.type = "message" => x = Message
         /\ \A x \in BagToSet(calls) : x.type \in {"get", "cas"}
         /\ Requests(outbox) \subseteq {Read} \cup Writes
BY DEF TypeOK, WritesUnderWay, Writes, Read, Message, Requests

LEMMA AcceptMove ==
  ASSUME TypeOK, AcceptBatch,
         NEW O \in SUBSET Requests(outbox), NEW C \in SUBSET BagToSet(calls),
         NEW A \in SUBSET BagToSet(answers),
         \A x \in O : x \in BagToSet(calls) => x \in C,
         \A x \in C : x \in Requests(outbox) => x \in O
  PROVE  /\ None(O, C, A) => None({}, C \cup O, A)
         /\ InBatch(O, C, A) \/ Accepted(O, C, A) => Accepted({}, C \cup O, A)'
         /\ Answered(O, C, A) => Answered({}, C \cup O, A)'
<1>1. /\ BagToSet(calls') = BagToSet(calls) \cup Requests(outbox)
      /\ \A x \in BagToSet(calls) \ Requests(outbox) : calls'[x] = calls[x]
      /\ \A x \in Requests(outbox) \ BagToSet(calls) : calls'[x] = 1
  BY BagAdd DEF AcceptBatch, TypeOK
<1>2. ASSUME InBatch(O, C, A) PROVE Accepted({}, C \cup O, A)'
  <2> PICK x \in O : O = {x}
    BY <1>2 DEF InBatch
  <2>1. x \notin BagToSet(calls) /\ C = {} /\ A = {}
    BY <1>2 DEF InBatch
  <2>2. calls'[x] = 1
    BY <1>1, <2>1
  <2> QED
    BY <2>1, <2>2 DEF Accepted
<1>3. ASSUME Accepted(O, C, A) PROVE Accepted({}, C \cup O, A)'
  <2> PICK x \in C : C = {x} /\ calls[x] = 1
    BY <1>3 DEF Accepted
  <2>1. O = {} /\ A = {}
    BY <1>3 DEF Accepted
  <2>2. calls'[x] = 1
    BY <1>1, <2>1
  <2> QED
    BY <2>1, <2>2 DEF Accepted
<1>4. answers' = answers
  BY DEF AcceptBatch
<1> QED
  BY <1>2, <1>3, <1>4 DEF None, Answered

(* One call is executed and answered with a: one of those the sets are     *)
(* about, or another.                                                      *)
LEMMA ExecuteOwn ==
  ASSUME TypeOK, NEW call \in BagToSet(calls), NEW a,
         calls' = calls (-) SetToBag({call}), answers' = answers (+) SetToBag({a}),
         NEW O, NEW C \in SUBSET BagToSet(calls), NEW A \in SUBSET BagToSet(answers),
         NEW C2, C2 = C \cap BagToSet(calls'), NEW A2, A2 = A \cup {a},
         call \in C, a \in BagToSet(answers) => a \in A
  PROVE  /\ ~ None(O, C, A) /\ ~ InBatch(O, C, A) /\ ~ Answered(O, C, A)
         /\ Accepted(O, C, A) => Answered(O, C2, A2)'
<1>1. calls[call] = 1 => BagToSet(calls') = BagToSet(calls) \ {call}
  BY BagRemove DEF TypeOK
<1>2. a \notin BagToSet(answers) => answers'[a] = 1
  BY BagAdd DEF TypeOK
<1>3. ASSUME Accepted(O, C, A) PROVE Answered(O, C2, A2)'
  <2>1. C = {call} /\ calls[call] = 1 /\ O = {} /\ A = {}
    BY <1>3 DEF Accepted
  <2>2. C2 = {} /\ A2 = {a} /\ answers'[a] = 1
    BY <1>1, <1>2, <2>1
  <2> QED
    BY <2>1, <2>2 DEF Answered
<1> QED
  BY <1>3 DEF None, InBatch, Answered

LEMMA ExecuteOther ==
  ASSUME TypeOK, NEW call \in BagToSet(calls), NEW a,
         calls' = calls (-) SetToBag({call}), answers' = answers (+) SetToBag({a}),
         NEW O, NEW C \in SUBSET BagToSet(calls), NEW A \in SUBSET BagToSet(answers),
         call \notin C, a \notin A
  PROVE  /\ C \cap BagToSet(calls') = C
         /\ Accepted(O, C, A) => Accepted(O, C, A)'
         /\ Answered(O, C, A) => Answered(O, C, A)'
<1>1. /\ BagToSet(calls) \ {call} \subseteq BagToSet(calls')
      /\ \A x \in BagToSet(calls) \ {call} : calls'[x] = calls[x]
  BY BagRemove DEF TypeOK
<1>2. \A x \in BagToSet(answers) \ {a} : answers'[x] = answers[x]
  BY BagAdd DEF TypeOK
<1>3. \A x \in C : calls'[x] = calls[x]
  BY <1>1
<1>4. \A x \in A : answers'[x] = answers[x]
  BY <1>2
<1> QED
  BY <1>1, <1>3, <1>4 DEF Accepted, Answered

LEMMA DeliverOwn ==
  ASSUME TypeOK, NEW a \in BagToSet(answers), answers' = answers (-) SetToBag({a}),
         NEW O, NEW C, NEW A \in SUBSET BagToSet(answers), a \in A
  PROVE  /\ ~ None(O, C, A) /\ ~ InBatch(O, C, A) /\ ~ Accepted(O, C, A)
         /\ Answered(O, C, A) => None(O, C, A \cap BagToSet(answers'))
<1>1. answers[a] = 1 => BagToSet(answers') = BagToSet(answers) \ {a}
  BY BagRemove DEF TypeOK
<1>2. ASSUME Answered(O, C, A) PROVE None(O, C, A \cap BagToSet(answers'))
  <2>1. A = {a} /\ answers[a] = 1 /\ O = {} /\ C = {}
    BY <1>2 DEF Answered
  <2> QED
    BY <1>1, <2>1 DEF None
<1> QED
  BY <1>2 DEF None, InBatch, Accepted

LEMMA DeliverOther ==
  ASSUME TypeOK, NEW a \in BagToSet(answers), answers' = answers (-) SetToBag({a}),
         calls' = calls,
         NEW O, NEW C, NEW A \in SUBSET BagToSet(answers), a \notin A
  PROVE  /\ A \cap BagToSet(answers') = A
         /\ Accepted(O, C, A) => Accepted(O, C, A)'
         /\ Answered(O, C, A) => Answered(O, C, A)'
<1>1. /\ BagToSet(answers) \ {a} \subseteq BagToSet(answers')
      /\ \A x \in BagToSet(answers) \ {a} : answers'[x] = answers[x]
  BY BagRemove DEF TypeOK
<1>2. \A x \in A : answers'[x] = answers[x]
  BY <1>1
<1> QED
  BY <1>1, <1>2 DEF Accepted, Answered

-----------------------------------------------------------------------------
(* What a change of the line and the memory leaves alone *)

(* The line keeps its first record, and the memory its version; or the     *)
(* memory is newer.                                                        *)
FirstStays == /\ \A r : FirstIs(r) => FirstIs(r)'
              /\ Line # <<>> => Line' # <<>>

LEMMA SoundStays ==
  ASSUME TypeOK, Sound, UNCHANGED log, storage_version' \in Nat,
         \/ storage_version' = storage_version /\ FirstStays
         \/ storage_version' > storage_version
  PROVE  /\ \A w \in WritesUnderWay : WriteSound(w)'
         /\ \A a \in BagToSet(answers) : a.type = "cas" => WriteAnswerSound(a)'
<1>1. \A n : Stored(n)' = Stored(n)
  BY DEF Stored, Newest
<1>2. ASSUME NEW w \in WritesUnderWay PROVE WriteSound(w)'
  <2>1. WriteSound(w) /\ w.request \in Nat
    BY MessageType DEF Sound, Messages, Writes
  <2>2. storage_version \in Nat
    BY DEF TypeOK
  <2> QED
    BY <1>1, <2>1, <2>2 DEF WriteSound, FirstStays
<1>3. ASSUME NEW a \in BagToSet(answers), a.type = "cas" PROVE WriteAnswerSound(a)'
  <2>1. WriteAnswerSound(a) /\ a.request \in Nat
    BY <1>3, AnswerType DEF Sound, Messages, WriteAnswers
  <2>2. storage_version \in Nat
    BY DEF TypeOK
  <2> QED
    BY <2>1, <2>2 DEF WriteAnswerSound, FirstStays
<1> QED
  BY <1>2, <1>3

LEMMA ReadStays ==
  ASSUME TypeOK, Sound, UNCHANGED <<log, storage_version>>, FirstStays
  PROVE  /\ \A a \in BagToSet(answers) : a.type = "get" => ReadAnswerSound(a)'
         /\ \A v : AheadOf(v) => AheadOf(v)'
<1>1. \A v : AheadOf(v) => AheadOf(v)'
  BY DEF AheadOf, FirstStays
<1>2. \A n : Stored(n)' = Stored(n)
  BY DEF Stored, Newest
<1> QED
  BY <1>1, <1>2 DEF Sound, Messages, ReadAnswerSound

(* A step that leaves the log and the line, and starts no write.           *)
LEMMA QuietSound ==
  ASSUME TypeOK, Sound,
         UNCHANGED <<log, Line, storage_version, store, records, arrived, forgotten>>,
         loaded' => loaded,
         pending' \subseteq pending, pending' # {} => loaded' = loaded,
         WritesUnderWay' \subseteq WritesUnderWay,
         \A a \in BagToSet(answers') : a \in BagToSet(answers)
              \/ (IF a.type = "cas" THEN WriteAnswerSound(a)' ELSE ReadAnswerSound(a)'),
         unconfirmed \subseteq unconfirmed',
         OneRead', OneWrite'
  PROVE  Sound'
<1>1. FirstStays
  BY DEF FirstStays, FirstIs
<1>2. \A n : Stored(n)' = Stored(n)
  BY DEF Stored, Newest
<1>3. Newest(log)' = Newest(log)
  BY DEF Newest
<1>4. Memory'
  BY <1>2, <1>3 DEF Sound, Memory
<1>5. Pending'
  BY <1>2 DEF Sound, Pending
<1>6. Behind'
  BY <1>1, ReadStays DEF Sound, Behind
<1>7. Messages'
  <2>1. \A w \in WritesUnderWay' : WriteSound(w)'
    BY <1>1, SoundStays DEF TypeOK
  <2>2. ASSUME NEW a \in BagToSet(answers')
        PROVE  IF a.type = "cas" THEN WriteAnswerSound(a)' ELSE ReadAnswerSound(a)'
    <3>1. CASE a \in BagToSet(answers)
      BY <3>1, <1>1, SoundStays, ReadStays, AnswerType DEF TypeOK
    <3> QED
      BY <3>1
  <2> QED
    BY <2>1, <2>2 DEF Messages
<1>8. Ordered' /\ OnlyUnconfirmedRepeat' /\ Arrivals' = Arrivals
  BY DEF Sound, Ordered, OnlyUnconfirmedRepeat, Arrivals
<1> QED
  BY <1>4, <1>5, <1>6, <1>7, <1>8 DEF Sound

-----------------------------------------------------------------------------
(* The steps that leave the log and the line *)

LEMMA QuerySound ==
  ASSUME TypeOK, Sound, Query
  PROVE  Sound'
<1>1. /\ outbox' = outbox \cup {Message} /\ Message.type = "message"
      /\ UNCHANGED <<records, queue, storage_version, loaded, pending, store, arrived, log,
                     forgotten, unconfirmed, calls, answers>>
  BY DEF Query, plugin, history, Message
<1>2. Line' = Line
  BY <1>1 DEF Line
<1>3. WritesUnderWay' = WritesUnderWay /\ ReadsIn(outbox') = ReadsIn(outbox)
  BY <1>1 DEF WritesUnderWay, ReadsIn
<1>4. At(outbox)' = At(outbox) /\ At(BagToSet(calls))' = At(BagToSet(calls))
      /\ At(BagToSet(answers))' = At(BagToSet(answers))
  BY <1>1 DEF At
<1>5. OneRead'
  BY <1>1, <1>3 DEF Sound, OneRead, InBatch, Accepted, Answered
<1>6. OneWrite'
  BY <1>1, <1>2, <1>4 DEF Sound, OneWrite, InBatch, Accepted, Answered
<1> QED
  BY <1>1, <1>2, <1>3, <1>5, <1>6, QuietSound

LEMMA AcceptSound ==
  ASSUME TypeOK, Sound, AcceptBatch
  PROVE  Sound'
<1>1. /\ outbox' = {}
      /\ UNCHANGED <<records, queue, storage_version, loaded, pending, store, arrived, log,
                     forgotten, unconfirmed, answers>>
  BY DEF AcceptBatch, plugin, history
<1>2. Line' = Line
  BY <1>1 DEF Line
<1>3. BagToSet(calls') = BagToSet(calls) \cup Requests(outbox)
  BY BagAdd DEF AcceptBatch, TypeOK
<1>4. WritesUnderWay' = WritesUnderWay
  BY <1>1, <1>3 DEF WritesUnderWay, Requests
<1>5. OneRead'
  <2> PICK O : O = ReadsIn(outbox)
    OBVIOUS
  <2> PICK C : C = ReadsIn(BagToSet(calls))
    OBVIOUS
  <2> PICK A : A = ReadsIn(BagToSet(answers))
    OBVIOUS
  <2>1. /\ ReadsIn(outbox') = {} /\ ReadsIn(BagToSet(calls')) = C \cup O
        /\ ReadsIn(BagToSet(answers')) = A
    BY <1>1, <1>3 DEF ReadsIn, Requests
  <2>2. /\ O \in SUBSET Requests(outbox) /\ C \in SUBSET BagToSet(calls)
        /\ A \in SUBSET BagToSet(answers)
        /\ \A x \in O : x \in BagToSet(calls) => x \in C
        /\ \A x \in C : x \in Requests(outbox) => x \in O
    BY DEF ReadsIn, Requests
  <2>3. /\ None(O, C, A) => None({}, C \cup O, A)
        /\ InBatch(O, C, A) \/ Accepted(O, C, A) => Accepted({}, C \cup O, A)'
        /\ Answered(O, C, A) => Answered({}, C \cup O, A)'
    BY <2>2, AcceptMove
  <2>4. \/ None(O, C, A)
        \/ /\ InBatch(O, C, A) \/ Accepted(O, C, A) \/ Answered(O, C, A)
           /\ ~ loaded /\ pending = {}
    BY DEF Sound, OneRead
  <2>5. \/ None({}, C \cup O, A)
        \/ /\ Accepted({}, C \cup O, A)' \/ Answered({}, C \cup O, A)'
           /\ ~ loaded' /\ pending' = {}
    BY <2>3, <2>4, <1>1
  <2> QED
    BY <2>1, <2>5 DEF OneRead
<1>6. OneWrite'
  <2> SUFFICES ASSUME Line # <<>>, Head(Line) \notin unconfirmed PROVE OneWrite'
    BY <1>1, <1>2 DEF OneWrite
  <2> PICK O : O = At(outbox)
    OBVIOUS
  <2> PICK C : C = At(BagToSet(calls))
    OBVIOUS
  <2> PICK A : A = At(BagToSet(answers))
    OBVIOUS
  <2>1. /\ At(outbox)' = {} /\ At(BagToSet(calls))' = C \cup O
        /\ At(BagToSet(answers))' = A
    BY <1>1, <1>3 DEF At, Requests
  <2>2. /\ O \in SUBSET Requests(outbox) /\ C \in SUBSET BagToSet(calls)
        /\ A \in SUBSET BagToSet(answers)
        /\ \A x \in O : x \in BagToSet(calls) => x \in C
        /\ \A x \in C : x \in Requests(outbox) => x \in O
    BY DEF At, Requests
  <2>3. /\ None(O, C, A) => None({}, C \cup O, A)
        /\ InBatch(O, C, A) \/ Accepted(O, C, A) => Accepted({}, C \cup O, A)'
        /\ Answered(O, C, A) => Answered({}, C \cup O, A)'
    BY <2>2, AcceptMove
  <2>4. \/ /\ IF pending = {} THEN None(O, C, A) ELSE InBatch(O, C, A) \/ Accepted(O, C, A)
           /\ Head(Line) \notin ToSet(log)
        \/ pending # {} /\ Answered(O, C, A) /\ \A a \in A : a.outcome # "refused"
    BY DEF Sound, OneWrite
  <2>5. \/ /\ IF pending' = {} THEN None({}, C \cup O, A) ELSE Accepted({}, C \cup O, A)'
           /\ Head(Line') \notin ToSet(log')
        \/ /\ pending' # {} /\ Answered({}, C \cup O, A)'
           /\ \A a \in A : a.outcome # "refused"
    BY <2>3, <2>4, <1>1, <1>2
  <2> QED
    BY <2>1, <2>5 DEF OneWrite
<1> QED
  BY <1>1, <1>2, <1>4, <1>5, <1>6, QuietSound

LEMMA RejectSound ==
  ASSUME TypeOK, Sound, RejectBatch
  PROVE  Sound'
<1>1. /\ outbox' = {} /\ pending' = {} /\ queue' = Line
      /\ unconfirmed' = unconfirmed \cup
            {u.record : u \in {w \in pending : WriteOf(w) \notin outbox}}
      /\ UNCHANGED <<records, storage_version, loaded, store, arrived, log, forgotten,
                     calls, answers>>
  BY DEF RejectBatch, Line
<1>2. Line' = Line
  <2>1. Line \in Rows
    BY LineType
  <2> QED
    BY <1>1, <2>1, LineOf DEF Line
<1>3. WritesUnderWay' \subseteq WritesUnderWay
  BY <1>1 DEF WritesUnderWay
<1>4. OneRead'
  BY <1>1 DEF Sound, OneRead, ReadsIn, None, InBatch, Accepted, Answered
<1>5. OneWrite'
  <2> SUFFICES ASSUME Line # <<>>, Head(Line) \notin unconfirmed'
               PROVE  OneWrite'
    BY <1>2 DEF OneWrite
  <2>1. /\ At(outbox)' = {} /\ At(BagToSet(calls))' = At(BagToSet(calls))
        /\ At(BagToSet(answers))' = At(BagToSet(answers))
    BY <1>1 DEF At
  <2>2. Head(Line) \notin unconfirmed
    BY <1>1
  <2>3. \A u \in pending : WriteOf(u) \in outbox /\ WriteOf(u) \in At(outbox)
    <3> SUFFICES ASSUME NEW u \in pending PROVE WriteOf(u) \in outbox /\ WriteOf(u) \in At(outbox)
      OBVIOUS
    <3>1. Head(Line) = u.record /\ u.request = storage_version
      BY LineType DEF Sound, Pending
    <3>2. WriteOf(u) \in outbox
      BY <1>1, <3>1
    <3> QED
      BY <3>1, <3>2 DEF At, WriteOf
  <2>4. /\ At(BagToSet(calls)) = {} /\ At(BagToSet(answers)) = {}
        /\ Head(Line) \notin ToSet(log)
    BY <2>2, <2>3 DEF Sound, OneWrite, None, InBatch, Accepted, Answered
  <2> QED
    BY <1>1, <1>2, <2>1, <2>4 DEF OneWrite, None
<1> QED
  BY <1>1, <1>2, <1>3, <1>4, <1>5, QuietSound

LEMMA ExecuteGetSound ==
  ASSUME TypeOK, Sound, NEW call \in BagToSet(calls),
         calls' = calls (-) SetToBag({call}), ExecuteGet(call),
         UNCHANGED <<plugin, arrived, forgotten, unconfirmed, outbox>>
  PROVE  Sound'
<1> PICK a : /\ a.type = "get" /\ a.version = store.version /\ a.value = store.value
             /\ answers' = answers (+) SetToBag({a})
  <2> PICK outcome \in ReadOutcomes :
        answers' = answers (+) SetToBag({[type |-> "get", outcome |-> outcome,
                                          version |-> store.version, value |-> store.value]})
    BY DEF ExecuteGet
  <2> QED
    OBVIOUS
<1>1. UNCHANGED <<records, queue, storage_version, loaded, pending, store, arrived, log,
                  forgotten, unconfirmed, outbox>>
  BY DEF ExecuteGet, plugin
<1>2. Line' = Line
  BY <1>1 DEF Line
<1>3. /\ call.type = "get"
      /\ BagToSet(calls') \subseteq BagToSet(calls)
      /\ BagToSet(calls) \ {call} \subseteq BagToSet(calls')
  BY BagRemove DEF ExecuteGet, TypeOK
<1>4. BagToSet(answers') = BagToSet(answers) \cup {a}
  BY BagAdd DEF TypeOK
<1>5. WritesUnderWay' \subseteq WritesUnderWay
  BY <1>1, <1>3 DEF WritesUnderWay
<1>6. ~ loaded /\ pending = {} /\ OneRead'
  <2> PICK O : O = ReadsIn(outbox)
    OBVIOUS
  <2> PICK C : C = ReadsIn(BagToSet(calls))
    OBVIOUS
  <2> PICK A : A = ReadsIn(BagToSet(answers))
    OBVIOUS
  <2> PICK C2 : C2 = C \cap BagToSet(calls')
    OBVIOUS
  <2> PICK A2 : A2 = A \cup {a}
    OBVIOUS
  <2>1. /\ call \in C /\ C \in SUBSET BagToSet(calls) /\ A \in SUBSET BagToSet(answers)
        /\ (a \in BagToSet(answers) => a \in A)
    BY <1>3 DEF ReadsIn
  <2>2. /\ ~ (None(O, C, A) \/ InBatch(O, C, A) \/ Answered(O, C, A))
        /\ Accepted(O, C, A) => Answered(O, C2, A2)'
    BY <2>1, ExecuteOwn
  <2>3. Accepted(O, C, A) /\ ~ loaded /\ pending = {}
    BY <2>2 DEF Sound, OneRead
  <2>4. /\ ReadsIn(outbox') = O /\ ReadsIn(BagToSet(calls')) = C2
        /\ ReadsIn(BagToSet(answers')) = A2
    BY <1>1, <1>3, <1>4 DEF ReadsIn
  <2>5. OneRead'
    BY <1>1, <2>2, <2>3, <2>4 DEF OneRead
  <2> QED
    BY <2>3, <2>5
<1>7. OneWrite'
  <2>1. /\ At(outbox)' = At(outbox) /\ At(BagToSet(calls))' = At(BagToSet(calls))
        /\ At(BagToSet(answers))' = At(BagToSet(answers))
    BY <1>1, <1>3, <1>4 DEF At
  <2>2. \/ /\ None(At(outbox), At(BagToSet(calls)), At(BagToSet(answers)))
           /\ Head(Line) \notin ToSet(log)
        \/ Line = <<>> \/ Head(Line) \in unconfirmed
    BY <1>6 DEF Sound, OneWrite
  <2> QED
    BY <1>1, <1>2, <1>6, <2>1, <2>2 DEF OneWrite
<1>8. ReadAnswerSound(a)'
  <2>1. store.version = Len(log) /\ store.value = Newest(log) /\ storage_version <= Len(log)
    BY DEF Sound, Memory
  <2>2. Len(log) \in Nat /\ Stored(Len(log)) = Newest(log)
    BY StoredOf DEF TypeOK, Rows
  <2>3. Stored(a.version)' = Stored(a.version)
    BY <1>1 DEF Stored, Newest
  <2> QED
    BY <1>1, <2>1, <2>2, <2>3 DEF ReadAnswerSound, AheadOf
<1>9. \A b \in BagToSet(answers') : b \in BagToSet(answers)
         \/ (IF b.type = "cas" THEN WriteAnswerSound(b)' ELSE ReadAnswerSound(b)')
  BY <1>4, <1>8
<1> QED
  BY <1>1, <1>2, <1>5, <1>6, <1>7, <1>9, QuietSound

-----------------------------------------------------------------------------
(* The execution of a write *)

(* A write that follows the memory stores the first of the line, which is  *)
(* not stored yet unless it is unconfirmed.                                *)
LEMMA WriteOfFirst ==
  ASSUME TypeOK, Sound, NEW w \in BagToSet(calls), w.type = "cas",
         w.request = storage_version
  PROVE  /\ Line # <<>> /\ Head(Line) = Last(w.value)
         /\ \/ Head(Line) \in unconfirmed
            \/ /\ pending # {} /\ Head(Line) \notin ToSet(log)
               /\ Accepted(At(outbox), At(BagToSet(calls)), At(BagToSet(answers)))
<1>1. WriteSound(w)
  BY DEF Sound, Messages, WritesUnderWay
<1>2. w \in At(BagToSet(calls))
  BY DEF At
<1>3. Line # <<>> /\ Head(Line) = Last(w.value)
  BY <1>1 DEF WriteSound, FirstIs
<1> QED
  BY <1>2, <1>3 DEF Sound, OneWrite, None, InBatch, Answered

(* Nothing but the next append is ever executed with success.              *)
LEMMA WriteVersion ==
  ASSUME TypeOK, Sound, NEW w \in BagToSet(calls), w.type = "cas"
  PROVE  /\ w.request \in Nat /\ w.expected = w.request /\ w.request <= storage_version
         /\ storage_version \in Nat /\ Len(log) \in Nat /\ store.version = Len(log)
         /\ storage_version <= Len(log) /\ AheadOf(storage_version)
         /\ w.expected = store.version => w.request = storage_version
         /\ w.request = storage_version /\ Head(Line) \notin ToSet(log)
               => w.expected = store.version
<1>1. WriteSound(w) /\ w \in Writes /\ w \in WritesUnderWay
  BY MessageType DEF Sound, Messages, WritesUnderWay
<1>2. w.request \in Nat /\ w.expected = w.request /\ w.request <= storage_version
  BY <1>1 DEF WriteSound, Writes
<1>3. /\ storage_version \in Nat /\ Len(log) \in Nat /\ store.version = Len(log)
      /\ storage_version <= Len(log)
  BY DEF Sound, Memory, TypeOK, Rows
<1>4. AheadOf(storage_version)
  BY <1>1 DEF Sound, Behind
<1>5. ASSUME Head(Line) \notin ToSet(log) PROVE Len(log) # storage_version + 1
  <2>1. Len(log) > 0 => log[Len(log)] \in ToSet(log)
    BY <1>3 DEF ToSet, TypeOK, Rows
  <2> QED
    BY <1>3, <1>4, <1>5, <2>1 DEF AheadOf, FirstIs
<1>6. Len(log) <= storage_version + 1
  BY <1>4 DEF AheadOf
<1> QED
  BY <1>2, <1>3, <1>4, <1>5, <1>6

LEMMA ExecuteCasMoves ==
  ASSUME TypeOK, Sound, NEW w \in BagToSet(calls), w.type = "cas",
         NEW a, a.type = "cas", a.request = w.request,
         calls' = calls (-) SetToBag({w}), answers' = answers (+) SetToBag({a}),
         UNCHANGED <<records, queue, storage_version, loaded, pending, unconfirmed, outbox>>,
         a.outcome = "refused" => w.expected # store.version,
         w.expected # store.version => log' = log
  PROVE  /\ Line' = Line /\ WritesUnderWay' \subseteq WritesUnderWay
         /\ BagToSet(answers') = BagToSet(answers) \cup {a}
         /\ OneRead' /\ OneWrite'
<1>1. /\ BagToSet(calls') \subseteq BagToSet(calls)
      /\ BagToSet(calls) \ {w} \subseteq BagToSet(calls')
  BY BagRemove DEF TypeOK
<1>2. BagToSet(answers') = BagToSet(answers) \cup {a}
  BY BagAdd DEF TypeOK
<1>3. Line' = Line /\ WritesUnderWay' \subseteq WritesUnderWay
  BY <1>1 DEF Line, WritesUnderWay
<1>4. OneRead'
  <2> PICK O : O = ReadsIn(outbox)
    OBVIOUS
  <2> PICK C : C = ReadsIn(BagToSet(calls))
    OBVIOUS
  <2> PICK A : A = ReadsIn(BagToSet(answers))
    OBVIOUS
  <2>1. /\ w \notin C /\ C \in SUBSET BagToSet(calls) /\ A \in SUBSET BagToSet(answers)
        /\ a \notin A
    BY DEF ReadsIn
  <2>2. /\ C \cap BagToSet(calls') = C
        /\ Accepted(O, C, A) => Accepted(O, C, A)'
        /\ Answered(O, C, A) => Answered(O, C, A)'
    BY <2>1, ExecuteOther
  <2>3. /\ ReadsIn(outbox') = O /\ ReadsIn(BagToSet(calls')) = C
        /\ ReadsIn(BagToSet(answers')) = A
    BY <1>1, <1>2, <2>2 DEF ReadsIn
  <2>4. \/ None(O, C, A)
        \/ /\ InBatch(O, C, A) \/ Accepted(O, C, A) \/ Answered(O, C, A)
           /\ ~ loaded /\ pending = {}
    BY DEF Sound, OneRead
  <2> QED
    BY <2>2, <2>3, <2>4 DEF OneRead
<1>5. OneWrite'
  <2> SUFFICES ASSUME Line # <<>>, Head(Line) \notin unconfirmed PROVE OneWrite'
    BY <1>3 DEF OneWrite
  <2> PICK O : O = At(outbox)
    OBVIOUS
  <2> PICK C : C = At(BagToSet(calls))
    OBVIOUS
  <2> PICK A : A = At(BagToSet(answers))
    OBVIOUS
  <2>1. C \in SUBSET BagToSet(calls) /\ A \in SUBSET BagToSet(answers) /\ At(outbox)' = O
        /\ At(BagToSet(calls))' = C \cap BagToSet(calls')
    BY <1>1 DEF At
  <2>2. CASE w.request = storage_version
    <3>1. pending # {} /\ Head(Line) \notin ToSet(log) /\ Accepted(O, C, A)
      BY <2>2, WriteOfFirst
    <3>2. w \in C /\ (a \in BagToSet(answers) => a \in A) /\ At(BagToSet(answers))' = A \cup {a}
      BY <2>2, <1>2 DEF At
    <3> PICK C2 : C2 = C \cap BagToSet(calls')
      OBVIOUS
    <3> PICK A2 : A2 = A \cup {a}
      OBVIOUS
    <3>3. Answered(O, C2, A2)'
      BY <2>1, <3>1, <3>2, ExecuteOwn
    <3>4. A = {} /\ a.outcome # "refused"
      BY <2>2, <3>1, WriteVersion DEF Accepted
    <3> QED
      BY <2>1, <3>1, <3>2, <3>3, <3>4 DEF OneWrite
  <2>3. CASE w.request # storage_version
    <3>1. w \notin C /\ a \notin A /\ At(BagToSet(answers))' = A
      BY <2>3, <1>2 DEF At
    <3>2. log' = log
      BY <2>3, WriteVersion
    <3>3. /\ C \cap BagToSet(calls') = C
          /\ Accepted(O, C, A) => Accepted(O, C, A)'
          /\ Answered(O, C, A) => Answered(O, C, A)'
      BY <2>1, <3>1, ExecuteOther
    <3>4. \/ /\ IF pending = {} THEN None(O, C, A) ELSE InBatch(O, C, A) \/ Accepted(O, C, A)
             /\ Head(Line) \notin ToSet(log)
          \/ pending # {} /\ Answered(O, C, A) /\ \A b \in A : b.outcome # "refused"
      BY DEF Sound, OneWrite
    <3> QED
      BY <1>3, <2>1, <3>1, <3>2, <3>3, <3>4 DEF OneWrite
  <2> QED
    BY <2>2, <2>3
<1> QED
  BY <1>2, <1>3, <1>4, <1>5

(* The append of the first of the line. *)
LEMMA AppendSound ==
  ASSUME TypeOK, Sound, NEW w \in BagToSet(calls), w.type = "cas",
         w.expected = store.version, NEW a, WriteAnswerSound(a)', a.type = "cas",
         store' = Written(store, w.value), log' = Append(log, Last(w.value)),
         UNCHANGED <<records, storage_version, loaded, pending, arrived, forgotten,
                     unconfirmed, Line>>,
         BagToSet(answers') = BagToSet(answers) \cup {a},
         WritesUnderWay' \subseteq WritesUnderWay, OneRead', OneWrite'
  PROVE  Sound'
<1> PICK n : n = Len(log)
  OBVIOUS
<1> PICK r : r = Last(w.value)
  OBVIOUS
<1>1. /\ w.request = n /\ storage_version = n /\ n \in Nat /\ store.version = n
  BY WriteVersion
<1>2. /\ Line # <<>> /\ Head(Line) = r /\ r \in Nat
      /\ Head(Line) \in unconfirmed \/ Head(Line) \notin ToSet(log)
      /\ Line \in Rows /\ log \in Rows
  <2>1. Line \in Rows /\ log \in Rows
    BY LineType DEF TypeOK
  <2>2. /\ Line # <<>> /\ Head(Line) = r
        /\ Head(Line) \in unconfirmed \/ Head(Line) \notin ToSet(log)
    BY <1>1, WriteOfFirst
  <2> QED
    BY <2>1, <2>2, HeadTailProperties DEF Rows
<1>3. /\ Len(log') = n + 1 /\ log'[n + 1] = r /\ \A i \in 1 .. n : log'[i] = log[i]
      /\ DOMAIN log = 1 .. n /\ DOMAIN log' = 1 .. n + 1 /\ log' \in Rows
  BY <1>2, AppendOf DEF Rows
<1>4. \A m \in 0 .. n : Stored(m)' = Stored(m)
  BY <1>2, StoredStays
<1>5. Memory'
  <2>1. w.value = Newest(Append(Stored(n), r))
    BY <1>1 DEF Sound, Messages, WritesUnderWay, WriteSound
  <2>2. Stored(n) = Newest(log)
    BY <1>2, StoredOf
  <2>3. Newest(log)' = w.value
    <3>1. Newest(Append(Newest(log), r)) = Newest(Append(log, r))
      BY <1>2, NewestAppend
    <3>2. Newest(log)' = Newest(Append(log, r))
      BY DEF Newest
    <3> QED
      BY <2>1, <2>2, <3>1, <3>2
  <2>4. Stored(storage_version)' = Stored(storage_version)
    BY <1>1, <1>4
  <2>5. loaded => records = Stored(storage_version)
    BY DEF Sound, Memory
  <2>6. store'.version = n + 1 /\ store'.value = w.value
    BY <1>1 DEF Written
  <2> QED
    BY <1>1, <1>3, <2>3, <2>4, <2>5, <2>6 DEF Memory
<1>6. Pending'
  <2>1. ASSUME NEW u \in pending PROVE Stored(u.request)' = Stored(u.request)
    BY <1>1, <1>4 DEF Sound, Pending
  <2> QED
    BY <2>1 DEF Sound, Pending
<1>7. AheadOf(storage_version)'
  BY <1>1, <1>2, <1>3 DEF AheadOf, FirstIs
<1>8. Messages'
  <2>1. ASSUME NEW v \in WritesUnderWay PROVE WriteSound(v)'
    <3>1. WriteSound(v) /\ v.request \in Nat
      BY MessageType DEF Sound, Messages, Writes
    <3>2. v.request \in 0 .. n
      BY <1>1, <3>1 DEF WriteSound
    <3>3. Stored(v.request)' = Stored(v.request)
      BY <1>4, <3>2
    <3> QED
      BY <3>1, <3>3 DEF WriteSound, FirstIs
  <2>2. ASSUME NEW b \in BagToSet(answers), b.type = "cas" PROVE WriteAnswerSound(b)'
    <3>1. WriteAnswerSound(b) /\ b \in WriteAnswers
      BY <2>2, AnswerType DEF Sound, Messages
    <3>2. b.version \in Nat
      BY <3>1 DEF WriteAnswers
    <3> QED
      BY <1>1, <1>3, <3>1, <3>2 DEF WriteAnswerSound
  <2>3. ASSUME NEW b \in BagToSet(answers), b.type # "cas" PROVE ReadAnswerSound(b)'
    <3>1. ReadAnswerSound(b) /\ b \in ReadAnswers
      BY <2>3, AnswerType DEF Sound, Messages
    <3>2. b.version \in Nat
      BY <3>1 DEF ReadAnswers
    <3>3. b.version = storage_version
      BY <1>1, <3>1, <3>2 DEF ReadAnswerSound, AheadOf
    <3> QED
      BY <1>1, <1>4, <1>7, <3>1, <3>3 DEF ReadAnswerSound
  <2> QED
    BY <2>1, <2>2, <2>3 DEF Messages
<1>9. Ordered'
  <2>1. Line[1] = r /\ 1 \in DOMAIN Line
    BY <1>2 DEF Rows
  <2>2. r <= arrived
    BY <2>1 DEF Sound, Ordered
  <2>3. ASSUME NEW i \in DOMAIN log' PROVE log'[i] <= arrived /\ log'[i] <= Head(Line)
    <3>1. CASE i = n + 1
      BY <1>2, <1>3, <2>2, <3>1
    <3>2. CASE i # n + 1
      <4>1. i \in 1 .. n
        BY <1>1, <1>3, <3>2
      <4> QED
        BY <1>2, <1>3, <4>1 DEF Sound, Ordered
    <3> QED
      BY <3>1, <3>2
  <2> QED
    BY <2>3 DEF Sound, Ordered
<1>10. Arrivals' \subseteq ToSet(log') \cup ToSet(Line') \cup forgotten'
  <2>1. ToSet(log) \subseteq ToSet(log')
    BY <1>1, <1>3 DEF ToSet
  <2> QED
    BY <2>1 DEF Sound, Arrivals
<1>11. OnlyUnconfirmedRepeat'
  <2> SUFFICES ASSUME NEW i \in DOMAIN log', NEW j \in DOMAIN log', i < j
               PROVE  \/ log'[i] < log'[j]
                      \/ log'[i] = log'[j] /\ log'[i] \in unconfirmed
    BY DEF OnlyUnconfirmedRepeat
  <2>1. i \in 1 .. n
    BY <1>1, <1>3
  <2>2. CASE j = n + 1
    <3>1. log[i] <= r /\ log[i] \in ToSet(log) /\ log[i] \in Nat
      BY <1>2, <1>3, <2>1 DEF Sound, Ordered, ToSet, Rows
    <3>2. log'[i] = log[i] /\ log'[j] = r
      BY <1>3, <2>1, <2>2
    <3>3. log[i] = r => log[i] \in unconfirmed
      BY <1>2, <3>1
    <3> QED
      BY <1>2, <3>1, <3>2, <3>3
  <2>3. CASE j # n + 1
    <3>1. j \in 1 .. n
      BY <1>1, <1>3, <2>3
    <3> QED
      BY <1>3, <2>1, <3>1 DEF Sound, OnlyUnconfirmedRepeat
  <2> QED
    BY <2>2, <2>3
<1> QED
  BY <1>5, <1>6, <1>7, <1>8, <1>9, <1>10, <1>11 DEF Sound, Behind

LEMMA ExecuteCasSound ==
  ASSUME TypeOK, Sound, NEW w \in BagToSet(calls),
         calls' = calls (-) SetToBag({w}), ExecuteCas(w),
         UNCHANGED <<plugin, arrived, forgotten, unconfirmed, outbox>>
  PROVE  Sound'
<1> PICK x \in CasExecutions(store, w.expected, w.value) :
      /\ store' = x.record
      /\ log' = IF x.record = store THEN log ELSE Append(log, Last(w.value))
      /\ answers' = answers (+) SetToBag({[type |-> "cas", request |-> w.request,
                                           outcome |-> x.outcome, version |-> x.record.version]})
  BY DEF ExecuteCas
<1> PICK a : a = [type |-> "cas", request |-> w.request,
                  outcome |-> x.outcome, version |-> x.record.version]
  OBVIOUS
<1>1. w.type = "cas" /\ a.type = "cas" /\ a.request = w.request
      /\ a.outcome = x.outcome /\ a.version = x.record.version
  BY DEF ExecuteCas
<1> PICK new : new = Written(store, w.value)
  OBVIOUS
<1>2. /\ x.record = store \/ (x.record = new /\ store.version = w.expected)
      /\ x.outcome = "committed" => x.record = new
      /\ x.outcome = "refused" => store.version # w.expected
      /\ store.version # w.expected => x.record = store
  BY CasResult DEF CasExecutions
<1>3. new # store /\ new.version = store.version + 1
  <2>1. new.version = store.version + 1 /\ store.version \in Nat
    BY DEF Written, TypeOK
  <2> QED
    BY <2>1
<1>4. UNCHANGED <<records, queue, storage_version, loaded, pending, arrived, forgotten,
                  unconfirmed, outbox>>
  BY DEF plugin
<1>5. /\ Line' = Line /\ WritesUnderWay' \subseteq WritesUnderWay
      /\ BagToSet(answers') = BagToSet(answers) \cup {a}
      /\ OneRead' /\ OneWrite'
  BY <1>1, <1>2, <1>4, ExecuteCasMoves
<1>6. /\ a.request <= storage_version
      /\ a.request = storage_version => Line' # <<>>
  BY <1>1, <1>5, WriteVersion, WriteOfFirst
<1>7. CASE x.record = store
  <2>1. log' = log /\ store' = store
    BY <1>7
  <2>2. WriteAnswerSound(a)'
    BY <1>1, <1>2, <1>3, <1>4, <1>6, <1>7 DEF WriteAnswerSound
  <2> QED
    BY <1>1, <1>4, <1>5, <2>1, <2>2, QuietSound
<1>8. CASE x.record # store
  <2>1. /\ x.record = new /\ store.version = w.expected
        /\ log' = Append(log, Last(w.value)) /\ store' = Written(store, w.value)
    BY <1>2, <1>8
  <2>2. Last(w.value) \in Nat /\ log \in Rows /\ Len(log) \in Nat
    BY <1>1, MessageType DEF Writes, NonEmpty, Rows, Last, TypeOK
  <2>3. Len(log') = Len(log) + 1
    BY <2>1, <2>2, AppendOf
  <2>4. a.version = a.request + 1 /\ a.version <= Len(log')
    BY <1>1, <1>3, <2>1, <2>2, <2>3, WriteVersion
  <2>5. WriteAnswerSound(a)'
    BY <1>4, <1>6, <2>4 DEF WriteAnswerSound
  <2> QED
    BY <1>1, <1>4, <1>5, <2>1, <2>5, AppendSound
<1> QED
  BY <1>7, <1>8

-----------------------------------------------------------------------------
(* A new record, and the next write *)

LEMMA NothingAtEmpty ==
  ASSUME TypeOK, Sound, Line = <<>>
  PROVE  None(At(outbox), At(BagToSet(calls)), At(BagToSet(answers))) /\ pending = {}
<1>1. At(outbox) = {} /\ At(BagToSet(calls)) = {}
  BY DEF Sound, Messages, WritesUnderWay, WriteSound, FirstIs, At
<1>2. At(BagToSet(answers)) = {}
  BY DEF Sound, Messages, WriteAnswerSound, At
<1>3. pending = {}
  BY LineType
<1> QED
  BY <1>1, <1>2, <1>3 DEF None

(* process_queue writes the first of the line over the memory it follows.  *)
LEMMA ProcessSound ==
  ASSUME TypeOK, Sound, NEW version \in 0 .. Len(log), NEW waiting \in Rows,
         NEW rows, rows = Stored(version), ProcessQueue(rows, version, waiting),
         storage_version' = version, UNCHANGED <<log, calls>>, loaded',
         \/ /\ version = storage_version
            /\ \A r : FirstIs(r) => waiting # <<>> /\ Head(waiting) = r
         \/ version > storage_version,
         waiting # <<>> =>
            \/ Head(waiting) \in unconfirmed'
            \/ /\ Head(waiting) \notin ToSet(log)
               /\ \A x \in outbox \cup BagToSet(calls) \cup BagToSet(answers') :
                     x.type = "cas" => x.request # version
  PROVE  /\ Line' = waiting /\ Pending' /\ OneWrite'
         /\ \A w \in WritesUnderWay' : WriteSound(w)'
         /\ ReadsIn(outbox') = ReadsIn(outbox)
<1>1. rows \in Rows /\ version \in Nat /\ log \in Rows
  BY StoredOf DEF TypeOK, Rows
<1>2. Line' = waiting
  BY <1>1, Processed
<1>3. \A m : Stored(m)' = Stored(m)
  BY DEF Stored, Newest
<1>4. \A w \in WritesUnderWay : WriteSound(w)'
  <2> SUFFICES ASSUME NEW w \in WritesUnderWay PROVE WriteSound(w)'
    OBVIOUS
  <2>1. WriteSound(w) /\ w.request \in Nat /\ storage_version \in Nat
    BY MessageType DEF Sound, Messages, Writes, TypeOK
  <2> QED
    BY <1>1, <1>2, <1>3, <2>1 DEF WriteSound, FirstIs
<1>5. CASE waiting = <<>>
  <2>1. pending' = {} /\ outbox' = outbox
    BY <1>1, <1>5, Processed
  <2>2. WritesUnderWay' = WritesUnderWay
    BY <2>1 DEF WritesUnderWay
  <2> QED
    BY <1>2, <1>4, <1>5, <2>1, <2>2 DEF Pending, OneWrite
<1>6. CASE waiting # <<>>
  <2> PICK u \in Updates :
        /\ pending' = {u} /\ u.request = version /\ u.record = Head(waiting)
        /\ u.records = Newest(Append(rows, u.record))
        /\ outbox' = outbox \cup {WriteOf(u)}
    BY <1>1, <1>6, Processed
  <2>1. Pending'
    BY <1>3 DEF Pending
  <2>2. WriteSound(WriteOf(u))'
    <3>1. WriteOf(u).expected = version /\ WriteOf(u).request = version
          /\ WriteOf(u).value = u.records
      BY DEF WriteOf
    <3>2. Last(u.records) = u.record
      BY <1>1, NewestAppend DEF Updates
    <3> QED
      BY <1>1, <1>2, <1>3, <1>6, <3>1, <3>2 DEF WriteSound, FirstIs
  <2>3. WriteOf(u).type = "cas" /\ WriteOf(u).request = version
    BY DEF WriteOf
  <2>4. WritesUnderWay' = WritesUnderWay \cup {WriteOf(u)}
        /\ ReadsIn(outbox') = ReadsIn(outbox)
    BY <2>3 DEF WritesUnderWay, ReadsIn
  <2>5. OneWrite'
    <3> SUFFICES ASSUME Head(waiting) \notin unconfirmed' PROVE OneWrite'
      BY <1>2 DEF OneWrite
    <3>1. /\ At(outbox)' = {WriteOf(u)} /\ At(BagToSet(calls))' = {}
          /\ At(BagToSet(answers))' = {}
      BY <1>6, <2>3 DEF At
    <3>2. InBatch(At(outbox)', At(BagToSet(calls))', At(BagToSet(answers))')
      BY <3>1 DEF InBatch
    <3> QED
      BY <1>2, <1>6, <3>2 DEF OneWrite, InBatch
  <2> QED
    BY <1>2, <1>4, <2>1, <2>2, <2>4, <2>5
<1> QED
  BY <1>5, <1>6

LEMMA EnqueueSound ==
  ASSUME TypeOK, Sound, AppendRecord
  PROVE  Sound'
<1> PICK n : n = arrived + 1
  OBVIOUS
<1> PICK waiting : waiting = Append(queue, n)
  OBVIOUS
<1> PICK line : line = Append(Line, n)
  OBVIOUS
<1>1. /\ arrived' = n /\ n \in Nat /\ arrived \in Nat /\ n = arrived + 1
      /\ queue \in Rows /\ Line \in Rows /\ waiting \in Rows /\ waiting # <<>>
      /\ UNCHANGED <<records, storage_version, loaded, store, log, forgotten, unconfirmed,
                     calls, answers>>
      /\ Len(queue) < MaxPendingRecords
  BY LineType, EnqueueLine DEF AppendRecord, Enqueue, TypeOK
<1>2. \/ loaded /\ pending = {} /\ ProcessQueue(records, storage_version, waiting)
      \/ queue' = waiting /\ UNCHANGED <<pending, outbox>>
  BY EnqueueLine DEF AppendRecord
<1>3. /\ line \in Rows /\ line # <<>> /\ Len(line) = Len(Line) + 1 /\ Len(Line) \in Nat
      /\ \A i \in 1 .. Len(Line) : line[i] = Line[i]
      /\ line[Len(Line) + 1] = n
      /\ DOMAIN Line = 1 .. Len(Line) /\ DOMAIN line = 1 .. Len(Line) + 1
      /\ Line # <<>> => Head(line) = Head(Line)
      /\ Line = <<>> => Head(line) = n
  BY <1>1 DEF Rows
<1>4. Memory'
  <2>1. Stored(storage_version)' = Stored(storage_version) /\ Newest(log)' = Newest(log)
    BY <1>1 DEF Stored, Newest
  <2> QED
    BY <1>1, <2>1 DEF Sound, Memory
<1>5. n \notin ToSet(log)
  <2>1. \A i \in DOMAIN log : log[i] <= arrived /\ log[i] \in Nat
    BY DEF Sound, Ordered, TypeOK, Rows
  <2>2. \A i \in DOMAIN log : log[i] # n
    BY <1>1, <2>1
  <2> QED
    BY <2>2 DEF ToSet
<1>6. /\ Line' = line /\ Pending' /\ OneWrite' /\ OneRead'
      /\ \A w \in WritesUnderWay' : WriteSound(w)'
      /\ ~ loaded => WritesUnderWay' = WritesUnderWay
  <2>1. CASE loaded /\ pending = {} /\ ProcessQueue(records, storage_version, waiting)
    <3>1. waiting = line
      BY <2>1, LineType
    <3>2. records = Stored(storage_version) /\ storage_version \in 0 .. Len(log)
      BY <2>1 DEF Sound, Memory, TypeOK, Rows
    <3>3. \/ Head(line) \in unconfirmed'
          \/ /\ Head(line) \notin ToSet(log)
             /\ None(At(outbox), At(BagToSet(calls)), At(BagToSet(answers)))
      <4>1. CASE Line = <<>>
        BY <1>3, <1>5, <4>1, NothingAtEmpty
      <4>2. CASE Line # <<>>
        BY <1>1, <1>3, <2>1, <4>2 DEF Sound, OneWrite
      <4> QED
        BY <4>1, <4>2
    <3>4. \/ Head(line) \in unconfirmed'
          \/ /\ Head(line) \notin ToSet(log)
             /\ \A x \in outbox \cup BagToSet(calls) \cup BagToSet(answers') :
                   x.type = "cas" => x.request # storage_version
      BY <1>1, <3>3 DEF None, At
    <3>5. \A r : FirstIs(r) => line # <<>> /\ Head(line) = r
      BY <1>3 DEF FirstIs
    <3>6. /\ Line' = line /\ Pending' /\ OneWrite'
          /\ \A w \in WritesUnderWay' : WriteSound(w)'
          /\ ReadsIn(outbox') = ReadsIn(outbox)
      BY <1>1, <1>3, <2>1, <3>1, <3>2, <3>4, <3>5, ProcessSound
    <3>7. OneRead'
      BY <1>1, <2>1, <3>6 DEF Sound, OneRead, None
    <3> QED
      BY <2>1, <3>6, <3>7
  <2>2. CASE queue' = waiting /\ UNCHANGED <<pending, outbox>>
    <3>1. Line' = line
      <4>1. CASE pending = {}
        <5>1. Line' = waiting
          BY <1>1, <2>2, <4>1, LineOf DEF Line
        <5> QED
          BY <5>1, <4>1, LineType
      <4>2. ASSUME NEW u \in pending PROVE Line' = line
        <5>1. pending = {u} /\ Line = <<u.record>> \o queue /\ u.record \in Nat
          BY <4>2, LineType DEF TypeOK, Updates
        <5>2. Line' = <<u.record>> \o waiting
          <6>1. Line' = SetToSeq({w.record : w \in pending}) \o waiting
            BY <2>2 DEF Line
          <6> QED
            BY <1>1, <5>1, <6>1, LineOf
        <5>3. <<u.record>> \o Append(queue, n) = Append(<<u.record>> \o queue, n)
          BY <1>1, <5>1 DEF Rows
        <5> QED
          BY <5>1, <5>2, <5>3
      <4> QED
        BY <4>1, <4>2
    <3>2. /\ FirstStays /\ WritesUnderWay' = WritesUnderWay
          /\ storage_version' = storage_version /\ storage_version' \in Nat
      BY <1>1, <1>3, <2>2, <3>1 DEF FirstStays, FirstIs, WritesUnderWay, TypeOK
    <3>3. \A w \in WritesUnderWay' : WriteSound(w)'
      BY <1>1, <3>2, SoundStays
    <3>4. Pending' /\ OneRead'
      <4>1. \A m : Stored(m)' = Stored(m)
        BY <1>1 DEF Stored, Newest
      <4> QED
        BY <1>1, <2>2, <4>1 DEF Sound, Pending, OneRead, InBatch, Accepted, Answered
    <3>5. OneWrite'
      <4>1. /\ At(outbox)' = At(outbox) /\ At(BagToSet(calls))' = At(BagToSet(calls))
            /\ At(BagToSet(answers))' = At(BagToSet(answers))
        BY <1>1, <2>2 DEF At
      <4>2. CASE Line = <<>>
        BY <1>1, <1>3, <1>5, <2>2, <3>1, <4>1, <4>2, NothingAtEmpty DEF OneWrite, None
      <4>3. CASE Line # <<>>
        BY <1>1, <1>3, <2>2, <3>1, <4>1, <4>3
           DEF Sound, OneWrite, InBatch, Accepted, Answered
      <4> QED
        BY <4>2, <4>3
    <3> QED
      BY <3>1, <3>2, <3>3, <3>4, <3>5
  <2> QED
    BY <1>2, <2>1, <2>2
<1>7. FirstStays
  BY <1>3, <1>6 DEF FirstStays, FirstIs
<1>8. Behind'
  BY <1>1, <1>6, <1>7, ReadStays DEF Sound, Behind
<1>9. Messages'
  <2>1. storage_version' = storage_version /\ storage_version' \in Nat
    BY <1>1 DEF TypeOK
  <2>2. \A a \in BagToSet(answers) : IF a.type = "cas" THEN WriteAnswerSound(a)'
                                                       ELSE ReadAnswerSound(a)'
    BY <1>1, <1>7, <2>1, SoundStays, ReadStays, AnswerType
  <2> QED
    BY <1>1, <1>6, <2>2 DEF Messages
<1>10. Ordered'
  <2>1. ASSUME NEW i \in DOMAIN line PROVE line[i] <= n /\ line[i] \in Nat
    <3>1. CASE i = Len(Line) + 1
      BY <1>1, <1>3, <3>1
    <3>2. CASE i # Len(Line) + 1
      <4>1. i \in 1 .. Len(Line)
        BY <1>3, <3>2
      <4>2. Line[i] <= arrived /\ Line[i] \in Nat
        BY <1>1, <1>3, <4>1 DEF Sound, Ordered, Rows
      <4> QED
        BY <1>1, <1>3, <4>1, <4>2
    <3> QED
      BY <3>1, <3>2
  <2>2. ASSUME NEW i \in DOMAIN line, NEW j \in DOMAIN line, i < j PROVE line[i] < line[j]
    <3>1. i \in 1 .. Len(Line)
      BY <1>3, <2>2
    <3>2. Line[i] <= arrived /\ Line[i] \in Nat
      BY <1>1, <1>3, <3>1 DEF Sound, Ordered, Rows
    <3>3. CASE j = Len(Line) + 1
      BY <1>1, <1>3, <3>1, <3>2, <3>3
    <3>4. CASE j # Len(Line) + 1
      <4>1. j \in 1 .. Len(Line)
        BY <1>3, <3>4
      <4> QED
        BY <1>3, <2>2, <3>1, <4>1 DEF Sound, Ordered
    <3> QED
      BY <3>3, <3>4
  <2>3. ASSUME NEW i \in DOMAIN log PROVE log[i] <= n /\ log[i] <= Head(line)
    <3>1. log[i] <= arrived /\ log[i] \in Nat
      BY DEF Sound, Ordered, TypeOK, Rows
    <3>2. Line # <<>> => log[i] <= Head(Line)
      BY DEF Sound, Ordered
    <3> QED
      BY <1>1, <1>3, <3>1, <3>2
  <2> QED
    BY <1>1, <1>6, <2>1, <2>2, <2>3 DEF Ordered
<1>11. Len(Line') <= MaxPendingRecords + 1
  <2>1. MaxPendingRecords \in Nat
    BY SettingsAssumption
  <2>2. Len(Line) <= Len(queue) + 1 /\ Len(queue) \in Nat
    <3>1. CASE pending = {}
      BY <1>1, <3>1, LineType DEF Rows
    <3>2. ASSUME NEW u \in pending PROVE Len(Line) <= Len(queue) + 1
      <4>1. Line # <<>> /\ Tail(Line) = queue
        BY <3>2, LineType
      <4> QED
        BY <1>1, <4>1, HeadTailProperties DEF Rows
    <3> QED
      BY <1>1, <3>1, <3>2 DEF Rows
  <2> QED
    BY <1>1, <1>3, <1>6, <2>1, <2>2
<1>12. Arrivals' \subseteq ToSet(log') \cup ToSet(Line') \cup forgotten'
  <2>1. ToSet(Line) \subseteq ToSet(line) /\ n \in ToSet(line)
    BY <1>3 DEF ToSet
  <2>2. Arrivals' \subseteq Arrivals \cup {n}
    BY <1>1 DEF Arrivals
  <2> QED
    BY <1>1, <1>6, <2>1, <2>2 DEF Sound
<1>13. OnlyUnconfirmedRepeat'
  BY <1>1 DEF Sound, OnlyUnconfirmedRepeat
<1> QED
  BY <1>4, <1>6, <1>8, <1>9, <1>10, <1>11, <1>12, <1>13 DEF Sound

-----------------------------------------------------------------------------
(* Answers and restarts *)

(* A delivered answer is one of those the sets are about, or another.      *)
LEMMA DeliverFrame ==
  ASSUME TypeOK, Sound, NEW a \in BagToSet(answers), answers' = answers (-) SetToBag({a})
  PROVE  /\ BagToSet(answers') \subseteq BagToSet(answers)
         /\ ReadsIn(BagToSet(answers')) = ReadsIn(BagToSet(answers)) \cap BagToSet(answers')
  BY BagRemove DEF TypeOK, ReadsIn

(* The first answer to a read is the only one: it finds nothing pending.   *)
LEMMA ReadDelivered ==
  ASSUME TypeOK, Sound, NEW a \in BagToSet(answers), a.type = "get",
         answers' = answers (-) SetToBag({a}), calls' = calls
  PROVE  /\ ~ loaded /\ pending = {} /\ ReadAnswerSound(a)
         /\ None(ReadsIn(outbox), ReadsIn(BagToSet(calls)), ReadsIn(BagToSet(answers')))
<1> PICK O : O = ReadsIn(outbox)
  OBVIOUS
<1> PICK C : C = ReadsIn(BagToSet(calls))
  OBVIOUS
<1> PICK A : A = ReadsIn(BagToSet(answers))
  OBVIOUS
<1>1. a \in A /\ A \in SUBSET BagToSet(answers)
  BY DEF ReadsIn
<1>2. /\ ~ None(O, C, A) /\ ~ InBatch(O, C, A) /\ ~ Accepted(O, C, A)
      /\ Answered(O, C, A) => None(O, C, A \cap BagToSet(answers'))
  BY <1>1, DeliverOwn
<1>3. Answered(O, C, A) /\ ~ loaded /\ pending = {}
  BY <1>2 DEF Sound, OneRead
<1>4. ReadsIn(BagToSet(answers')) = A \cap BagToSet(answers')
  BY DeliverFrame
<1>5. ReadAnswerSound(a)
  BY DEF Sound, Messages
<1> QED
  BY <1>2, <1>3, <1>4, <1>5

(* An answer to a write leaves the reads alone. *)
LEMMA ReadsStay ==
  ASSUME TypeOK, Sound, NEW a \in BagToSet(answers), a.type = "cas",
         answers' = answers (-) SetToBag({a}), UNCHANGED <<outbox, calls, loaded, pending>>
  PROVE  OneRead'
<1> PICK O : O = ReadsIn(outbox)
  OBVIOUS
<1> PICK C : C = ReadsIn(BagToSet(calls))
  OBVIOUS
<1> PICK A : A = ReadsIn(BagToSet(answers))
  OBVIOUS
<1>1. a \notin A /\ A \in SUBSET BagToSet(answers)
  BY DEF ReadsIn
<1>2. /\ A \cap BagToSet(answers') = A
      /\ Accepted(O, C, A) => Accepted(O, C, A)'
      /\ Answered(O, C, A) => Answered(O, C, A)'
  BY <1>1, DeliverOther
<1>3. /\ ReadsIn(outbox') = O /\ ReadsIn(BagToSet(calls')) = C
      /\ ReadsIn(BagToSet(answers')) = A
  BY <1>2, DeliverFrame
<1>4. \/ None(O, C, A)
      \/ /\ InBatch(O, C, A) \/ Accepted(O, C, A) \/ Answered(O, C, A)
         /\ ~ loaded /\ pending = {}
  BY DEF Sound, OneRead
<1> QED
  BY <1>2, <1>3, <1>4 DEF OneRead

(* An answer that is not of the version the memory is at, or that is       *)
(* neither awaited.                                                        *)
LEMMA WritesStay ==
  ASSUME TypeOK, Sound, NEW a \in BagToSet(answers),
         answers' = answers (-) SetToBag({a}), calls' = calls,
         a.type = "cas" => \A u \in pending : u.request # a.request,
         UNCHANGED <<queue, pending, storage_version, log, unconfirmed, outbox>>
  PROVE  OneWrite'
<1>1. Line' = Line
  BY DEF Line
<1> SUFFICES ASSUME Line # <<>>, Head(Line) \notin unconfirmed PROVE OneWrite'
  BY <1>1 DEF OneWrite
<1> PICK O : O = At(outbox)
  OBVIOUS
<1> PICK C : C = At(BagToSet(calls))
  OBVIOUS
<1> PICK A : A = At(BagToSet(answers))
  OBVIOUS
<1>2. \/ /\ IF pending = {} THEN None(O, C, A) ELSE InBatch(O, C, A) \/ Accepted(O, C, A)
         /\ Head(Line) \notin ToSet(log)
      \/ pending # {} /\ Answered(O, C, A) /\ \A b \in A : b.outcome # "refused"
  BY DEF Sound, OneWrite
<1>3. a \notin A
  <2>1. \A u \in pending : u.request = storage_version
    BY DEF Sound, Pending
  <2>2. a \in A => pending = {}
    BY <2>1 DEF At
  <2> QED
    BY <1>2, <2>2 DEF None
<1>4. /\ A \in SUBSET BagToSet(answers) /\ At(outbox)' = O /\ At(BagToSet(calls))' = C
      /\ At(BagToSet(answers))' = A \cap BagToSet(answers')
  BY DeliverFrame DEF At
<1>5. /\ A \cap BagToSet(answers') = A
      /\ Accepted(O, C, A) => Accepted(O, C, A)'
      /\ Answered(O, C, A) => Answered(O, C, A)'
  BY <1>3, <1>4, DeliverOther
<1> QED
  BY <1>1, <1>2, <1>4, <1>5 DEF OneWrite

LEMMA StorageGetSound ==
  ASSUME TypeOK, Sound, NEW a \in BagToSet(answers),
         answers' = answers (-) SetToBag({a}), StorageGet(a),
         UNCHANGED <<store, arrived, log, forgotten, calls>>
  PROVE  Sound'
<1>1. /\ ~ loaded /\ pending = {} /\ ReadAnswerSound(a) /\ a \in ReadAnswers
      /\ None(ReadsIn(outbox), ReadsIn(BagToSet(calls)), ReadsIn(BagToSet(answers')))
      /\ BagToSet(answers') \subseteq BagToSet(answers) /\ unconfirmed' = unconfirmed
      /\ a.type = "get" /\ Line = queue
  BY ReadDelivered, DeliverFrame, AnswerType, LineType DEF StorageGet
<1>2. CASE ~ loaded' /\ UNCHANGED <<records, storage_version, queue, pending, outbox>>
  <2>1. Line' = Line /\ WritesUnderWay' = WritesUnderWay
    BY <1>2 DEF Line, WritesUnderWay
  <2>2. OneRead'
    BY <1>1, <1>2 DEF OneRead, None
  <2>3. OneWrite'
    BY <1>1, <1>2, WritesStay
  <2> QED
    BY <1>1, <1>2, <2>1, <2>2, <2>3, QuietSound
<1>3. CASE /\ records' = a.value /\ storage_version' = a.version /\ loaded' = TRUE
           /\ ProcessQueue(a.value, a.version, queue)
  <2>1. /\ a.version \in Nat /\ storage_version \in Nat /\ Len(log) \in Nat
        /\ storage_version <= a.version /\ a.version <= Len(log) /\ a.version \in 0 .. Len(log)
        /\ a.value = Stored(a.version) /\ queue \in Rows /\ AheadOf(a.version)
    BY <1>1 DEF ReadAnswers, ReadAnswerSound, AheadOf, TypeOK, Rows
  <2>2. \/ /\ a.version = storage_version
           /\ \A r : FirstIs(r) => queue # <<>> /\ Head(queue) = r
        \/ a.version > storage_version
    BY <1>1, <2>1 DEF FirstIs
  <2>3. Line # <<>> =>
          \/ Head(Line) \in unconfirmed'
          \/ /\ Head(Line) \notin ToSet(log)
             /\ \A x \in outbox \cup BagToSet(calls) \cup BagToSet(answers') :
                   x.type = "cas" => x.request # a.version
    <3> SUFFICES ASSUME Line # <<>>, Head(Line) \notin unconfirmed
                 PROVE  /\ Head(Line) \notin ToSet(log)
                        /\ \A x \in outbox \cup BagToSet(calls) \cup BagToSet(answers') :
                              x.type = "cas" => x.request # a.version
      BY <1>1
    <3>1. /\ Head(Line) \notin ToSet(log)
          /\ None(At(outbox), At(BagToSet(calls)), At(BagToSet(answers)))
      BY <1>1 DEF Sound, OneWrite
    <3>2. \A x \in outbox \cup BagToSet(calls) \cup BagToSet(answers') :
             x.type = "cas" => x.request # storage_version
      BY <1>1, <3>1 DEF None, At
    <3>3. \A x \in outbox \cup BagToSet(calls) \cup BagToSet(answers') :
             x.type = "cas" => x.request <= storage_version /\ x.request \in Nat
      <4>1. \A w \in WritesUnderWay : w.request <= storage_version /\ w.request \in Nat
        BY MessageType DEF Sound, Messages, WriteSound, Writes
      <4>2. \A b \in BagToSet(answers) : b.type = "cas" =>
               b.request <= storage_version /\ b.request \in Nat
        BY AnswerType DEF Sound, Messages, WriteAnswerSound, WriteAnswers
      <4> QED
        BY <1>1, <4>1, <4>2 DEF WritesUnderWay
    <3>4. \A x \in outbox \cup BagToSet(calls) \cup BagToSet(answers') :
             x.type = "cas" => x.request # a.version
      <4> SUFFICES ASSUME NEW x \in outbox \cup BagToSet(calls) \cup BagToSet(answers'),
                          x.type = "cas"
                   PROVE  x.request # a.version
        OBVIOUS
      <4>1. x.request # storage_version /\ x.request <= storage_version /\ x.request \in Nat
        BY <3>2, <3>3
      <4> QED
        BY <2>1, <4>1
    <3> QED
      BY <3>1, <3>4
  <2>4. /\ Line' = queue /\ Pending' /\ OneWrite'
        /\ \A w \in WritesUnderWay' : WriteSound(w)'
        /\ ReadsIn(outbox') = ReadsIn(outbox)
    BY <1>1, <1>3, <2>1, <2>2, <2>3, ProcessSound
  <2>5. OneRead'
    BY <1>1, <2>4 DEF OneRead
  <2>6. Memory'
    <3>1. Stored(a.version)' = Stored(a.version) /\ Newest(log)' = Newest(log)
      BY DEF Stored, Newest
    <3> QED
      BY <1>3, <2>1, <3>1 DEF Sound, Memory
  <2>7. AheadOf(storage_version)'
    BY <1>1, <1>3, <2>1, <2>4 DEF AheadOf, FirstIs
  <2>8. Messages'
    <3>1. \A b \in BagToSet(answers') : b.type = "cas"
      BY <1>1, AnswerType DEF None, ReadsIn
    <3>2. FirstStays /\ storage_version' \in Nat
      BY <1>1, <1>3, <2>1, <2>4 DEF FirstStays, FirstIs
    <3>3. \A b \in BagToSet(answers) : b.type = "cas" => WriteAnswerSound(b)'
      BY <1>3, <2>1, <3>2, SoundStays
    <3> QED
      BY <1>1, <2>4, <3>1, <3>3 DEF Messages
  <2> QED
    BY <1>1, <2>4, <2>5, <2>6, <2>7, <2>8
       DEF Sound, Behind, Ordered, OnlyUnconfirmedRepeat, Arrivals
<1> QED
  BY <1>1, <1>2, <1>3 DEF StorageGet

LEMMA CommittedSound ==
  ASSUME TypeOK, Sound, NEW a \in BagToSet(answers), NEW u \in pending,
         a.type = "cas", a.request = u.request, Committed(a, u),
         answers' = answers (-) SetToBag({a}),
         UNCHANGED <<store, arrived, log, forgotten, calls>>
  PROVE  Sound'
<1> PICK v : v = a.version
  OBVIOUS
<1>1. /\ loaded /\ u.request = storage_version /\ u.record \in Nat
      /\ u.records = Newest(Append(Stored(storage_version), u.record))
      /\ Line = <<u.record>> \o queue /\ Line # <<>> /\ Head(Line) = u.record /\ Tail(Line) = queue
      /\ Line \in Rows /\ queue \in Rows /\ log \in Rows
  BY LineType DEF Sound, Pending, TypeOK, Updates
<1>2. /\ v = storage_version + 1 /\ storage_version \in Nat /\ Len(log) = v
      /\ log[v] = u.record
  <2>1. WriteAnswerSound(a) /\ storage_version \in Nat /\ Len(log) \in Nat
    BY DEF Sound, Messages, TypeOK, Rows
  <2>2. v = storage_version + 1 /\ v <= Len(log)
    BY <1>1, <2>1 DEF Committed, WriteAnswerSound
  <2>3. AheadOf(storage_version)
    BY <1>1 DEF Sound, Behind
  <2> QED
    BY <1>1, <2>1, <2>2, <2>3 DEF AheadOf, FirstIs
<1>3. u.records = Stored(v)
  <2>1. storage_version < Len(log)
    BY <1>2
  <2> QED
    BY <1>1, <1>2, <2>1, StoredOf
<1>4. /\ records' = u.records /\ storage_version' = v /\ loaded' /\ unconfirmed' = unconfirmed
      /\ ProcessQueue(u.records, v, queue)
      /\ BagToSet(answers') \subseteq BagToSet(answers)
  BY <1>1, DeliverFrame DEF Committed
<1>5. queue # <<>> =>
         /\ Head(queue) = Line[2] /\ 2 \in DOMAIN Line /\ Head(queue) \in Nat
         /\ Line[1] = Head(Line) /\ 1 \in DOMAIN Line
  BY <1>1 DEF Rows
<1>6. queue # <<>> => Head(Line) < Head(queue)
  BY <1>5 DEF Sound, Ordered
<1>7. \A i \in DOMAIN log : log[i] \in Nat /\ log[i] <= Head(Line)
  BY <1>1 DEF Sound, Ordered, Rows
<1>8. /\ Line' = queue /\ Pending' /\ OneWrite'
      /\ \A w \in WritesUnderWay' : WriteSound(w)'
      /\ ReadsIn(outbox') = ReadsIn(outbox)
  <2>1. queue # <<>> => Head(queue) \notin ToSet(log)
    <3>1. queue # <<>> => \A i \in DOMAIN log : log[i] # Head(queue)
      BY <1>1, <1>5, <1>6, <1>7
    <3> QED
      BY <3>1 DEF ToSet
  <2>2. \A w \in WritesUnderWay : w.request # v
    BY <1>2, MessageType DEF Sound, Messages, WriteSound, Writes
  <2>3. \A b \in BagToSet(answers) : b.type = "cas" => b.request # v
    BY <1>2, AnswerType DEF Sound, Messages, WriteAnswerSound, WriteAnswers
  <2>4. \A x \in outbox \cup BagToSet(calls) \cup BagToSet(answers') :
           x.type = "cas" => x.request # v
    BY <1>4, <2>2, <2>3 DEF WritesUnderWay
  <2>5. v \in 0 .. Len(log) /\ v > storage_version
    BY <1>2
  <2> QED
    BY <1>1, <1>3, <1>4, <2>1, <2>4, <2>5, ProcessSound
<1>9. OneRead' /\ \A b \in BagToSet(answers') : b.type = "cas"
  <2>1. None(ReadsIn(outbox), ReadsIn(BagToSet(calls)), ReadsIn(BagToSet(answers)))
    BY <1>1 DEF Sound, OneRead
  <2>2. ReadsIn(BagToSet(answers')) = {}
    BY <2>1, <1>4 DEF None, ReadsIn
  <2> QED
    BY <1>4, <1>8, <2>1, <2>2, AnswerType DEF OneRead, None, ReadsIn
<1>10. Memory'
  <2>1. Stored(v)' = Stored(v) /\ Newest(log)' = Newest(log)
    BY DEF Stored, Newest
  <2> QED
    BY <1>2, <1>3, <1>4, <2>1 DEF Sound, Memory
<1>11. AheadOf(storage_version)'
  BY <1>2, <1>4 DEF AheadOf
<1>12. Messages'
  <2>1. storage_version' \in Nat /\ storage_version' > storage_version
    BY <1>2, <1>4
  <2>2. \A b \in BagToSet(answers) : b.type = "cas" => WriteAnswerSound(b)'
    BY <2>1, SoundStays
  <2> QED
    BY <1>4, <1>8, <1>9, <2>2 DEF Messages
<1>13. Ordered'
  <2>1. \A i \in DOMAIN queue : queue[i] = Line[i + 1] /\ i + 1 \in DOMAIN Line /\ i \in Int
    BY <1>1 DEF Rows
  <2>2. \A i, j \in DOMAIN queue : i < j => queue[i] < queue[j]
    BY <2>1 DEF Sound, Ordered
  <2>3. \A i \in DOMAIN queue : queue[i] <= arrived
    BY <2>1 DEF Sound, Ordered
  <2>4. \A i \in DOMAIN log : queue # <<>> => log[i] <= Head(queue)
    BY <1>1, <1>5, <1>6, <1>7
  <2> QED
    BY <1>8, <2>2, <2>3, <2>4 DEF Sound, Ordered
<1>14. Len(Line') <= MaxPendingRecords + 1
  <2>1. Len(queue) = Len(Line) - 1 /\ Len(Line) \in Nat /\ MaxPendingRecords \in Nat
    BY <1>1, HeadTailProperties, SettingsAssumption DEF Rows
  <2> QED
    BY <1>8, <2>1 DEF Sound
<1>15. Arrivals' \subseteq ToSet(log') \cup ToSet(Line') \cup forgotten'
  <2>1. ToSet(Line) \subseteq ToSet(queue) \cup {u.record}
    BY <1>1 DEF ToSet, Rows
  <2>2. u.record \in ToSet(log)
    <3>1. v \in DOMAIN log
      BY <1>1, <1>2 DEF Rows
    <3> QED
      BY <1>2, <3>1 DEF ToSet
  <2> QED
    BY <1>8, <2>1, <2>2 DEF Sound, Arrivals
<1>16. OnlyUnconfirmedRepeat'
  BY <1>4 DEF Sound, OnlyUnconfirmedRepeat
<1> QED
  BY <1>8, <1>9, <1>10, <1>11, <1>12, <1>13, <1>14, <1>15, <1>16 DEF Sound, Behind

LEMMA NotCommittedSound ==
  ASSUME TypeOK, Sound, NEW a \in BagToSet(answers), NEW u \in pending,
         a.type = "cas", a.request = u.request, NotCommitted(a, u),
         answers' = answers (-) SetToBag({a}),
         UNCHANGED <<store, arrived, log, forgotten, calls>>
  PROVE  Sound'
<1>1. /\ loaded /\ u.request = storage_version
      /\ Line = <<u.record>> \o queue /\ Line # <<>> /\ Head(Line) = u.record /\ Line \in Rows
      /\ queue' = <<u.record>> \o queue /\ pending' = {} /\ ~ loaded'
      /\ outbox' = outbox \cup {Read}
      /\ unconfirmed' = IF a.outcome = "failed" THEN unconfirmed \cup {u.record}
                                                ELSE unconfirmed
      /\ UNCHANGED <<records, storage_version>>
      /\ BagToSet(answers') \subseteq BagToSet(answers)
  BY LineType, DeliverFrame DEF Sound, Pending, NotCommitted
<1>2. Line' = Line
  BY <1>1, LineOf DEF Line
<1>3. WritesUnderWay' = WritesUnderWay /\ ReadsIn(outbox') = ReadsIn(outbox) \cup {Read}
  BY <1>1 DEF WritesUnderWay, ReadsIn, Read
<1>4. OneRead'
  <2>1. None(ReadsIn(outbox), ReadsIn(BagToSet(calls)), ReadsIn(BagToSet(answers)))
    BY <1>1 DEF Sound, OneRead
  <2>2. /\ ReadsIn(outbox') = {Read} /\ ReadsIn(BagToSet(calls')) = {}
        /\ ReadsIn(BagToSet(answers')) = {}
    BY <1>1, <1>3, <2>1 DEF None, ReadsIn
  <2>3. InBatch(ReadsIn(outbox'), ReadsIn(BagToSet(calls')), ReadsIn(BagToSet(answers')))
    BY <2>2 DEF InBatch
  <2> QED
    BY <1>1, <2>3 DEF OneRead, InBatch
<1>5. OneWrite'
  <2>1. Head(Line) \in unconfirmed'
    <3>1. CASE a.outcome = "failed"
      BY <1>1, <3>1
    <3>2. CASE a.outcome # "failed"
      <4>1. a.outcome = "refused"
        BY <3>2, AnswerType DEF NotCommitted, WriteAnswers
      <4>2. a \in At(BagToSet(answers))
        BY <1>1 DEF At
      <4>3. Head(Line) \in unconfirmed
        BY <1>1, <4>1, <4>2 DEF Sound, OneWrite, None, InBatch, Accepted
      <4> QED
        BY <1>1, <4>3
    <3> QED
      BY <3>1, <3>2
  <2> QED
    BY <1>2, <2>1 DEF OneWrite
<1> QED
  BY <1>1, <1>2, <1>3, <1>4, <1>5, QuietSound

LEMMA DeliverSound ==
  ASSUME TypeOK, Sound, Deliver
  PROVE  Sound'
<1> PICK a \in BagToSet(answers) :
      /\ answers' = answers (-) SetToBag({a})
      /\ StorageGet(a) \/ StorageCas(a)
      /\ UNCHANGED <<store, arrived, log, forgotten, calls>>
  BY DEF Deliver
<1>1. CASE StorageGet(a)
  BY <1>1, StorageGetSound
<1>2. ASSUME NEW u \in pending, a.type = "cas", a.request = u.request,
             Committed(a, u) \/ NotCommitted(a, u)
      PROVE  Sound'
  BY <1>2, CommittedSound, NotCommittedSound
<1>3. CASE Ignored(a)
  <2>1. /\ a.type = "cas" /\ \A u \in pending : u.request # a.request
        /\ UNCHANGED <<records, queue, storage_version, loaded, pending, unconfirmed, outbox>>
    BY <1>3 DEF Ignored, plugin
  <2>2. Line' = Line /\ WritesUnderWay' = WritesUnderWay
    BY <2>1 DEF Line, WritesUnderWay
  <2>3. OneRead' /\ OneWrite'
    BY <2>1, ReadsStay, WritesStay
  <2> QED
    BY <2>1, <2>2, <2>3, DeliverFrame, QuietSound
<1> QED
  BY <1>1, <1>2, <1>3 DEF StorageCas

LEMMA RestartSound ==
  ASSUME TypeOK, Sound, Restart
  PROVE  Sound'
<1>1. /\ records' = <<>> /\ queue' = <<>> /\ storage_version' = 0
      /\ loaded' = FALSE /\ pending' = {} /\ outbox' = {Read}
      /\ calls' = EmptyBag /\ answers' = EmptyBag /\ forgotten' = forgotten \cup Waiting
      /\ UNCHANGED <<store, arrived, log, unconfirmed>>
  BY DEF Restart
<1>2. BagToSet(calls') = {} /\ BagToSet(answers') = {}
  BY <1>1, NoCalls
<1>3. Line' = <<>>
  <2>1. <<>> \in Rows
    BY DEF Rows
  <2> QED
    BY <1>1, <2>1, LineOf DEF Line
<1>4. WritesUnderWay' = {}
  BY <1>1, <1>2 DEF WritesUnderWay, Read
<1>5. Memory'
  <2>1. Newest(log)' = Newest(log) /\ Len(log) \in Nat
    BY <1>1 DEF Newest, TypeOK, Rows
  <2> QED
    BY <1>1, <2>1 DEF Sound, Memory
<1>6. OneRead'
  <2>1. /\ ReadsIn(outbox') = {Read} /\ ReadsIn(BagToSet(calls')) = {}
        /\ ReadsIn(BagToSet(answers')) = {}
    BY <1>1, <1>2 DEF ReadsIn, Read
  <2> QED
    BY <1>1, <2>1 DEF OneRead, InBatch
<1>7. Pending' /\ Behind' /\ Messages' /\ OneWrite'
  BY <1>1, <1>2, <1>3, <1>4 DEF Pending, Behind, Messages, OneWrite
<1>8. Ordered'
  BY <1>1, <1>3 DEF Sound, Ordered
<1>9. Len(Line') <= MaxPendingRecords + 1
  BY <1>3, SettingsAssumption
<1>10. Arrivals' \subseteq ToSet(log') \cup ToSet(Line') \cup forgotten'
  <2>1. ToSet(Line) = Waiting
    BY WaitingLine
  <2> QED
    BY <1>1, <2>1 DEF Sound, Arrivals
<1>11. OnlyUnconfirmedRepeat'
  BY <1>1 DEF Sound, OnlyUnconfirmedRepeat
<1> QED
  BY <1>5, <1>6, <1>7, <1>8, <1>9, <1>10, <1>11 DEF Sound

LEMMA InitSound == Init => Sound
<1> SUFFICES ASSUME Init PROVE Sound
  OBVIOUS
<1>1. <<>> \in Rows /\ Len(<<>>) = 0 /\ DOMAIN <<>> = {}
  BY DEF Rows
<1>2. Line = <<>>
  BY <1>1, LineOf DEF Init, Line
<1>3. BagToSet(calls) = {} /\ BagToSet(answers) = {} /\ outbox = {Read}
  BY NoCalls DEF Init
<1>4. Newest(<<>>) = <<>>
  <2> PICK e : e = <<>>
    OBVIOUS
  <2>1. e \in Rows /\ Len(e) = 0
    BY <1>1
  <2>2. Newest(e) \in Rows /\ Len(Newest(e)) = 0
    BY <2>1, NewestOf, SettingsAssumption
  <2>3. Newest(e) = <<>>
    BY <2>2 DEF Rows
  <2> QED
    BY <2>3
<1>5. Memory
  BY <1>1, <1>4 DEF Init, Memory
<1>6. WritesUnderWay = {}
  BY <1>3 DEF WritesUnderWay, Read
<1>7. OneRead
  <2>1. /\ ReadsIn(outbox) = {Read} /\ ReadsIn(BagToSet(calls)) = {}
        /\ ReadsIn(BagToSet(answers)) = {}
    BY <1>3 DEF ReadsIn, Read
  <2> QED
    BY <2>1 DEF Init, OneRead, InBatch
<1>8. Pending /\ Behind /\ Messages /\ OneWrite
  BY <1>2, <1>3, <1>6 DEF Init, Pending, Behind, Messages, OneWrite
<1>9. Ordered /\ OnlyUnconfirmedRepeat
  BY <1>1, <1>2 DEF Init, Ordered, OnlyUnconfirmedRepeat
<1>10. Len(Line) <= MaxPendingRecords + 1
  BY <1>1, <1>2, SettingsAssumption
<1>11. Arrivals = {}
  BY DEF Init, Arrivals
<1> QED
  BY <1>5, <1>7, <1>8, <1>9, <1>10, <1>11 DEF Sound

LEMMA NextSound == TypeOK /\ Sound /\ [Next]_vars => Sound'
<1> SUFFICES ASSUME TypeOK, Sound, [Next]_vars PROVE Sound'
  OBVIOUS
<1>1. CASE Execute
  <2> PICK call \in BagToSet(calls) :
        /\ calls' = calls (-) SetToBag({call})
        /\ ExecuteGet(call) \/ ExecuteCas(call)
        /\ UNCHANGED <<plugin, arrived, forgotten, unconfirmed, outbox>>
    BY <1>1 DEF Execute
  <2> QED
    BY ExecuteGetSound, ExecuteCasSound
<1>2. CASE UNCHANGED vars
  <2>1. UNCHANGED <<records, queue, storage_version, loaded, pending, store, arrived, log,
                    forgotten, unconfirmed, outbox, calls, answers>>
    BY <1>2 DEF vars, plugin, history
  <2>2. Line' = Line /\ WritesUnderWay' = WritesUnderWay
    BY <2>1 DEF Line, WritesUnderWay
  <2>3. OneRead'
    BY <2>1 DEF Sound, OneRead, InBatch, Accepted, Answered
  <2>4. OneWrite'
    BY <2>1, <2>2 DEF Sound, OneWrite, At, InBatch, Accepted, Answered
  <2> QED
    BY <2>1, <2>2, <2>3, <2>4, QuietSound
<1> QED
  BY <1>1, <1>2, EnqueueSound, QuerySound, DeliverSound, AcceptSound, RejectSound, RestartSound
     DEF Next

-----------------------------------------------------------------------------
(* The theorems *)

(* Every reachable state of the plugin and the host is well typed and      *)
(* Sound: the line of waiting records, the memory and the messages under   *)
(* way agree on what append comes next.                                    *)
THEOREM AlwaysSound == Spec => [](TypeOK /\ Sound)
<1>1. Init => TypeOK /\ Sound
  BY InitType, InitSound
<1>2. TypeOK /\ Sound /\ [Next]_vars => (TypeOK /\ Sound)'
  BY NextType, NextSound
<1> QED
  BY <1>1, <1>2, PTL DEF Spec

(* append and process_queue: an accepted record is stored, waits, or was   *)
(* still waiting at a restart, and the queue is bounded, whatever the host *)
(* refuses, fails or answers late.                                         *)
THEOREM NothingLostAlways == Spec => []NothingLost
<1>1. TypeOK /\ Sound => NothingLost
  <2> SUFFICES ASSUME TypeOK, Sound PROVE NothingLost
    OBVIOUS
  <2>1. ToSet(Line) = Waiting
    BY WaitingLine
  <2>2. Cardinality(pending) + Len(queue) = Len(Line)
    <3>1. queue \in Rows
      BY DEF TypeOK
    <3>2. CASE pending = {}
      BY <3>1, <3>2, LineType, FS_EmptySet DEF Rows
    <3>3. ASSUME NEW u \in pending PROVE Cardinality(pending) + Len(queue) = Len(Line)
      <4>1. pending = {u} /\ Line # <<>> /\ Tail(Line) = queue /\ Line \in Rows
        BY <3>3, LineType
      <4>2. Cardinality(pending) = 1
        BY <4>1, FS_Singleton
      <4> QED
        BY <4>1, <4>2, HeadTailProperties DEF Rows
    <3> QED
      BY <3>2, <3>3
  <2> QED
    BY <2>1, <2>2 DEF Sound, NothingLost
<1> QED
  BY <1>1, AlwaysSound, PTL

(* storage_get and storage_cas: the stored history is the newest of what   *)
(* was appended, and a loaded memory is that of the version it claims.     *)
THEOREM HistoryIsNewestAlways == Spec => []HistoryIsNewest
<1>1. Sound => HistoryIsNewest
  BY DEF Sound, Memory, Stored, HistoryIsNewest
<1> QED
  BY <1>1, AlwaysSound, PTL

(* Records are stored in the order they arrived, and one is stored again   *)
(* only if it was queued again while its first write may have committed.   *)
THEOREM OnlyUnconfirmedRepeatAlways == Spec => []OnlyUnconfirmedRepeat
<1>1. Sound => OnlyUnconfirmedRepeat
  BY DEF Sound
<1> QED
  BY <1>1, AlwaysSound, PTL
=============================================================================
