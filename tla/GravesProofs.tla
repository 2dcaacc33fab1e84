---------------------------- MODULE GravesProofs ----------------------------
(***************************************************************************)
(* Theorems about Graves for any players, cells, limits and bounds; which  *)
(* faults and which use of the cells a theorem allows is its hypothesis.   *)
(***************************************************************************)
EXTENDS Graves, TLAPS, FiniteSetTheorems, SequenceTheorems, WellFoundedInduction

Grave == [owner : Players, public_at : 0 .. MaxTick, protected : BOOLEAN]

ZoneRequests ==
  [type : {"upsert"}, cell : Cells, owner : Players] \cup [type : {"remove"}, cell : Cells]

StorageRequests ==
  [type : {"get"}, request : Nat]
    \cup [type : {"cas"}, request : Nat, expected : Nat, value : Graveyards]

(* The type invariant with what the host holds: only requests, and finitely *)
(* many, so that a new number is always free.                               *)
Typed ==
  /\ TypeOK
  /\ IsFiniteSet(pending)
  /\ calls \subseteq StorageRequests /\ IsFiniteSet(calls)
  /\ IsFiniteSet(answers)
  /\ zone_calls \in Seq(ZoneRequests)

-----------------------------------------------------------------------------
(* Numbers, and the order of a finite set *)

(* Induction in the only form the provers here can use: a set of numbers   *)
(* that is not empty has a least one.                                      *)
LEMMA LeastNat ==
  ASSUME NEW T \in SUBSET Nat, T # {}
  PROVE  \E m \in T : \A n \in T : m <= n
<1>1. \A n, m \in Nat : <<n, m>> \in OpToRel(<, Nat) <=> n < m
  BY DEF OpToRel
<1>2. \E R : IsWellFoundedOn(R, Nat) /\ \A n, m \in Nat : <<n, m>> \in R <=> n < m
  BY <1>1, NatLessThanWellFounded
<1>3. PICK R : IsWellFoundedOn(R, Nat) /\ \A n, m \in Nat : <<n, m>> \in R <=> n < m
  BY <1>2
<1>4. IsWellFoundedOn(R, Nat) /\ T \subseteq Nat /\ T # {}
  BY <1>3
<1>5. \E x \in T : \A y \in T : ~ (<<y, x>> \in R)
  BY <1>4, WFMin, Zenon
<1>6. PICK m \in T : \A n \in T : ~ (<<n, m>> \in R)
  BY <1>5
<1>7. ASSUME NEW n \in T PROVE m <= n
  <2>1. n \in Nat /\ m \in Nat
    OBVIOUS
  <2>2. ~ (n < m)
    BY <1>3, <1>6, <2>1
  <2> QED
    BY <2>1, <2>2
<1> QED
  BY <1>7

LEMMA AllNat ==
  ASSUME NEW T, 0 \in T, \A n \in Nat : n \in T => n + 1 \in T
  PROVE  \A n \in Nat : n \in T
<1> SUFFICES ASSUME NEW k \in Nat, k \notin T PROVE FALSE
  OBVIOUS
<1> PICK B : B = {n \in Nat : n \notin T}
  OBVIOUS
<1>1. PICK m \in B : \A n \in B : m <= n
  <2>1. B \in SUBSET Nat /\ B # {}
    OBVIOUS
  <2> QED
    BY <2>1, LeastNat
<1>2. m \in Nat /\ m # 0 /\ m \notin T
  OBVIOUS
<1>3. m - 1 \in Nat /\ m - 1 \notin B
  BY <1>1, <1>2
<1>4. m - 1 \in T
  BY <1>3
<1> QED
  BY <1>2, <1>3, <1>4

(* A finite set of numbers has a largest one. *)
LEMMA LargestNat ==
  ASSUME NEW S \in SUBSET Nat, NEW b \in Nat, \A n \in S : n <= b, S # {}
  PROVE  \E m \in S : \A n \in S : n <= m
<1> PICK T : T = {k \in Nat : \A n \in S : n <= k}
  OBVIOUS
<1>1. T \in SUBSET Nat /\ b \in T
  OBVIOUS
<1>2. PICK k \in T : \A j \in T : k <= j
  BY <1>1, LeastNat
<1>3. k \in Nat /\ \A n \in S : n <= k
  OBVIOUS
<1>4. CASE k \in S
  BY <1>3, <1>4
<1>5. CASE k \notin S
  <2>1. \A n \in S : n <= k - 1 /\ n \in Nat
    BY <1>3, <1>5
  <2> PICK n : n \in S
    OBVIOUS
  <2> PICK j : j = k - 1
    OBVIOUS
  <2>2. j \in Nat
    BY <1>3, <2>1
  <2>3. j \in T
    BY <2>1, <2>2
  <2>4. k <= j
    BY <1>2, <2>3
  <2> QED
    BY <1>3, <2>4
<1> QED
  BY <1>4, <1>5

(* s lists the numbers of S in their order. *)
Lists(s, S, n) ==
  /\ s \in [1 .. n -> S] /\ Range(s) = S
  /\ \A i, j \in DOMAIN s : i < j => s[i] < s[j]

LEMMA OrderExists ==
  ASSUME NEW b \in Nat
  PROVE  \A S \in SUBSET (1 .. b) : IsFiniteSet(S) /\ \E s : Lists(s, S, Cardinality(S))
<1>1. \A S \in SUBSET (1 .. b) : IsFiniteSet(S) /\ Cardinality(S) \in Nat
  <2>1. IsFiniteSet(1 .. b)
    BY FS_Interval
  <2>2. \A S \in SUBSET (1 .. b) : IsFiniteSet(S)
    BY <2>1, FS_Subset
  <2> QED
    BY <2>2, FS_CardinalityType
<1> PICK T : T = {n \in Nat : \A S \in SUBSET (1 .. b) :
                    Cardinality(S) = n => \E s : Lists(s, S, Cardinality(S))}
  OBVIOUS
<1>2. 0 \in T
  <2> SUFFICES ASSUME NEW S \in SUBSET (1 .. b), Cardinality(S) = 0
               PROVE  \E s : Lists(s, S, Cardinality(S))
    OBVIOUS
  <2>1. S = {}
    BY <1>1, FS_EmptySet
  <2> PICK e : e = [i \in 1 .. 0 |-> i]
    OBVIOUS
  <2>2. Lists(e, S, 0)
    BY <2>1 DEF Lists, Range
  <2> QED
    BY <2>2
<1>3. ASSUME NEW n \in Nat, n \in T PROVE n + 1 \in T
  <2> SUFFICES ASSUME NEW S \in SUBSET (1 .. b), Cardinality(S) = n + 1
               PROVE  \E s : Lists(s, S, n + 1)
    BY <1>3
  <2>1. S # {}
    BY FS_EmptySet
  <2>2. PICK m \in S : \A k \in S : k <= m
    <3>1. S \in SUBSET Nat /\ \A k \in S : k <= b
      OBVIOUS
    <3> QED
      BY <2>1, <3>1, LargestNat
  <2> PICK R : R = S \ {m}
    OBVIOUS
  <2>3. R \in SUBSET (1 .. b) /\ Cardinality(R) = n
    BY <1>1, FS_RemoveElement
  <2>4. PICK r : Lists(r, R, n)
    BY <1>3, <2>3
  <2>5. r \in [1 .. n -> R] /\ Range(r) = R /\ \A i, j \in 1 .. n : i < j => r[i] < r[j]
    BY <2>4 DEF Lists
  <2> PICK s : s = [i \in 1 .. n + 1 |-> IF i = n + 1 THEN m ELSE r[i]]
    OBVIOUS
  <2>6. s[n + 1] = m /\ \A i \in 1 .. n : s[i] = r[i] /\ r[i] \in R
    BY <2>5
  <2>7. \A i \in 1 .. n + 1 : i = n + 1 \/ i \in 1 .. n
    OBVIOUS
  <2>8. s \in [1 .. n + 1 -> S]
    BY <2>6, <2>7
  <2>9. Range(s) = S
    <3>1. \A k \in R : \E i \in 1 .. n : r[i] = k
      BY <2>5 DEF Range
    <3>2. ASSUME NEW k \in S PROVE \E i \in 1 .. n + 1 : s[i] = k
      <4>1. CASE k = m
        BY <2>6, <4>1
      <4>2. CASE k # m
        <5>1. PICK i \in 1 .. n : r[i] = k
          BY <3>1, <4>2
        <5> QED
          BY <2>6, <5>1
      <4> QED
        BY <4>1, <4>2
    <3> QED
      BY <2>8, <3>2 DEF Range
  <2>10. ASSUME NEW i \in 1 .. n + 1, NEW j \in 1 .. n + 1, i < j PROVE s[i] < s[j]
    <3>1. i \in 1 .. n
      BY <2>10
    <3>2. CASE j = n + 1
      <4> PICK k : k = r[i]
        OBVIOUS
      <4>1. k \in S /\ k # m /\ m \in S
        BY <2>6, <3>1
      <4>2. k <= m
        BY <2>2, <4>1
      <4>3. k \in Nat /\ m \in Nat
        BY <4>1
      <4> QED
        BY <2>6, <3>1, <3>2, <4>1, <4>2, <4>3
    <3>3. CASE j \in 1 .. n
      BY <2>5, <2>6, <2>10, <3>1, <3>3
    <3> QED
      BY <2>7, <3>2, <3>3
  <2>11. Lists(s, S, n + 1)
    BY <2>8, <2>9, <2>10 DEF Lists
  <2> QED
    BY <2>11
<1>4. \A n \in Nat : n \in T
  BY <1>2, <1>3, AllNat
<1> QED
  BY <1>1, <1>4

LEMMA InOrderOf ==
  ASSUME NEW b \in Nat, NEW S \in SUBSET (1 .. b)
  PROVE  Lists(InOrder(S), S, Cardinality(S)) /\ Cardinality(S) \in Nat
<1>1. IsFiniteSet(S) /\ \E s : Lists(s, S, Cardinality(S))
  BY OrderExists
<1>2. Cardinality(S) \in Nat
  BY <1>1, FS_CardinalityType
<1>3. \E s \in [1 .. Cardinality(S) -> S] :
         Range(s) = S /\ \A i, j \in DOMAIN s : i < j => s[i] < s[j]
  BY <1>1 DEF Lists
<1> QED
  BY <1>2, <1>3 DEF InOrder, Lists


(* The zone commands of a batch, all of them and nothing else. *)
LEMMA ZoneCommandsOfBatch ==
  ASSUME NEW b \in Seq(Commands)
  PROVE  /\ ZoneCommandsOf(b) \in Seq(ZoneRequests)
         /\ Range(ZoneCommandsOf(b)) = {c \in Range(b) : c.type \in {"upsert", "remove"}}
<1> PICK l, S : /\ l = Len(b)
                /\ S = {i \in DOMAIN b : b[i].type \in {"upsert", "remove"}}
  OBVIOUS
<1>1. l \in Nat /\ DOMAIN b = 1 .. l /\ S \in SUBSET (1 .. l)
  OBVIOUS
<1> PICK at, n : at = InOrder(S) /\ n = Cardinality(S)
  OBVIOUS
<1>2. n \in Nat /\ at \in [1 .. n -> S] /\ Range(at) = S
  BY <1>1, InOrderOf DEF Lists
<1> PICK z : z = [i \in 1 .. n |-> b[at[i]]]
  OBVIOUS
<1>3. ZoneCommandsOf(b) = z
  BY <1>2 DEF ZoneCommandsOf
<1>4. \A i \in S : b[i] \in ZoneRequests
  BY <1>1 DEF Commands, ZoneRequests, ScheduleTimer
<1>5. z \in [1 .. n -> ZoneRequests]
  BY <1>2, <1>4
<1>6. z \in Seq(ZoneRequests)
  BY <1>2, <1>5
<1>7. Range(z) = {b[i] : i \in S}
  <2>1. \A i \in 1 .. n : at[i] \in S /\ z[i] = b[at[i]]
    BY <1>2
  <2>2. \A j \in S : \E i \in 1 .. n : at[i] = j
    BY <1>2 DEF Range
  <2>3. \A x \in Range(z) : x \in {b[i] : i \in S}
    BY <1>5, <2>1 DEF Range
  <2>4. ASSUME NEW j \in S PROVE b[j] \in Range(z)
    <3>1. PICK i \in 1 .. n : at[i] = j
      BY <2>2
    <3>2. z[i] = b[j] /\ i \in DOMAIN z
      BY <2>1, <3>1
    <3> QED
      BY <3>2 DEF Range
  <2> QED
    BY <2>3, <2>4
<1>8. {b[i] : i \in S} = {c \in Range(b) : c.type \in {"upsert", "remove"}}
  BY DEF Range
<1> QED
  BY <1>3, <1>6, <1>7, <1>8

LEMMA ListedOf ==
  ASSUME NEW S, IsFiniteSet(S)
  PROVE  Listed(S) \in Seq(S) /\ Range(Listed(S)) = S
<1> PICK n : n = Cardinality(S)
  OBVIOUS
<1>1. n \in Nat /\ ExistsBijection(1 .. n, S)
  BY FS_CardinalityType
<1>2. PICK f : f \in Bijection(1 .. n, S)
  BY <1>1 DEF ExistsBijection
<1>3. f \in [1 .. n -> S] /\ \A x \in S : \E i \in 1 .. n : f[i] = x
  BY <1>2 DEF Bijection, Surjection, Injection
<1>4. Range(f) = S
  BY <1>3 DEF Range
<1>5. \E s \in [1 .. n -> S] : Range(s) = S
  BY <1>3, <1>4
<1>6. Listed(S) \in [1 .. n -> S] /\ Range(Listed(S)) = S
  BY <1>5 DEF Listed
<1> QED
  BY <1>1, <1>6

LEMMA UnusedOf ==
  ASSUME NEW S, IsFiniteSet(S)
  PROVE  Unused(S) \in Nat /\ Unused(S) \notin S
<1> PICK n : n = Cardinality(S)
  OBVIOUS
<1>1. n \in Nat
  BY FS_CardinalityType
<1>2. Cardinality(1 .. n + 1) = n + 1
  BY <1>1, FS_Interval
<1>3. ~ (1 .. n + 1 \subseteq S)
  <2> SUFFICES ASSUME 1 .. n + 1 \subseteq S PROVE FALSE
    OBVIOUS
  <2>1. Cardinality(1 .. n + 1) <= n
    BY FS_Subset
  <2> QED
    BY <1>1, <1>2, <2>1
<1>4. \E k \in 1 .. n + 1 : k \notin S
  BY <1>3
<1>5. Unused(S) \in 1 .. n + 1 /\ Unused(S) \notin S
  BY <1>4 DEF Unused
<1> QED
  BY <1>1, <1>5

LEMMA FiniteRange ==
  ASSUME NEW T, NEW s \in Seq(T)
  PROVE  IsFiniteSet(Range(s))
<1> PICK n, R : n = Len(s) /\ R = Range(s)
  OBVIOUS
<1>1. n \in Nat /\ s \in [1 .. n -> R] /\ \A x \in R : \E i \in 1 .. n : s[i] = x
  BY DEF Range
<1>2. s \in Surjection(1 .. n, R)
  BY <1>1 DEF Surjection
<1>3. IsFiniteSet(1 .. n)
  BY <1>1, FS_Interval
<1> QED
  BY <1>2, <1>3, FS_Surjection

LEMMA FiniteNumbers ==
  ASSUME NEW S, IsFiniteSet(S)
  PROVE  /\ IsFiniteSet({x.request : x \in S})
         /\ IsFiniteSet({x.expected : x \in S})
         /\ IsFiniteSet({x.version : x \in S})
<1>1. \A T, f : f \in [S -> T] /\ (\A t \in T : \E x \in S : f[x] = t) => f \in Surjection(S, T)
  BY DEF Surjection
<1>2. IsFiniteSet({x.request : x \in S})
  <2> PICK T, f : T = {x.request : x \in S} /\ f = [x \in S |-> x.request]
    OBVIOUS
  <2>1. f \in [S -> T] /\ \A t \in T : \E x \in S : f[x] = t
    OBVIOUS
  <2>2. f \in Surjection(S, T)
    BY <1>1, <2>1
  <2> QED
    BY <2>2, FS_Surjection
<1>3. IsFiniteSet({x.expected : x \in S})
  <2> PICK T, f : T = {x.expected : x \in S} /\ f = [x \in S |-> x.expected]
    OBVIOUS
  <2>1. f \in [S -> T] /\ \A t \in T : \E x \in S : f[x] = t
    OBVIOUS
  <2>2. f \in Surjection(S, T)
    BY <1>1, <2>1
  <2> QED
    BY <2>2, FS_Surjection
<1>4. IsFiniteSet({x.version : x \in S})
  <2> PICK T, f : T = {x.version : x \in S} /\ f = [x \in S |-> x.version]
    OBVIOUS
  <2>1. f \in [S -> T] /\ \A t \in T : \E x \in S : f[x] = t
    OBVIOUS
  <2>2. f \in Surjection(S, T)
    BY <1>1, <2>1
  <2> QED
    BY <2>2, FS_Surjection
<1> QED
  BY <1>2, <1>3, <1>4

-----------------------------------------------------------------------------
(* Tables *)

LEMMA GraveyardOf ==
  ASSUME NEW t
  PROVE  t \in Graveyards <=> DOMAIN t \subseteq Cells /\ t \in [DOMAIN t -> Grave]
BY DEF Graveyards, Grave

LEMMA EmptyGraveyard == <<>> \in Graveyards /\ DOMAIN <<>> = {}
<1>1. DOMAIN <<>> = {} /\ <<>> \in [{} -> Grave]
  OBVIOUS
<1> QED
  BY <1>1, GraveyardOf

LEMMA WithoutOf ==
  ASSUME NEW t \in Graveyards, NEW S
  PROVE  /\ Without(t, S) \in Graveyards /\ DOMAIN Without(t, S) = DOMAIN t \ S
         /\ \A c \in DOMAIN t \ S : Without(t, S)[c] = t[c]
<1> PICK w : w = Without(t, S)
  OBVIOUS
<1>1. /\ DOMAIN w = DOMAIN t \ S
      /\ \A c \in DOMAIN t \ S : w[c] = t[c]
      /\ w = [c \in DOMAIN t \ S |-> t[c]]
  BY DEF Without
<1>2. DOMAIN t \subseteq Cells /\ t \in [DOMAIN t -> Grave]
  BY GraveyardOf
<1>3. DOMAIN w \subseteq Cells /\ w \in [DOMAIN w -> Grave]
  BY <1>1, <1>2
<1> QED
  BY <1>1, <1>3, GraveyardOf

LEMMA InsertOf ==
  ASSUME NEW t \in Graveyards, NEW cell \in Cells, NEW g \in Grave
  PROVE  /\ Insert(t, cell, g) \in Graveyards
         /\ DOMAIN Insert(t, cell, g) = DOMAIN t \cup {cell}
         /\ \A c \in DOMAIN t \cup {cell} : Insert(t, cell, g)[c] = IF c = cell THEN g ELSE t[c]
<1> PICK w : w = Insert(t, cell, g)
  OBVIOUS
<1>1. /\ DOMAIN w = DOMAIN t \cup {cell}
      /\ \A c \in DOMAIN t \cup {cell} : w[c] = IF c = cell THEN g ELSE t[c]
      /\ w = [c \in DOMAIN t \cup {cell} |-> IF c = cell THEN g ELSE t[c]]
  BY DEF Insert
<1>2. DOMAIN t \subseteq Cells /\ t \in [DOMAIN t -> Grave]
  BY GraveyardOf
<1>3. DOMAIN w \subseteq Cells /\ w \in [DOMAIN w -> Grave]
  BY <1>1, <1>2
<1> QED
  BY <1>1, <1>3, GraveyardOf

LEMMA MergedOf ==
  ASSUME NEW s \in Graveyards, NEW t \in Graveyards
  PROVE  /\ Merged(s, t) \in Graveyards /\ DOMAIN Merged(s, t) = DOMAIN s \cup DOMAIN t
         /\ \A c \in DOMAIN s \cup DOMAIN t :
               Merged(s, t)[c] = IF c \in DOMAIN s THEN s[c] ELSE t[c]
<1> PICK w : w = Merged(s, t)
  OBVIOUS
<1>1. /\ DOMAIN w = DOMAIN s \cup DOMAIN t
      /\ \A c \in DOMAIN s \cup DOMAIN t : w[c] = IF c \in DOMAIN s THEN s[c] ELSE t[c]
      /\ w = [c \in DOMAIN s \cup DOMAIN t |-> IF c \in DOMAIN s THEN s[c] ELSE t[c]]
  BY DEF Merged
<1>2. /\ DOMAIN s \subseteq Cells /\ s \in [DOMAIN s -> Grave]
      /\ DOMAIN t \subseteq Cells /\ t \in [DOMAIN t -> Grave]
  BY GraveyardOf
<1>3. DOMAIN w \subseteq Cells /\ w \in [DOMAIN w -> Grave]
  BY <1>1, <1>2
<1> QED
  BY <1>1, <1>3, GraveyardOf

(* The sweep of a table t, with the graves of due. *)
Swept(t, due) == [c \in DOMAIN t |-> [t[c] EXCEPT !.protected = @ /\ c \notin due]]

(* Two tables with the same graves, whatever their protection. *)
SameGraves(s, t) ==
  /\ DOMAIN s = DOMAIN t
  /\ \A c \in DOMAIN s : s[c].owner = t[c].owner /\ s[c].public_at = t[c].public_at

LEMMA SweptOf ==
  ASSUME NEW t \in Graveyards, NEW due
  PROVE  /\ Swept(t, due) \in Graveyards /\ SameGraves(Swept(t, due), t)
         /\ \A c \in DOMAIN t : Swept(t, due)[c].protected <=> t[c].protected /\ c \notin due
<1> PICK w : w = Swept(t, due)
  OBVIOUS
<1>1. DOMAIN t \subseteq Cells /\ t \in [DOMAIN t -> Grave]
  BY GraveyardOf
<1>2. DOMAIN w = DOMAIN t
  BY DEF Swept
<1>3. ASSUME NEW c \in DOMAIN t
      PROVE  /\ w[c] \in Grave
             /\ w[c].owner = t[c].owner /\ w[c].public_at = t[c].public_at
             /\ w[c].protected <=> t[c].protected /\ c \notin due
  <2> PICK g : g = t[c]
    OBVIOUS
  <2>1. g \in Grave
    BY <1>1
  <2>2. w[c] = [g EXCEPT !.protected = g.protected /\ c \notin due]
    BY DEF Swept
  <2>3. (g.protected /\ c \notin due) \in BOOLEAN
    OBVIOUS
  <2> QED
    BY <2>1, <2>2, <2>3 DEF Grave
<1>4. w = [c \in DOMAIN t |-> w[c]]
  BY DEF Swept
<1>5. w \in [DOMAIN w -> Grave]
  BY <1>2, <1>3, <1>4
<1>6. w \in Graveyards
  BY <1>1, <1>2, <1>5, GraveyardOf
<1> QED
  BY <1>2, <1>3, <1>6 DEF SameGraves

-----------------------------------------------------------------------------
(* Requests and versions *)

LEMMA StorageCallsOf ==
  ASSUME Typed
  PROVE  StorageCalls \subseteq StorageRequests /\ IsFiniteSet(StorageCalls)
<1> PICK B : B = {c \in Range(outbox) : c.type \in {"get", "cas"}}
  OBVIOUS
<1>1. Range(outbox) \subseteq Commands
  BY RangeOfSeq DEF Typed, TypeOK
<1>2. IsFiniteSet(Range(outbox))
  BY FiniteRange DEF Typed, TypeOK
<1>3. IsFiniteSet(B)
  BY <1>2, FS_Subset
<1>4. B \subseteq StorageRequests
  BY <1>1 DEF Commands, ScheduleTimer, StorageRequests
<1>5. StorageCalls = B \cup calls
  BY DEF StorageCalls
<1> QED
  BY <1>3, <1>4, <1>5, FS_Union DEF Typed

(* next_request returns an id nothing under way has. *)
LEMMA NewRequestIsNew ==
  ASSUME Typed
  PROVE  /\ NewRequest \in Nat /\ NewRequest \notin pending
         /\ \A c \in StorageCalls \cup answers : c.request # NewRequest
<1> PICK A, R, U : /\ A = StorageCalls \cup answers
                   /\ R = {c.request : c \in A}
                   /\ U = pending \cup R
  OBVIOUS
<1>1. IsFiniteSet(A)
  BY StorageCallsOf, FS_Union DEF Typed
<1>2. IsFiniteSet(R)
  BY <1>1, FiniteNumbers
<1>3. IsFiniteSet(U)
  BY <1>2, FS_Union DEF Typed
<1>4. NewRequest = Unused(U)
  BY DEF NewRequest
<1>5. NewRequest \in Nat /\ NewRequest \notin U
  BY <1>3, <1>4, UnusedOf
<1> QED
  BY <1>5

LEMMA NewVersionIsNew ==
  ASSUME Typed
  PROVE  /\ NewVersion \in Nat
         /\ NewVersion # store.version /\ NewVersion # storage_version
<1> PICK D, E, A, U : /\ D = {d \in StorageCalls : d.type = "cas"}
                      /\ E = {c.expected : c \in D}
                      /\ A = {a.version : a \in answers}
                      /\ U = {store.version, storage_version} \cup E \cup A
  OBVIOUS
<1>1. IsFiniteSet(StorageCalls)
  BY StorageCallsOf
<1>2. IsFiniteSet(D)
  BY <1>1, FS_Subset
<1>3. IsFiniteSet(E)
  BY <1>2, FiniteNumbers
<1>4. IsFiniteSet(A)
  BY FiniteNumbers DEF Typed
<1>5. IsFiniteSet({store.version, storage_version})
  <2>1. IsFiniteSet({store.version}) /\ IsFiniteSet({storage_version})
    BY FS_Singleton
  <2>2. {store.version, storage_version} = {store.version} \cup {storage_version}
    OBVIOUS
  <2> QED
    BY <2>1, <2>2, FS_Union
<1>6. IsFiniteSet({store.version, storage_version} \cup E)
  BY <1>3, <1>5, FS_Union
<1>7. IsFiniteSet(U)
  BY <1>4, <1>6, FS_Union
<1>8. NewVersion = Unused(U)
  BY DEF NewVersion
<1>9. NewVersion \in Nat /\ NewVersion \notin U
  BY <1>7, <1>8, UnusedOf
<1> QED
  BY <1>9

-----------------------------------------------------------------------------
(* What the handlers return *)

LEMMA CommandTypes ==
  /\ \A c \in Cells : Remove(c) \in Commands
  /\ \A c \in Cells, p \in Players : Upsert(c, p) \in Commands
  /\ ScheduleTimer \in Commands
  /\ \A n \in Nat : Get(n) \in Commands
  /\ \A n, v \in Nat, t \in Graveyards : Cas(n, v, t) \in Commands
BY DEF Commands, Remove, Upsert, Get, Cas

LEMMA ConcatOf ==
  ASSUME NEW s \in Seq(Commands), NEW t \in Seq(Commands)
  PROVE  s \o t \in Seq(Commands) /\ Range(s \o t) = Range(s) \cup Range(t)
BY RangeConcatenation

LEMMA OneCommand ==
  ASSUME NEW c \in Commands
  PROVE  <<c>> \in Seq(Commands) /\ Range(<<c>>) = {c}
BY DEF Range

LEMMA NoCommand == <<>> \in Seq(Commands) /\ Range(<<>>) = {}
BY DEF Range

(* The writes a handler returns that sends one or not. *)
Writes(sent) == {w \in {Cas(NewRequest, storage_version', graves')} : sent}

(* What save does to pending and dirty. *)
Sent(sent, waiting, unsaved) ==
  /\ pending' = IF sent THEN {NewRequest} ELSE waiting
  /\ dirty' = IF sent THEN unsaved ELSE TRUE

LEMMA SaveOf ==
  ASSUME Typed, NEW waiting, NEW unsaved, NEW commands \in Seq(Commands),
         storage_version' \in Nat, graves' \in Graveyards,
         Save(waiting, unsaved, commands)
  PROVE  /\ outbox' \in Seq(Commands)
         /\ Range(outbox') = Range(outbox) \cup Range(commands)
                               \cup Writes(loaded' /\ waiting = {})
         /\ Sent(loaded' /\ waiting = {}, waiting, unsaved)
<1> PICK o, w : o = outbox \o commands /\ w = Cas(NewRequest, storage_version', graves')
  OBVIOUS
<1>1. o \in Seq(Commands) /\ Range(o) = Range(outbox) \cup Range(commands)
  BY ConcatOf DEF Typed, TypeOK
<1>2. w \in Commands
  BY NewRequestIsNew, CommandTypes
<1>3. <<w>> \in Seq(Commands) /\ Range(<<w>>) = {w}
  BY <1>2, OneCommand
<1>4. o \o <<w>> \in Seq(Commands) /\ Range(o \o <<w>>) = Range(o) \cup {w}
  BY <1>1, <1>3, ConcatOf
<1>5. CASE loaded' /\ waiting = {}
  <2>1. outbox' = o \o <<w>> /\ Writes(loaded' /\ waiting = {}) = {w}
    <3>1. outbox' = outbox \o commands \o <<Cas(NewRequest, storage_version', graves')>>
      BY <1>5 DEF Save
    <3> QED
      BY <1>5, <3>1 DEF Writes
  <2>2. Sent(loaded' /\ waiting = {}, waiting, unsaved)
    BY <1>5 DEF Save, Sent
  <2> QED
    BY <1>1, <1>4, <2>1, <2>2
<1>6. CASE ~ (loaded' /\ waiting = {})
  <2>1. outbox' = o /\ Writes(loaded' /\ waiting = {}) = {}
    <3>1. outbox' = outbox \o commands
      BY <1>6 DEF Save
    <3> QED
      BY <1>6, <3>1 DEF Writes
  <2>2. Sent(loaded' /\ waiting = {}, waiting, unsaved)
    BY <1>6 DEF Save, Sent
  <2> QED
    BY <1>1, <2>1, <2>2
<1> QED
  BY <1>5, <1>6

(* A set of commands listed, for finitely many cells. *)
LEMMA RemovalsOf ==
  ASSUME NEW S \in SUBSET Cells
  PROVE  /\ Listed({Remove(c) : c \in S}) \in Seq(Commands)
         /\ Range(Listed({Remove(c) : c \in S})) = {Remove(c) : c \in S}
<1> PICK R, f : R = {Remove(c) : c \in S} /\ f = [c \in S |-> Remove(c)]
  OBVIOUS
<1>1. f \in [S -> R] /\ \A t \in R : \E x \in S : f[x] = t
  OBVIOUS
<1>2. f \in Surjection(S, R)
  BY <1>1 DEF Surjection
<1>3. IsFiniteSet(S)
  BY CellsAssumption, FS_Subset
<1>4. IsFiniteSet(R)
  BY <1>2, <1>3, FS_Surjection
<1>5. Listed(R) \in Seq(R) /\ Range(Listed(R)) = R
  BY <1>4, ListedOf
<1>6. R \subseteq Commands
  BY CommandTypes
<1> QED
  BY <1>5, <1>6

(* What a sweep of table does, whose private graves due are over. *)
SweepResult(table, waiting, due) ==
  /\ due = IF loaded' THEN Due(table) ELSE {}
  /\ due \subseteq DOMAIN table
  /\ graves' = Swept(table, due)
  /\ outbox' \in Seq(Commands)
  /\ \E T \in SUBSET {ScheduleTimer} :
        Range(outbox') = Range(outbox) \cup {Remove(c) : c \in due} \cup T
          \cup Writes((dirty \/ due # {}) /\ loaded' /\ waiting = {})
  /\ IF dirty \/ due # {}
     THEN Sent(loaded' /\ waiting = {}, waiting, FALSE)
     ELSE pending' = waiting /\ dirty' = dirty

LEMMA SweepOf ==
  ASSUME Typed, NEW table \in Graveyards, NEW armed \in BOOLEAN, NEW waiting,
         loaded' \in BOOLEAN, storage_version' \in Nat,
         SweepAndSave(table, armed, waiting)
  PROVE  sweep_armed' \in BOOLEAN /\ \E due : SweepResult(table, waiting, due)
<1> PICK due : due = IF loaded' THEN Due(table) ELSE {}
  OBVIOUS
<1> PICK swept : swept = [c \in DOMAIN table |->
                            [table[c] EXCEPT !.protected = @ /\ c \notin due]]
  OBVIOUS
<1> PICK again : again = (loaded' /\ \E c \in DOMAIN swept : swept[c].protected)
  OBVIOUS
<1> PICK l, t : /\ l = Listed({Remove(c) : c \in due})
                /\ t = IF again THEN <<ScheduleTimer>> ELSE <<>>
  OBVIOUS
<1> PICK commands : commands = l \o t
  OBVIOUS
<1>1. /\ graves' = swept /\ sweep_armed' = (armed \/ again)
      /\ IF dirty \/ due # {}
         THEN Save(waiting, FALSE, commands)
         ELSE pending' = waiting /\ outbox' = outbox \o commands /\ dirty' = dirty
  BY DEF SweepAndSave
<1>2. due \subseteq DOMAIN table /\ DOMAIN table \subseteq Cells
  BY GraveyardOf DEF Due
<1>3. swept = Swept(table, due) /\ graves' \in Graveyards
  <2>1. swept = Swept(table, due)
    BY DEF Swept
  <2>2. Swept(table, due) \in Graveyards
    BY SweptOf
  <2> QED
    BY <1>1, <2>1, <2>2
<1>4. l \in Seq(Commands) /\ Range(l) = {Remove(c) : c \in due}
  BY <1>2, RemovalsOf
<1>5. t \in Seq(Commands) /\ Range(t) \in SUBSET {ScheduleTimer}
  BY CommandTypes, OneCommand, NoCommand
<1>6. commands \in Seq(Commands) /\ Range(commands) = {Remove(c) : c \in due} \cup Range(t)
  BY <1>4, <1>5, ConcatOf
<1>7. CASE dirty \/ due # {}
  <2>1. Save(waiting, FALSE, commands)
    BY <1>1, <1>7
  <2>2. /\ outbox' \in Seq(Commands)
        /\ Range(outbox') = Range(outbox) \cup Range(commands)
                              \cup Writes(loaded' /\ waiting = {})
        /\ Sent(loaded' /\ waiting = {}, waiting, FALSE)
    BY <1>3, <1>6, <2>1, SaveOf
  <2>3. Writes((dirty \/ due # {}) /\ loaded' /\ waiting = {})
          = Writes(loaded' /\ waiting = {})
    BY <1>7 DEF Writes
  <2>4. Range(outbox') = Range(outbox) \cup {Remove(c) : c \in due} \cup Range(t)
                 \cup Writes((dirty \/ due # {}) /\ loaded' /\ waiting = {})
    BY <1>6, <2>2, <2>3
  <2>5. sweep_armed' \in BOOLEAN
    BY <1>1
  <2> QED
    BY <1>1, <1>2, <1>3, <1>5, <1>7, <2>2, <2>4, <2>5 DEF SweepResult
<1>8. CASE ~ (dirty \/ due # {})
  <2>1. pending' = waiting /\ outbox' = outbox \o commands /\ dirty' = dirty
    BY <1>1, <1>8
  <2>2. outbox' \in Seq(Commands) /\ Range(outbox') = Range(outbox) \cup Range(commands)
    BY <1>6, <2>1, ConcatOf DEF Typed, TypeOK
  <2>3. Writes((dirty \/ due # {}) /\ loaded' /\ waiting = {}) = {}
    BY <1>8 DEF Writes
  <2>4. Range(outbox') = Range(outbox) \cup {Remove(c) : c \in due} \cup Range(t)
                 \cup Writes((dirty \/ due # {}) /\ loaded' /\ waiting = {})
    BY <1>6, <2>2, <2>3
  <2>5. sweep_armed' \in BOOLEAN
    BY <1>1
  <2> QED
    BY <1>1, <1>2, <1>3, <1>5, <1>8, <2>1, <2>2, <2>4, <2>5 DEF SweepResult
<1> QED
  BY <1>7, <1>8

(* The commands of Record. *)
RecordCommands(cell, owner, evicted) ==
  \E T \in SUBSET {ScheduleTimer} :
     Range(outbox') = Range(outbox)
       \cup {Remove(c) : c \in {d \in evicted : graves[d].protected}}
       \cup {Upsert(cell, owner)} \cup T \cup Writes(loaded /\ pending = {})

LEMMA RecordOf ==
  ASSUME Typed, NEW cell \in Cells, NEW owner \in Players,
         NEW evicted \in SUBSET DOMAIN graves, now + PublicAfter < MaxTick,
         Record(cell, owner, evicted)
  PROVE  /\ graves' = Insert(Without(graves, evicted), cell,
                             [owner |-> owner, public_at |-> now + PublicAfter,
                              protected |-> TRUE])
         /\ graves' \in Graveyards
         /\ DOMAIN graves' = (DOMAIN graves \ evicted) \cup {cell}
         /\ graves'[cell].owner = owner /\ graves'[cell].public_at = now + PublicAfter
         /\ \A c \in DOMAIN graves \ evicted : c # cell => graves'[c] = graves[c]
         /\ outbox' \in Seq(Commands)
         /\ RecordCommands(cell, owner, evicted)
         /\ Sent(loaded /\ pending = {}, pending, dirty)
<1>0. PICK g, w : /\ g = [owner |-> owner, public_at |-> now + PublicAfter, protected |-> TRUE]
                  /\ w = Without(graves, evicted)
  OBVIOUS
<1>1. g \in Grave /\ g.owner = owner /\ g.public_at = now + PublicAfter
  <2>1. now + PublicAfter \in 0 .. MaxTick
    BY LimitsAssumption, BoundsAssumption DEF Typed, TypeOK
  <2> QED
    BY <1>0, <2>1 DEF Grave
<1>2. graves \in Graveyards
  BY DEF Typed, TypeOK
<1>3. /\ w \in Graveyards /\ DOMAIN w = DOMAIN graves \ evicted
      /\ \A c \in DOMAIN graves \ evicted : w[c] = graves[c]
  BY <1>0, <1>2, WithoutOf
<1>4. graves' = Insert(w, cell, g)
  BY <1>0 DEF Record
<1>5. /\ graves' \in Graveyards /\ DOMAIN graves' = DOMAIN w \cup {cell}
      /\ \A c \in DOMAIN w \cup {cell} : graves'[c] = IF c = cell THEN g ELSE w[c]
  <2> PICK x : x = Insert(w, cell, g)
    OBVIOUS
  <2>1. /\ x \in Graveyards /\ DOMAIN x = DOMAIN w \cup {cell}
        /\ \A c \in DOMAIN w \cup {cell} : x[c] = IF c = cell THEN g ELSE w[c]
    BY <1>1, <1>3, InsertOf
  <2> QED
    BY <1>4, <2>1
<1> PICK S, l, t : /\ S = {d \in evicted : graves[d].protected}
                   /\ l = Listed({Remove(c) : c \in S})
                   /\ t = IF sweep_armed THEN <<>> ELSE <<ScheduleTimer>>
  OBVIOUS
<1>6. l \in Seq(Commands) /\ Range(l) = {Remove(c) : c \in S}
  <2>1. S \in SUBSET Cells
    BY <1>2, GraveyardOf
  <2> QED
    BY <2>1, RemovalsOf
<1>7. t \in Seq(Commands) /\ Range(t) \in SUBSET {ScheduleTimer}
  BY CommandTypes, OneCommand, NoCommand
<1> PICK u : u = Upsert(cell, owner)
  OBVIOUS
<1>8. <<u>> \in Seq(Commands) /\ Range(<<u>>) = {u}
  <2>1. u \in Commands
    BY CommandTypes
  <2> QED
    BY <2>1, OneCommand
<1> PICK m, k : m = l \o <<u>> /\ k = m \o t
  OBVIOUS
<1>9. m \in Seq(Commands) /\ Range(m) = Range(l) \cup {u}
  BY <1>6, <1>8, ConcatOf
<1>10. k \in Seq(Commands) /\ Range(k) = Range(m) \cup Range(t)
  BY <1>7, <1>9, ConcatOf
<1>11. Save(pending, dirty, k) /\ loaded' = loaded /\ storage_version' = storage_version
  BY DEF Record
<1>12. storage_version' \in Nat
  BY <1>11 DEF Typed, TypeOK
<1>13. /\ outbox' \in Seq(Commands)
       /\ Range(outbox') = Range(outbox) \cup Range(k) \cup Writes(loaded' /\ pending = {})
       /\ Sent(loaded' /\ pending = {}, pending, dirty)
  BY <1>5, <1>10, <1>11, <1>12, SaveOf
<1>14. Range(outbox') = Range(outbox) \cup {Remove(c) : c \in S} \cup {u} \cup Range(t)
                          \cup Writes(loaded /\ pending = {})
  BY <1>6, <1>9, <1>10, <1>11, <1>13
<1>17. RecordCommands(cell, owner, evicted)
  BY <1>7, <1>14 DEF RecordCommands
<1>15. /\ DOMAIN graves' = (DOMAIN graves \ evicted) \cup {cell}
       /\ graves'[cell] = g
       /\ \A c \in DOMAIN graves \ evicted : c # cell => graves'[c] = graves[c]
  BY <1>3, <1>5
<1>16. Sent(loaded /\ pending = {}, pending, dirty)
  BY <1>11, <1>13
<1> QED
  BY <1>0, <1>1, <1>4, <1>5, <1>13, <1>15, <1>16, <1>17

(* The part of Broken for a grave with a record. *)
LEMMA BrokenOf ==
  ASSUME Typed, NEW cell \in DOMAIN graves,
         graves' = Without(graves, {cell}), storage_version' = storage_version,
         Save(pending, dirty, IF graves[cell].protected THEN <<Remove(cell)>> ELSE <<>>)
  PROVE  /\ graves' \in Graveyards /\ DOMAIN graves' = DOMAIN graves \ {cell}
         /\ \A c \in DOMAIN graves' : graves'[c] = graves[c]
         /\ outbox' \in Seq(Commands)
         /\ \E R \in SUBSET {Remove(cell)} :
               Range(outbox') = Range(outbox) \cup R \cup Writes(loaded' /\ pending = {})
         /\ Sent(loaded' /\ pending = {}, pending, dirty)
<1> PICK k : k = IF graves[cell].protected THEN <<Remove(cell)>> ELSE <<>>
  OBVIOUS
<1>1. graves \in Graveyards /\ cell \in Cells
  BY GraveyardOf DEF Typed, TypeOK
<1>2. /\ graves' \in Graveyards /\ DOMAIN graves' = DOMAIN graves \ {cell}
      /\ \A c \in DOMAIN graves' : graves'[c] = graves[c]
  <2> PICK x : x = Without(graves, {cell})
    OBVIOUS
  <2>1. /\ x \in Graveyards /\ DOMAIN x = DOMAIN graves \ {cell}
        /\ \A c \in DOMAIN graves \ {cell} : x[c] = graves[c]
    BY <1>1, WithoutOf
  <2> QED
    BY <2>1
<1>3. k \in Seq(Commands) /\ Range(k) \in SUBSET {Remove(cell)}
  BY <1>1, CommandTypes, OneCommand, NoCommand
<1>4. storage_version' \in Nat
  BY DEF Typed, TypeOK
<1>5. Save(pending, dirty, k)
  OBVIOUS
<1>6. /\ outbox' \in Seq(Commands)
      /\ Range(outbox') = Range(outbox) \cup Range(k) \cup Writes(loaded' /\ pending = {})
      /\ Sent(loaded' /\ pending = {}, pending, dirty)
  BY <1>2, <1>3, <1>4, <1>5, SaveOf
<1> QED
  BY <1>2, <1>3, <1>6

-----------------------------------------------------------------------------
(* Types *)

LEMMA SentType ==
  ASSUME Typed, NEW sent, NEW waiting \in {pending, {}}, NEW unsaved \in BOOLEAN,
         Sent(sent, waiting, unsaved)
  PROVE  /\ pending' \in SUBSET Nat /\ Cardinality(pending') <= 1
         /\ IsFiniteSet(pending') /\ dirty' \in BOOLEAN
<1>1. /\ {NewRequest} \in SUBSET Nat /\ Cardinality({NewRequest}) <= 1
      /\ IsFiniteSet({NewRequest})
  BY NewRequestIsNew, FS_Singleton
<1>2. {} \in SUBSET Nat /\ Cardinality({}) <= 1 /\ IsFiniteSet({})
  BY FS_EmptySet
<1>3. pending \in SUBSET Nat /\ Cardinality(pending) <= 1 /\ IsFiniteSet(pending)
  BY DEF Typed, TypeOK
<1> QED
  BY <1>1, <1>2, <1>3 DEF Sent

(* What a step leaves of the types when it only runs a handler. *)
LEMMA HandlerTyped ==
  ASSUME Typed,
         graves' \in Graveyards, storage_version' \in Nat, loaded' \in BOOLEAN,
         sweep_armed' \in BOOLEAN, dirty' \in BOOLEAN,
         pending' \in SUBSET Nat, Cardinality(pending') <= 1, IsFiniteSet(pending'),
         outbox' \in Seq(Commands),
         UNCHANGED <<now, calls, store, zoning>>,
         answers' \in SUBSET answers,
         timer' \in BOOLEAN, used \subseteq used', used' \subseteq Cells,
         DOMAIN barrels' \subseteq used',
         \A c \in DOMAIN barrels' : barrels'[c] \in [owner: Players, deadline: 0 .. MaxTick]
  PROVE  Typed'
<1>1. IsFiniteSet(answers')
  BY FS_Subset DEF Typed
<1>2. answers' \in SUBSET Answers
  BY DEF Typed, TypeOK
<1> QED
  BY <1>1, <1>2 DEF Typed, TypeOK, storage, zoning

LEMMA AppendOf ==
  ASSUME NEW s \in Seq(Commands), NEW c \in Commands
  PROVE  Append(s, c) \in Seq(Commands) /\ Range(Append(s, c)) = Range(s) \cup {c}
<1>1. Append(s, c) = s \o <<c>>
  OBVIOUS
<1>2. <<c>> \in Seq(Commands) /\ Range(<<c>>) = {c}
  BY OneCommand
<1> QED
  BY <1>1, <1>2, ConcatOf

LEMMA InitTyped == Init => Typed
<1> SUFFICES ASSUME Init PROVE Typed
  OBVIOUS
<1> USE DEF Init
<1>1. <<>> \in Graveyards /\ DOMAIN <<>> = {} /\ Range(<<>>) = {}
  BY EmptyGraveyard DEF Range
<1>2. <<Get(1)>> \in Seq(Commands)
  BY CommandTypes, OneCommand
<1>3. IsFiniteSet({}) /\ Cardinality({}) <= 1
  BY FS_EmptySet
<1>4. 0 \in 0 .. MaxTick
  BY BoundsAssumption
<1>5. store \in [version: Nat, value: Graveyards]
  BY <1>1
<1>6. /\ <<>> \in Seq(ZoneRequests) /\ <<>> \in Seq(Commands)
      /\ <<>> \in Seq([cell: Cells, applied: BOOLEAN])
  OBVIOUS
<1>7. TypeOK
  BY <1>1, <1>2, <1>3, <1>4, <1>5, <1>6 DEF TypeOK
<1> QED
  BY <1>3, <1>6, <1>7 DEF Typed

LEMMA GraveCreatedTyped ==
  ASSUME Typed, NEW cell \in Cells, NEW owner \in Players, GraveCreated(cell, owner)
  PROVE  Typed'
<1>1. /\ UNCHANGED <<now, calls, answers, store, zoning, timer>>
      /\ used' = used \cup {cell} /\ now + PublicAfter < MaxTick
      /\ barrels' = Insert(barrels, cell, [owner |-> owner, deadline |-> now + PublicAfter])
  BY DEF GraveCreated, storage
<1>2. /\ DOMAIN barrels' \subseteq used'
      /\ \A c \in DOMAIN barrels' : barrels'[c] \in [owner: Players, deadline: 0 .. MaxTick]
  <2>0. PICK b : b = [owner |-> owner, deadline |-> now + PublicAfter]
    OBVIOUS
  <2>1. b \in [owner: Players, deadline: 0 .. MaxTick]
    BY <1>1, <2>0, LimitsAssumption, BoundsAssumption DEF Typed, TypeOK
  <2>2. /\ DOMAIN barrels' = DOMAIN barrels \cup {cell}
        /\ \A c \in DOMAIN barrels' : barrels'[c] = IF c = cell THEN b ELSE barrels[c]
    BY <1>1, <2>0 DEF Insert
  <2> QED
    BY <1>1, <2>1, <2>2 DEF Typed, TypeOK
<1>3. used \subseteq used' /\ used' \subseteq Cells /\ timer' \in BOOLEAN
  BY <1>1 DEF Typed, TypeOK
<1>4. CASE UNCHANGED <<plugin, outbox>>
  BY <1>1, <1>2, <1>3, <1>4, HandlerTyped DEF plugin, Typed, TypeOK
<1>5. ASSUME NEW evicted \in SUBSET DOMAIN graves, Record(cell, owner, evicted)
      PROVE  Typed'
  <2>1. /\ graves' \in Graveyards /\ outbox' \in Seq(Commands)
        /\ Sent(loaded /\ pending = {}, pending, dirty)
    BY <1>1, <1>5, RecordOf
  <2>2. /\ pending' \in SUBSET Nat /\ Cardinality(pending') <= 1
        /\ IsFiniteSet(pending') /\ dirty' \in BOOLEAN
    BY <2>1, SentType DEF Typed, TypeOK
  <2>3. storage_version' \in Nat /\ loaded' \in BOOLEAN /\ sweep_armed' \in BOOLEAN
    BY <1>5 DEF Record, Typed, TypeOK
  <2> QED
    BY <1>1, <1>2, <1>3, <2>1, <2>2, <2>3, HandlerTyped
<1>6. \A oldest \in Oldest(graves) : {oldest} \in SUBSET DOMAIN graves
  BY DEF Oldest
<1> QED
  BY <1>4, <1>5, <1>6 DEF GraveCreated

LEMMA BrokenTyped ==
  ASSUME Typed, NEW cell \in Cells, Broken(cell)
  PROVE  Typed'
<1>1. UNCHANGED <<now, used, calls, answers, store, zoning, timer>>
  BY DEF Broken, storage
<1>2. /\ DOMAIN barrels' \subseteq used'
      /\ \A c \in DOMAIN barrels' : barrels'[c] \in [owner: Players, deadline: 0 .. MaxTick]
  BY <1>1 DEF Broken, Without, Typed, TypeOK
<1>3. used \subseteq used' /\ used' \subseteq Cells /\ timer' \in BOOLEAN
  BY <1>1 DEF Typed, TypeOK
<1>4. CASE cell \notin DOMAIN graves
  BY <1>1, <1>2, <1>3, <1>4, HandlerTyped DEF Broken, plugin, Typed, TypeOK
<1>5. CASE cell \in DOMAIN graves
  <2>1. /\ graves' = Without(graves, {cell})
        /\ UNCHANGED <<storage_version, loaded, sweep_armed>>
        /\ Save(pending, dirty, IF graves[cell].protected THEN <<Remove(cell)>> ELSE <<>>)
    BY <1>5 DEF Broken
  <2>2. /\ graves' \in Graveyards /\ outbox' \in Seq(Commands)
        /\ Sent(loaded' /\ pending = {}, pending, dirty)
    BY <1>5, <2>1, BrokenOf
  <2>3. /\ pending' \in SUBSET Nat /\ Cardinality(pending') <= 1
        /\ IsFiniteSet(pending') /\ dirty' \in BOOLEAN
    BY <2>2, SentType DEF Typed, TypeOK
  <2>4. storage_version' \in Nat /\ loaded' \in BOOLEAN /\ sweep_armed' \in BOOLEAN
    BY <2>1 DEF Typed, TypeOK
  <2> QED
    BY <1>1, <1>2, <1>3, <2>2, <2>3, <2>4, HandlerTyped
<1> QED
  BY <1>4, <1>5

(* The types a sweep leaves, of a table read or of the one in memory. *)
LEMMA SweepTyped ==
  ASSUME Typed, NEW table \in Graveyards, NEW armed \in BOOLEAN,
         NEW waiting \in {pending, {}},
         loaded' \in BOOLEAN, storage_version' \in Nat,
         SweepAndSave(table, armed, waiting)
  PROVE  /\ graves' \in Graveyards /\ outbox' \in Seq(Commands)
         /\ sweep_armed' \in BOOLEAN /\ dirty' \in BOOLEAN
         /\ pending' \in SUBSET Nat /\ Cardinality(pending') <= 1 /\ IsFiniteSet(pending')
<1>0. sweep_armed' \in BOOLEAN /\ \E due : SweepResult(table, waiting, due)
  BY SweepOf
<1>1. PICK due : SweepResult(table, waiting, due)
  BY <1>0
<1>2. graves' \in Graveyards
  <2>1. Swept(table, due) \in Graveyards
    BY SweptOf
  <2> QED
    BY <1>1, <2>1 DEF SweepResult
<1>3. /\ dirty' \in BOOLEAN
      /\ pending' \in SUBSET Nat /\ Cardinality(pending') <= 1 /\ IsFiniteSet(pending')
  <2>1. CASE Sent(loaded' /\ waiting = {}, waiting, FALSE)
    BY <2>1, SentType
  <2>2. CASE pending' = waiting /\ dirty' = dirty
    <3>1. {} \in SUBSET Nat /\ Cardinality({}) <= 1 /\ IsFiniteSet({})
      BY FS_EmptySet
    <3> QED
      BY <2>2, <3>1 DEF Typed, TypeOK
  <2> QED
    BY <1>1, <2>1, <2>2 DEF SweepResult
<1> QED
  BY <1>0, <1>1, <1>2, <1>3 DEF SweepResult

(* The timer sweeps the table in memory. *)
LEMMA TimerSweeps ==
  ASSUME Typed, TimerFired
  PROVE  \E t, w : /\ t = graves /\ t \in Graveyards /\ w = pending
                 /\ \E due : SweepResult(t, w, due)
<1>1. UNCHANGED <<loaded, storage_version>> /\ SweepAndSave(graves, FALSE, pending)
  BY DEF TimerFired
<1>2. graves \in Graveyards /\ loaded' \in BOOLEAN /\ storage_version' \in Nat
  BY <1>1 DEF Typed, TypeOK
<1>3. PICK t, w, armed : t = graves /\ w = pending /\ armed = FALSE
  OBVIOUS
<1>4. SweepAndSave(t, armed, w) /\ t \in Graveyards /\ armed \in BOOLEAN
  BY <1>1, <1>2, <1>3
<1>5. \E due : SweepResult(t, w, due)
  BY <1>2, <1>4, SweepOf
<1> QED
  BY <1>3, <1>4, <1>5

LEMMA TimerFiredTyped ==
  ASSUME Typed, TimerFired
  PROVE  Typed'
<1>1. /\ UNCHANGED <<now, used, barrels, calls, answers, store, zoning>>
      /\ UNCHANGED <<loaded, storage_version>> /\ timer' = FALSE
      /\ SweepAndSave(graves, FALSE, pending)
  BY DEF TimerFired, storage, world
<1>2. graves \in Graveyards /\ loaded' \in BOOLEAN /\ storage_version' \in Nat
  BY <1>1 DEF Typed, TypeOK
<1>3. /\ graves' \in Graveyards /\ outbox' \in Seq(Commands)
      /\ sweep_armed' \in BOOLEAN /\ dirty' \in BOOLEAN
      /\ pending' \in SUBSET Nat /\ Cardinality(pending') <= 1 /\ IsFiniteSet(pending')
  BY <1>1, <1>2, SweepTyped
<1> QED
  BY <1>1, <1>2, <1>3, HandlerTyped DEF Typed, TypeOK

LEMMA AnswerOf ==
  ASSUME Typed, NEW answer \in answers
  PROVE  /\ answer.type \in {"get", "cas"} /\ answer.request \in Nat /\ answer.version \in Nat
         /\ answer.type = "get" => answer.value \in Graveyards /\ answer.outcome \in {"read", "failed"}
         /\ answer.type = "cas" => answer.outcome \in {"committed", "refused", "failed"}
<1>1. answer \in Answers
  BY DEF Typed, TypeOK
<1> QED
  BY <1>1 DEF Answers

LEMMA ReloadOf ==
  ASSUME Typed, outbox' = Append(outbox, Get(NewRequest))
  PROVE  outbox' \in Seq(Commands) /\ Range(outbox') = Range(outbox) \cup {Get(NewRequest)}
<1> PICK g : g = Get(NewRequest)
  OBVIOUS
<1>1. g \in Commands
  BY NewRequestIsNew, CommandTypes
<1> QED
  BY <1>1, AppendOf DEF Typed, TypeOK

LEMMA DeliverTyped ==
  ASSUME Typed, Deliver
  PROVE  Typed'
<1>1. PICK answer \in answers :
         /\ answers' = answers \ {answer}
         /\ TableRead(answer) \/ Unreadable(answer) \/ Saved(answer) \/ Ignored(answer)
         /\ UNCHANGED <<now, used, barrels, calls, store, zoning, timer>>
  BY DEF Deliver, world
<1>2. /\ answers' \in SUBSET answers /\ timer' \in BOOLEAN /\ used \subseteq used'
      /\ used' \subseteq Cells /\ DOMAIN barrels' \subseteq used'
      /\ \A c \in DOMAIN barrels' : barrels'[c] \in [owner: Players, deadline: 0 .. MaxTick]
  BY <1>1 DEF Typed, TypeOK
<1>3. graves \in Graveyards
  BY DEF Typed, TypeOK
<1>4. CASE TableRead(answer)
  <2>1. /\ answer.value \in Graveyards /\ loaded' = TRUE /\ storage_version' \in Nat
        /\ SweepAndSave(Merged(answer.value, graves), sweep_armed, {})
    BY <1>4, AnswerOf DEF TableRead
  <2>2. Merged(answer.value, graves) \in Graveyards
    BY <1>3, <2>1, MergedOf
  <2>3. loaded' \in BOOLEAN /\ sweep_armed \in BOOLEAN
    BY <2>1 DEF Typed, TypeOK
  <2>4. /\ graves' \in Graveyards /\ outbox' \in Seq(Commands)
        /\ sweep_armed' \in BOOLEAN /\ dirty' \in BOOLEAN
        /\ pending' \in SUBSET Nat /\ Cardinality(pending') <= 1 /\ IsFiniteSet(pending')
    BY <2>1, <2>2, <2>3, SweepTyped
  <2> QED
    BY <1>1, <1>2, <2>1, <2>3, <2>4, HandlerTyped
<1>5. CASE Unreadable(answer)
  BY <1>1, <1>2, <1>5, HandlerTyped DEF Unreadable, Typed, TypeOK
<1>6. CASE Saved(answer)
  <2>1. UNCHANGED <<graves, sweep_armed>>
    BY <1>6 DEF Saved
  <2>2. CASE answer.outcome = "committed" /\ dirty
    <3>1. storage_version' = answer.version /\ loaded' = loaded /\ Save({}, FALSE, <<>>)
      BY <1>6, <2>2 DEF Saved
    <3>2. storage_version' \in Nat /\ graves' \in Graveyards
      BY <1>3, <2>1, <3>1, AnswerOf
    <3>3. /\ outbox' \in Seq(Commands) /\ Sent(loaded' /\ {} = {}, {}, FALSE)
      BY <3>1, <3>2, NoCommand, SaveOf
    <3>4. /\ pending' \in SUBSET Nat /\ Cardinality(pending') <= 1
          /\ IsFiniteSet(pending') /\ dirty' \in BOOLEAN
      BY <3>3, SentType
    <3> QED
      BY <1>1, <1>2, <2>1, <3>1, <3>2, <3>3, <3>4, HandlerTyped DEF Typed, TypeOK
  <2>3. CASE answer.outcome = "committed" /\ ~ dirty
    <3>1. /\ storage_version' = answer.version /\ loaded' = loaded /\ pending' = {}
          /\ UNCHANGED <<dirty, outbox>>
      BY <1>6, <2>3 DEF Saved
    <3>2. storage_version' \in Nat
      BY <3>1, AnswerOf
    <3>3. pending' \in SUBSET Nat /\ Cardinality(pending') <= 1 /\ IsFiniteSet(pending')
      BY <3>1, FS_EmptySet
    <3> QED
      BY <1>1, <1>2, <2>1, <3>1, <3>2, <3>3, HandlerTyped DEF Typed, TypeOK
  <2>4. CASE answer.outcome # "committed"
    <3>1. /\ loaded' = FALSE /\ pending' = {} /\ UNCHANGED <<storage_version, dirty>>
          /\ outbox' = Append(outbox, Get(NewRequest))
      BY <1>6, <2>4 DEF Saved
    <3>2. outbox' \in Seq(Commands)
      BY <3>1, ReloadOf
    <3>3. pending' \in SUBSET Nat /\ Cardinality(pending') <= 1 /\ IsFiniteSet(pending')
      BY <3>1, FS_EmptySet
    <3> QED
      BY <1>1, <1>2, <2>1, <3>1, <3>2, <3>3, HandlerTyped DEF Typed, TypeOK
  <2> QED
    BY <2>2, <2>3, <2>4
<1>7. CASE Ignored(answer)
  BY <1>1, <1>2, <1>7, HandlerTyped DEF Ignored, plugin, Typed, TypeOK
<1> QED
  BY <1>1, <1>4, <1>5, <1>6, <1>7

(* A zone answer only changes whether its grave counts as protected. *)
LEMMA ZoneAnsweredOf ==
  ASSUME Typed, ZoneAnswered
  PROVE  graves' \in Graveyards /\ SameGraves(graves', graves)
<1>1. PICK answer : /\ answer = Head(zone_answers) /\ answer \in [cell: Cells, applied: BOOLEAN]
  BY HeadTailProperties DEF ZoneAnswered, Typed, TypeOK
<1>2. graves' = [c \in DOMAIN graves |->
                      IF c = answer.cell
                      THEN [graves[c] EXCEPT !.protected = answer.applied]
                      ELSE graves[c]]
  BY <1>1 DEF ZoneAnswered
<1>3. DOMAIN graves \subseteq Cells /\ graves \in [DOMAIN graves -> Grave]
  BY GraveyardOf DEF Typed, TypeOK
<1>4. ASSUME NEW c \in DOMAIN graves
      PROVE  /\ graves'[c] \in Grave
             /\ graves'[c].owner = graves[c].owner /\ graves'[c].public_at = graves[c].public_at
  <2> PICK g : g = graves[c]
    OBVIOUS
  <2>1. g \in Grave
    BY <1>3
  <2>2. [g EXCEPT !.protected = answer.applied] \in Grave
    BY <1>1, <2>1 DEF Grave
  <2>3. graves'[c] = IF c = answer.cell THEN [g EXCEPT !.protected = answer.applied] ELSE g
    BY <1>2
  <2> QED
    BY <2>1, <2>2, <2>3 DEF Grave
<1>5. DOMAIN graves' = DOMAIN graves /\ graves' \in [DOMAIN graves -> Grave]
  BY <1>2, <1>4
<1>6. graves' \in Graveyards
  BY <1>3, <1>5, GraveyardOf
<1> QED
  BY <1>4, <1>5, <1>6 DEF SameGraves

LEMMA ZoneAnsweredTyped ==
  ASSUME Typed, ZoneAnswered
  PROVE  Typed'
<1>1. graves' \in Graveyards
  BY ZoneAnsweredOf
<1>2. zone_answers' \in Seq([cell: Cells, applied: BOOLEAN])
  BY HeadTailProperties DEF ZoneAnswered, Typed, TypeOK
<1>3. UNCHANGED <<storage_version, loaded, sweep_armed, dirty, pending, now, barrels, used,
                  calls, answers, store, zones, zone_calls, timer, outbox>>
  BY DEF ZoneAnswered, world, storage
<1> QED
  BY <1>1, <1>2, <1>3 DEF Typed, TypeOK

LEMMA AcceptTyped ==
  ASSUME Typed, AcceptBatch
  PROVE  Typed'
<1>1. StorageCalls \subseteq StorageRequests /\ IsFiniteSet(StorageCalls)
  BY StorageCallsOf
<1>2. ZoneCommandsOf(outbox) \in Seq(ZoneRequests)
  BY ZoneCommandsOfBatch DEF Typed, TypeOK
<1>3. zone_calls' \in Seq(ZoneRequests)
  BY <1>2 DEF AcceptBatch, Typed
<1>4. ZoneRequests \subseteq Commands /\ StorageRequests \subseteq Commands
  BY DEF ZoneRequests, StorageRequests, Commands
<1>5. zone_calls' \in Seq(Commands)
  BY <1>3, <1>4
<1>6. calls' = StorageCalls /\ outbox' = <<>> /\ timer' \in BOOLEAN
  BY DEF AcceptBatch, Typed, TypeOK
<1>7. calls' \in SUBSET Commands
  BY <1>1, <1>4, <1>6
<1>8. UNCHANGED <<plugin, world, answers, store, zones, zone_answers>>
  BY DEF AcceptBatch
<1> QED
  BY <1>1, <1>3, <1>5, <1>6, <1>7, <1>8, NoCommand DEF Typed, TypeOK, plugin, world

LEMMA RejectTyped ==
  ASSUME Typed, RejectBatch
  PROVE  Typed'
<1>1. pending' \in SUBSET Nat /\ Cardinality(pending') <= 1 /\ IsFiniteSet(pending')
  BY FS_EmptySet DEF RejectBatch
<1> QED
  BY <1>1, NoCommand DEF RejectBatch, Typed, TypeOK, world, storage, zoning

(* A compare-and-set commits against the version it names or not at all. *)
LEMMA CasResult ==
  ASSUME NEW record, NEW expected, NEW new, NEW x \in CasOutcomes(record, expected, new)
  PROVE  /\ x.outcome \in {"committed", "refused", "failed"}
         /\ x.record \in {record, new}
         /\ x.outcome = "committed" => x.record = new
         /\ x.record # record => record.version = expected
         /\ x.outcome = "refused" => record.version # expected
         /\ "uncertain_write" \notin Faults /\ record.version = expected => x.outcome = "committed"
<1>1. CASE record.version = expected
  <2>1. \/ x = [record |-> new, outcome |-> "committed"]
        \/ /\ "uncertain_write" \in Faults
           /\ \/ x = [record |-> new, outcome |-> "failed"]
              \/ x = [record |-> record, outcome |-> "failed"]
    BY <1>1 DEF CasOutcomes
  <2> QED
    BY <1>1, <2>1
<1>2. CASE record.version # expected
  <2>1. x = [record |-> record, outcome |-> "refused"]
    BY <1>2 DEF CasOutcomes
  <2> QED
    BY <1>2, <2>1
<1> QED
  BY <1>1, <1>2

LEMMA CallOf ==
  ASSUME Typed, NEW call \in StorageCalls
  PROVE  /\ call.type \in {"get", "cas"} /\ call.request \in Nat
         /\ call.type = "cas" => call.expected \in Nat /\ call.value \in Graveyards
<1>1. call \in StorageRequests
  BY StorageCallsOf
<1> QED
  BY <1>1 DEF StorageRequests

LEMMA ExecuteTyped ==
  ASSUME Typed, Execute
  PROVE  Typed'
<1>1. PICK call \in calls : /\ calls' = calls \ {call}
                            /\ ExecuteGet(call) \/ ExecuteCas(call)
                            /\ UNCHANGED <<plugin, world, zoning, timer, outbox>>
  BY DEF Execute
<1>2. call \in StorageCalls
  BY DEF StorageCalls
<1>3. IsFiniteSet(calls') /\ calls' \subseteq calls
  BY <1>1, FS_Subset DEF Typed
<1>4. ASSUME store' \in [version: Nat, value: Graveyards],
             NEW a \in Answers, answers' = answers \cup {a}
      PROVE  Typed'
  <2>1. IsFiniteSet(answers') /\ answers' \subseteq Answers
    BY <1>4, FS_AddElement DEF Typed, TypeOK
  <2> QED
    BY <1>1, <1>3, <1>4, <2>1 DEF Typed, TypeOK, plugin, world, zoning
<1>5. CASE ExecuteGet(call)
  <2>1. PICK outcome \in ReadOutcomes :
           answers' = answers \cup {[type |-> "get", request |-> call.request,
                                     outcome |-> outcome, version |-> store.version,
                                     value |-> store.value]}
    BY <1>5 DEF ExecuteGet
  <2>2. outcome \in {"read", "failed"}
    BY DEF ReadOutcomes
  <2>3. store' = store /\ store \in [version: Nat, value: Graveyards]
    BY <1>5 DEF ExecuteGet, Typed, TypeOK
  <2>4. [type |-> "get", request |-> call.request, outcome |-> outcome,
         version |-> store.version, value |-> store.value] \in Answers
    BY <1>2, <2>2, <2>3, CallOf DEF Answers
  <2> QED
    BY <1>4, <2>1, <2>3, <2>4
<1>6. CASE ExecuteCas(call)
  <2> PICK n : n = [version |-> NewVersion, value |-> call.value]
    OBVIOUS
  <2>1. PICK x \in CasOutcomes(store, call.expected, n) :
           /\ store' = x.record
           /\ answers' = answers \cup {[type |-> "cas", request |-> call.request,
                                        outcome |-> x.outcome, version |-> x.record.version]}
    BY <1>6 DEF ExecuteCas
  <2>2. n \in [version: Nat, value: Graveyards]
    BY <1>2, <1>6, CallOf, NewVersionIsNew DEF ExecuteCas
  <2>3. x.outcome \in {"committed", "refused", "failed"} /\ x.record \in {store, n}
    BY CasResult
  <2>4. x.record \in [version: Nat, value: Graveyards]
    BY <2>2, <2>3 DEF Typed, TypeOK
  <2>5. [type |-> "cas", request |-> call.request, outcome |-> x.outcome,
         version |-> x.record.version] \in Answers
    BY <1>2, <2>3, <2>4, CallOf DEF Answers
  <2> QED
    BY <1>4, <2>1, <2>4, <2>5
<1> QED
  BY <1>1, <1>5, <1>6

LEMMA ExecuteZoneTyped ==
  ASSUME Typed, ExecuteZone
  PROVE  Typed'
<1>1. PICK call : call = Head(zone_calls)
  OBVIOUS
<1>2. call \in ZoneRequests /\ zone_calls' \in Seq(ZoneRequests) /\ zone_calls' \in Seq(Commands)
  BY <1>1, HeadTailProperties DEF ExecuteZone, Typed, TypeOK
<1>3. call.cell \in Cells /\ (call.type = "upsert" => call.owner \in Players)
  BY <1>2 DEF ZoneRequests
<1>4. \A b \in BOOLEAN : Append(zone_answers, [cell |-> call.cell, applied |-> b])
                           \in Seq([cell: Cells, applied: BOOLEAN])
  BY <1>3 DEF Typed, TypeOK
<1>5. zone_answers' \in Seq([cell: Cells, applied: BOOLEAN])
  BY <1>1, <1>4 DEF ExecuteZone
<1>6. DOMAIN zones' \subseteq Cells /\ Range(zones') \subseteq Players
  <2>1. CASE UNCHANGED zones
    BY <2>1 DEF Typed, TypeOK
  <2>2. CASE call.type = "upsert" /\ zones' = Insert(zones, call.cell, call.owner)
    <3>1. /\ DOMAIN zones' = DOMAIN zones \cup {call.cell}
          /\ \A c \in DOMAIN zones' : zones'[c] = IF c = call.cell THEN call.owner ELSE zones[c]
      BY <2>2 DEF Insert
    <3> QED
      BY <1>3, <2>2, <3>1 DEF Range, Typed, TypeOK
  <2>3. CASE zones' = Without(zones, {call.cell})
    <3>1. /\ DOMAIN zones' = DOMAIN zones \ {call.cell}
          /\ \A c \in DOMAIN zones' : zones'[c] = zones[c]
      BY <2>3 DEF Without
    <3> QED
      BY <3>1 DEF Range, Typed, TypeOK
  <2> QED
    BY <1>1, <2>1, <2>2, <2>3 DEF ExecuteZone
<1>7. UNCHANGED <<plugin, world, storage, timer, outbox>>
  BY DEF ExecuteZone
<1> QED
  BY <1>2, <1>5, <1>6, <1>7 DEF Typed, TypeOK, plugin, world, storage

LEMMA RestartTyped ==
  ASSUME Typed, Restart
  PROVE  Typed'
<1>1. /\ graves' = <<>> /\ storage_version' = 0 /\ loaded' = FALSE
      /\ sweep_armed' = FALSE /\ dirty' = FALSE /\ pending' = {} /\ timer' = FALSE
      /\ outbox' = <<Get(1)>> /\ calls' = {} /\ answers' = {} /\ zone_answers' = <<>>
      /\ UNCHANGED <<world, store, zones, zone_calls>>
  BY DEF Restart
<1>2. <<Get(1)>> \in Seq(Commands)
  BY CommandTypes, OneCommand
<1>3. IsFiniteSet({}) /\ Cardinality({}) <= 1
  BY FS_EmptySet
<1>4. /\ graves' \in Graveyards /\ storage_version' \in Nat /\ outbox' \in Seq(Commands)
      /\ zone_answers' \in Seq([cell: Cells, applied: BOOLEAN])
  BY <1>1, <1>2, EmptyGraveyard
<1> QED
  BY <1>1, <1>3, <1>4 DEF Typed, TypeOK, world

LEMMA NextTyped ==
  ASSUME Typed, [Next]_vars
  PROVE  Typed'
<1>1. CASE Tick
  BY <1>1, BoundsAssumption DEF Tick, Typed, TypeOK, plugin, storage, zoning
<1>2. ASSUME NEW cell \in Cells, NEW owner \in Players, GraveCreated(cell, owner) PROVE Typed'
  BY <1>2, GraveCreatedTyped
<1>3. ASSUME NEW cell \in Cells, Broken(cell) PROVE Typed'
  BY <1>3, BrokenTyped
<1>4. CASE TimerFired
  BY <1>4, TimerFiredTyped
<1>5. CASE Deliver
  BY <1>5, DeliverTyped
<1>6. CASE ZoneAnswered
  BY <1>6, ZoneAnsweredTyped
<1>7. CASE AcceptBatch
  BY <1>7, AcceptTyped
<1>8. CASE RejectBatch
  BY <1>8, RejectTyped
<1>9. CASE Execute
  BY <1>9, ExecuteTyped
<1>10. CASE ExecuteZone
  BY <1>10, ExecuteZoneTyped
<1>11. CASE Restart
  BY <1>11, RestartTyped
<1>12. CASE UNCHANGED vars
  BY <1>12 DEF vars, Typed, TypeOK, plugin, world, storage, zoning
<1> QED
  BY <1>1, <1>2, <1>3, <1>4, <1>5, <1>6, <1>7, <1>8, <1>9, <1>10, <1>11, <1>12 DEF Next

(* Whatever fails or is reused, the tables, the requests and the answers   *)
(* are of the types the plugin and the host expect, and only one save is   *)
(* awaited.                                                                *)
THEOREM TypeCorrect == Spec => []Typed
<1>1. Init => Typed
  BY InitTyped
<1>2. Typed /\ [Next]_vars => Typed'
  BY NextTyped
<1> QED
  BY <1>1, <1>2, PTL DEF Spec

THEOREM TypeOKAlways == Spec => []TypeOK
<1>1. Typed => TypeOK
  BY DEF Typed
<1> QED
  BY <1>1, TypeCorrect, PTL

-----------------------------------------------------------------------------
(* Deadlines *)

(* Every table there is: the one in memory, the stored one, and those that *)
(* are being written or were read.                                         *)
Tables ==
  {graves, store.value}
    \cup {c.value : c \in {d \in StorageCalls : d.type = "cas"}}
    \cup {a.value : a \in {b \in answers : b.type = "get"}}

(* The tables the host has or has to write. *)
HostTables ==
  {store.value}
    \cup {c.value : c \in {d \in calls : d.type = "cas"}}
    \cup {a.value : a \in {b \in answers : b.type = "get"}}

(* A table says of the graves that still are what they were created with.  *)
Honest(t) ==
  \A c \in DOMAIN t :
     /\ c \in used
     /\ c \in DOMAIN barrels => /\ t[c].owner = barrels[c].owner
                                /\ t[c].public_at = barrels[c].deadline

(* DeadlineKept is about the table in memory, which a load merges with one *)
(* that was stored before: it is kept only if all tables are honest.       *)
Kept == \A t \in Tables : Honest(t)

LEMMA CommandsDiffer ==
  /\ \A c, d : Remove(c) = Remove(d) => c = d
  /\ \A c, d, p : Remove(c) # Upsert(d, p)
  /\ \A c : Remove(c) # ScheduleTimer
  /\ \A c, n : Remove(c) # Get(n)
  /\ \A c, n, v, t : Remove(c) # Cas(n, v, t)
<1>1. /\ \A c : Remove(c).cell = c /\ Remove(c).type = "remove"
      /\ \A d, p : Upsert(d, p).type = "upsert"
      /\ ScheduleTimer.type = "timer"
      /\ \A n : Get(n).type = "get"
      /\ \A n, v, t : Cas(n, v, t).type = "cas"
  BY DEF Remove, Upsert, ScheduleTimer, Get, Cas
<1>2. \A c, d : Remove(c) = Remove(d) => c = d
  <2> SUFFICES ASSUME NEW c, NEW d, Remove(c) = Remove(d) PROVE c = d
    OBVIOUS
  <2>1. Remove(c).cell = c /\ Remove(d).cell = d
    BY <1>1
  <2> QED
    BY <2>1
<1>3. \A c, d, p : Remove(c) # Upsert(d, p)
  BY <1>1
<1> QED
  BY <1>1, <1>2, <1>3

LEMMA CasFields ==
  ASSUME NEW n, NEW v, NEW t
  PROVE  /\ Cas(n, v, t).type = "cas" /\ Cas(n, v, t).request = n
         /\ Cas(n, v, t).expected = v /\ Cas(n, v, t).value = t
BY DEF Cas

LEMMA HonestStays ==
  ASSUME NEW t, Honest(t), used \subseteq used',
         \A c \in DOMAIN barrels' : c \in used => c \in DOMAIN barrels /\ barrels'[c] = barrels[c]
  PROVE  Honest(t)'
BY DEF Honest

(* A handler makes no table but the one in memory. *)
LEMMA HandlerTables ==
  ASSUME store' = store, calls' = calls, answers' \subseteq answers,
         \A x \in Range(outbox') \ Range(outbox) : x.type = "cas" => x.value = graves',
         NEW g, g = graves'
  PROVE  \A t \in Tables' : t = g \/ t \in Tables
<1> PICK B, C : B = StorageCalls /\ C = StorageCalls'
  OBVIOUS
<1>1. \A x \in C : x.type = "cas" => x \in B \/ x.value = g
  <2>1. C = {c \in Range(outbox') : c.type \in {"get", "cas"}} \cup calls
    BY DEF StorageCalls
  <2>2. B = {c \in Range(outbox) : c.type \in {"get", "cas"}} \cup calls
    BY DEF StorageCalls
  <2> QED
    BY <2>1, <2>2
<1>2. Tables' = {g, store.value} \cup {c.value : c \in {d \in C : d.type = "cas"}}
                  \cup {a.value : a \in {b \in answers' : b.type = "get"}}
  BY DEF Tables
<1>3. Tables = {graves, store.value} \cup {c.value : c \in {d \in B : d.type = "cas"}}
                 \cup {a.value : a \in {b \in answers : b.type = "get"}}
  BY DEF Tables
<1> QED
  BY <1>1, <1>2, <1>3

LEMMA KeptByHandler ==
  ASSUME Kept, used \subseteq used',
         \A c \in DOMAIN barrels' : c \in used => c \in DOMAIN barrels /\ barrels'[c] = barrels[c],
         store' = store, calls' = calls, answers' \subseteq answers,
         \A x \in Range(outbox') \ Range(outbox) : x.type = "cas" => x.value = graves',
         NEW g, g = graves', Honest(g)'
  PROVE  Kept'
<1>1. \A t \in Tables : Honest(t)'
  BY HonestStays DEF Kept
<1>2. \A t \in Tables' : t = g \/ t \in Tables
  BY HandlerTables
<1>3. \A t \in Tables' : Honest(t)'
  BY <1>1, <1>2
<1> QED
  BY <1>3 DEF Kept

LEMMA KeptOf ==
  ASSUME Kept
  PROVE  /\ Honest(graves) /\ Honest(store.value)
         /\ \A a \in answers : a.type = "get" => Honest(a.value)
         /\ \A c \in StorageCalls : c.type = "cas" => Honest(c.value)
BY DEF Kept, Tables

(* Writes of the table in memory bring no other one into being. *)
LEMMA WritesOf ==
  ASSUME NEW sent
  PROVE  \A x \in Writes(sent) : x.type = "cas" /\ x.value = graves'
BY CasFields DEF Writes

LEMMA InitKept == Init => Kept
<1> SUFFICES ASSUME Init PROVE Kept
  OBVIOUS
<1>1. StorageCalls = {Get(1)} /\ answers = {} /\ graves = <<>> /\ store.value = <<>>
  BY DEF Init, StorageCalls, Range, Get
<1>2. Get(1).type = "get" /\ DOMAIN <<>> = {}
  BY DEF Get
<1>3. Tables = {<<>>}
  BY <1>1, <1>2 DEF Tables
<1> QED
  BY <1>2, <1>3 DEF Kept, Honest

LEMMA GraveCreatedKept ==
  ASSUME Typed, Kept, ~ CellReuse,
         NEW cell \in Cells, NEW owner \in Players, GraveCreated(cell, owner)
  PROVE  Kept'
<1>1. /\ UNCHANGED <<now, calls, answers, store>> /\ now + PublicAfter < MaxTick
      /\ cell \notin used /\ used' = used \cup {cell}
      /\ barrels' = Insert(barrels, cell, [owner |-> owner, deadline |-> now + PublicAfter])
  BY DEF GraveCreated, storage
<1>2. /\ DOMAIN barrels' = DOMAIN barrels \cup {cell}
      /\ barrels'[cell].owner = owner /\ barrels'[cell].deadline = now + PublicAfter
      /\ \A c \in DOMAIN barrels : c # cell => barrels'[c] = barrels[c]
  BY <1>1 DEF Insert
<1>3. \A c \in DOMAIN barrels' : c \in used => c \in DOMAIN barrels /\ barrels'[c] = barrels[c]
  BY <1>1, <1>2
<1>4. Honest(graves)
  BY KeptOf
<1>5. cell \notin DOMAIN graves
  BY <1>1, <1>4 DEF Honest
<1>6. PICK evicted \in SUBSET DOMAIN graves : Record(cell, owner, evicted)
  <2>1. \A oldest \in Oldest(graves) : {oldest} \in SUBSET DOMAIN graves
    BY DEF Oldest
  <2> QED
    BY <1>5, <2>1 DEF GraveCreated
<1> PICK g : g = graves'
  OBVIOUS
<1>7. /\ DOMAIN g = (DOMAIN graves \ evicted) \cup {cell}
      /\ g[cell].owner = owner /\ g[cell].public_at = now + PublicAfter
      /\ \A c \in DOMAIN graves \ evicted : c # cell => g[c] = graves[c]
  BY <1>1, <1>6, RecordOf
<1>8. Honest(g)'
  BY <1>1, <1>2, <1>4, <1>7 DEF Honest
<1>9. \A x \in Range(outbox') \ Range(outbox) : x.type = "cas" => x.value = graves'
  <2>1. PICK T \in SUBSET {ScheduleTimer} :
           Range(outbox') = Range(outbox)
                 \cup {Remove(c) : c \in {d \in evicted : graves[d].protected}}
                 \cup {Upsert(cell, owner)} \cup T \cup Writes(loaded /\ pending = {})
    <3>1. RecordCommands(cell, owner, evicted)
      BY <1>1, <1>6, RecordOf
    <3> QED
      BY <3>1 DEF RecordCommands
  <2>2. /\ \A c : Remove(c).type # "cas"
        /\ Upsert(cell, owner).type # "cas" /\ ScheduleTimer.type # "cas"
    BY DEF Remove, Upsert, ScheduleTimer
  <2> QED
    BY <2>1, <2>2, WritesOf
<1> QED
  BY <1>1, <1>3, <1>8, <1>9, KeptByHandler

LEMMA BrokenKept ==
  ASSUME Typed, Kept, NEW cell \in Cells, Broken(cell)
  PROVE  Kept'
<1>1. /\ UNCHANGED <<used, calls, answers, store>>
      /\ barrels' = Without(barrels, {cell})
  BY DEF Broken, storage
<1>2. \A c \in DOMAIN barrels' : c \in used => c \in DOMAIN barrels /\ barrels'[c] = barrels[c]
  BY <1>1 DEF Without
<1>3. Honest(graves)
  BY KeptOf
<1> PICK g : g = graves'
  OBVIOUS
<1>4. CASE cell \notin DOMAIN graves
  <2>1. g = graves /\ outbox' = outbox
    BY <1>4 DEF Broken, plugin
  <2>2. Honest(g)'
    BY <1>1, <1>2, <1>3, <2>1, HonestStays
  <2> QED
    BY <1>1, <1>2, <2>1, <2>2, KeptByHandler
<1>5. CASE cell \in DOMAIN graves
  <2>1. /\ graves' = Without(graves, {cell})
        /\ UNCHANGED <<storage_version, loaded, sweep_armed>>
        /\ Save(pending, dirty, IF graves[cell].protected THEN <<Remove(cell)>> ELSE <<>>)
    BY <1>5 DEF Broken
  <2>2. /\ DOMAIN g = DOMAIN graves \ {cell} /\ \A c \in DOMAIN g : g[c] = graves[c]
        /\ \E R \in SUBSET {Remove(cell)} :
              Range(outbox') = Range(outbox) \cup R \cup Writes(loaded' /\ pending = {})
    BY <1>5, <2>1, BrokenOf
  <2>3. Honest(g)
    BY <1>3, <2>2 DEF Honest
  <2>4. Honest(g)'
    BY <1>1, <1>2, <2>3, HonestStays
  <2>5. Remove(cell).type # "cas"
    BY DEF Remove
  <2>6. \A x \in Range(outbox') \ Range(outbox) : x.type = "cas" => x.value = graves'
    BY <2>2, <2>5, WritesOf
  <2> QED
    BY <1>1, <1>2, <2>4, <2>6, KeptByHandler
<1> QED
  BY <1>4, <1>5

LEMMA SweepKept ==
  ASSUME Typed, Kept, NEW table \in Graveyards, Honest(table),
         NEW waiting, NEW due, SweepResult(table, waiting, due),
         UNCHANGED <<used, barrels, calls, store>>, answers' \subseteq answers
  PROVE  Kept'
<1> PICK g : g = Swept(table, due)
  OBVIOUS
<1>1. SameGraves(g, table) /\ g = graves'
  BY SweptOf DEF SweepResult
<1>2. Honest(g)
  BY <1>1 DEF Honest, SameGraves
<1>3. \A c \in DOMAIN barrels' : c \in used => c \in DOMAIN barrels /\ barrels'[c] = barrels[c]
  BY DEF Typed, TypeOK
<1>4. Honest(g)'
  BY <1>2, <1>3, HonestStays
<1>5. \A x \in Range(outbox') \ Range(outbox) : x.type = "cas" => x.value = graves'
  <2>1. PICK T \in SUBSET {ScheduleTimer} :
           Range(outbox') = Range(outbox) \cup {Remove(c) : c \in due} \cup T
             \cup Writes((dirty \/ due # {}) /\ loaded' /\ waiting = {})
    BY DEF SweepResult
  <2>2. (\A c : Remove(c).type # "cas") /\ ScheduleTimer.type # "cas"
    BY DEF Remove, ScheduleTimer
  <2> QED
    BY <2>1, <2>2, WritesOf
<1> QED
  BY <1>1, <1>3, <1>4, <1>5, KeptByHandler

(* m holds the graves stored and, of the others, those in memory. *)
Merges(m, stored, local) ==
  /\ DOMAIN m = DOMAIN stored \cup DOMAIN local
  /\ \A c \in DOMAIN stored \cup DOMAIN local :
        m[c] = IF c \in DOMAIN stored THEN stored[c] ELSE local[c]

(* A load merges two tables into one, and sweeps it. *)
LEMMA TableReadOf ==
  ASSUME Typed, NEW answer \in answers, TableRead(answer)
  PROVE  /\ answer.type = "get" /\ loaded' = TRUE /\ storage_version' = answer.version
         /\ \E m \in Graveyards : /\ Merges(m, answer.value, graves)
                                  /\ \E due : SweepResult(m, {}, due)
<1>1. /\ answer.type = "get" /\ answer.value \in Graveyards
      /\ loaded' = TRUE /\ storage_version' \in Nat /\ storage_version' = answer.version
      /\ SweepAndSave(Merged(answer.value, graves), sweep_armed, {})
  BY AnswerOf DEF TableRead
<1>2. graves \in Graveyards
  BY DEF Typed, TypeOK
<1>0. PICK m : m = Merged(answer.value, graves)
  OBVIOUS
<1>3. /\ m \in Graveyards /\ DOMAIN m = DOMAIN answer.value \cup DOMAIN graves
      /\ \A c \in DOMAIN answer.value \cup DOMAIN graves :
             m[c] = IF c \in DOMAIN answer.value THEN answer.value[c] ELSE graves[c]
  BY <1>2, <1>0, <1>1, MergedOf
<1>4. Merges(m, answer.value, graves)
  BY <1>3 DEF Merges
<1>5. \E due : SweepResult(m, {}, due)
  <2>1. sweep_armed \in BOOLEAN /\ loaded' \in BOOLEAN
    BY <1>1 DEF Typed, TypeOK
  <2>2. SweepAndSave(m, sweep_armed, {})
    BY <1>0, <1>1
  <2> QED
    BY <1>1, <1>3, <2>1, <2>2, SweepOf
<1> QED
  BY <1>1, <1>3, <1>4, <1>5

(* The table a load makes is honest. *)
LEMMA LoadIsHonest ==
  ASSUME Typed, Kept, NEW answer \in answers, TableRead(answer)
  PROVE  \E m \in Graveyards : Honest(m) /\ \E due : SweepResult(m, {}, due)
<1>1. PICK m \in Graveyards : /\ Merges(m, answer.value, graves)
                             /\ \E due : SweepResult(m, {}, due)
  BY TableReadOf
<1>2. Honest(graves) /\ Honest(answer.value)
  <2>1. answer.type = "get"
    BY DEF TableRead
  <2> QED
    BY <2>1, KeptOf
<1>3. Honest(m)
  BY <1>1, <1>2 DEF Honest, Merges
<1> QED
  BY <1>1, <1>3

LEMMA DeliverKept ==
  ASSUME Typed, Kept, Deliver
  PROVE  Kept'
<1>1. PICK answer \in answers :
         /\ answers' = answers \ {answer}
         /\ TableRead(answer) \/ Unreadable(answer) \/ Saved(answer) \/ Ignored(answer)
         /\ UNCHANGED <<used, barrels, calls, store>>
  BY DEF Deliver, world
<1>2. Honest(graves) /\ graves \in Graveyards
  BY KeptOf DEF Typed, TypeOK
<1>3. \A c \in DOMAIN barrels' : c \in used => c \in DOMAIN barrels /\ barrels'[c] = barrels[c]
  BY <1>1
<1>4. CASE TableRead(answer)
  <2>1. PICK m \in Graveyards : Honest(m) /\ \E due : SweepResult(m, {}, due)
    BY <1>4, LoadIsHonest
  <2>2. PICK due : SweepResult(m, {}, due)
    BY <2>1
  <2> QED
    BY <1>1, <2>1, <2>2, SweepKept
<1> PICK g : g = graves'
  OBVIOUS
<1>5. ASSUME g = graves,
             \A x \in Range(outbox') \ Range(outbox) : x.type = "cas" => x.value = graves'
      PROVE  Kept'
  <2>1. Honest(g)'
    BY <1>1, <1>2, <1>3, <1>5, HonestStays
  <2> QED
    BY <1>1, <1>3, <1>5, <2>1, KeptByHandler
<1>6. CASE Unreadable(answer)
  BY <1>5, <1>6 DEF Unreadable
<1>7. CASE Saved(answer)
  <2>1. g = graves
    BY <1>7 DEF Saved
  <2>2. CASE answer.outcome = "committed" /\ dirty
    <3>1. storage_version' = answer.version /\ loaded' = loaded /\ Save({}, FALSE, <<>>)
      BY <1>7, <2>2 DEF Saved
    <3>2. storage_version' \in Nat /\ graves' \in Graveyards
      BY <1>2, <2>1, <3>1, AnswerOf
    <3>3. Range(outbox') = Range(outbox) \cup {} \cup Writes(loaded' /\ {} = {})
      BY <3>1, <3>2, NoCommand, SaveOf
    <3> QED
      BY <1>5, <2>1, <3>3, WritesOf
  <2>3. CASE answer.outcome = "committed" /\ ~ dirty
    BY <1>5, <1>7, <2>1, <2>3 DEF Saved
  <2>4. CASE answer.outcome # "committed"
    <3>1. Range(outbox') = Range(outbox) \cup {Get(NewRequest)}
      BY <1>7, <2>4, ReloadOf DEF Saved
    <3>2. Get(NewRequest).type # "cas"
      BY DEF Get
    <3> QED
      BY <1>5, <2>1, <3>1, <3>2
  <2> QED
    BY <2>2, <2>3, <2>4
<1>8. CASE Ignored(answer)
  BY <1>5, <1>8 DEF Ignored, plugin
<1> QED
  BY <1>1, <1>4, <1>6, <1>7, <1>8

(* A step of the host that makes no table. *)
LEMMA KeptByHost ==
  ASSUME Kept, UNCHANGED <<used, barrels>>, Tables' \subseteq Tables
  PROVE  Kept'
<1>1. \A t \in Tables : Honest(t)'
  BY HonestStays DEF Kept
<1>2. \A t \in Tables' : Honest(t)'
  BY <1>1
<1> QED
  BY <1>2 DEF Kept

LEMMA ZoneAnsweredKept ==
  ASSUME Typed, Kept, ZoneAnswered
  PROVE  Kept'
<1> PICK g : g = graves'
  OBVIOUS
<1>1. SameGraves(g, graves) /\ Honest(graves)
  BY ZoneAnsweredOf, KeptOf
<1>2. Honest(g)
  BY <1>1 DEF Honest, SameGraves
<1>3. UNCHANGED <<used, barrels, calls, answers, store, outbox>>
  BY DEF ZoneAnswered, world, storage
<1>4. \A c \in DOMAIN barrels' : c \in used => c \in DOMAIN barrels /\ barrels'[c] = barrels[c]
  BY <1>3
<1>5. Honest(g)'
  BY <1>2, <1>3, <1>4, HonestStays
<1> QED
  BY <1>3, <1>4, <1>5, KeptByHandler

LEMMA AcceptKept ==
  ASSUME Kept, AcceptBatch
  PROVE  Kept'
<1>1. /\ UNCHANGED <<used, barrels, graves, store, answers>>
      /\ calls' = StorageCalls /\ outbox' = <<>>
  BY DEF AcceptBatch, world, plugin
<1> PICK B, C : B = StorageCalls /\ C = StorageCalls'
  OBVIOUS
<1>2. C = B
  <2>1. C = {c \in Range(outbox') : c.type \in {"get", "cas"}} \cup calls'
    BY DEF StorageCalls
  <2> QED
    BY <1>1, <2>1, NoCommand
<1>3. Tables' = {graves', store'.value} \cup {c.value : c \in {d \in C : d.type = "cas"}}
                  \cup {a.value : a \in {b \in answers' : b.type = "get"}}
  BY DEF Tables
<1>4. Tables = {graves, store.value} \cup {c.value : c \in {d \in B : d.type = "cas"}}
                 \cup {a.value : a \in {b \in answers : b.type = "get"}}
  BY DEF Tables
<1>5. Tables' = Tables
  BY <1>1, <1>2, <1>3, <1>4
<1> QED
  BY <1>1, <1>5, KeptByHost

(* What is lost with a batch or with the plugin only makes fewer tables. *)
LEMMA KeptByLoss ==
  ASSUME Kept, UNCHANGED <<used, barrels, store>>, NEW g, g = graves', Honest(g),
         answers' \subseteq answers, calls' \subseteq calls,
         \A c \in Range(outbox') : c.type # "cas"
  PROVE  Kept'
<1>1. \A t \in Tables : Honest(t)'
  BY HonestStays DEF Kept
<1>2. Honest(g)'
  BY HonestStays
<1> PICK B, C : B = StorageCalls /\ C = StorageCalls'
  OBVIOUS
<1>3. \A c \in C : c.type = "cas" => c \in B
  <2>1. C = {c \in Range(outbox') : c.type \in {"get", "cas"}} \cup calls'
    BY DEF StorageCalls
  <2>2. B = {c \in Range(outbox) : c.type \in {"get", "cas"}} \cup calls
    BY DEF StorageCalls
  <2> QED
    BY <2>1, <2>2
<1>4. Tables' = {g, store.value} \cup {c.value : c \in {d \in C : d.type = "cas"}}
                  \cup {a.value : a \in {b \in answers' : b.type = "get"}}
  BY DEF Tables
<1>5. Tables = {graves, store.value} \cup {c.value : c \in {d \in B : d.type = "cas"}}
                 \cup {a.value : a \in {b \in answers : b.type = "get"}}
  BY DEF Tables
<1>6. \A t \in Tables' : t = g \/ t \in Tables
  BY <1>3, <1>4, <1>5
<1>7. \A t \in Tables' : Honest(t)'
  BY <1>1, <1>2, <1>6
<1> QED
  BY <1>7 DEF Kept

(* Executing a request makes no table: a write stores its own, a read answers *)
(* with the stored one.                                                    *)
LEMMA ExecuteTables ==
  ASSUME Typed, Execute
  PROVE  Tables' \subseteq Tables /\ HostTables' \subseteq HostTables
<1>1. PICK call \in calls : /\ calls' = calls \ {call}
                            /\ ExecuteGet(call) \/ ExecuteCas(call)
                            /\ UNCHANGED <<graves, used, barrels, outbox>>
  BY DEF Execute, plugin, world
<1> PICK B, C : B = StorageCalls /\ C = StorageCalls'
  OBVIOUS
<1>2. C \subseteq B /\ call \in B
  <2>1. C = {c \in Range(outbox) : c.type \in {"get", "cas"}} \cup calls'
    BY <1>1 DEF StorageCalls
  <2>2. B = {c \in Range(outbox) : c.type \in {"get", "cas"}} \cup calls
    BY DEF StorageCalls
  <2> QED
    BY <1>1, <2>1, <2>2
<1>3. Tables' = {graves, store'.value} \cup {c.value : c \in {d \in C : d.type = "cas"}}
                  \cup {a.value : a \in {b \in answers' : b.type = "get"}}
  BY <1>1 DEF Tables
<1>4. Tables = {graves, store.value} \cup {c.value : c \in {d \in B : d.type = "cas"}}
                 \cup {a.value : a \in {b \in answers : b.type = "get"}}
  BY DEF Tables
<1>5. CASE ExecuteGet(call)
  <2>1. PICK a : /\ a.value = store.value
                 /\ answers' = answers \cup {a}
    <3>1. PICK outcome \in ReadOutcomes :
           answers' = answers \cup {[type |-> "get", request |-> call.request,
                                     outcome |-> outcome, version |-> store.version,
                                     value |-> store.value]}
      BY <1>5 DEF ExecuteGet
    <3>2. PICK a : a = [type |-> "get", request |-> call.request,
                        outcome |-> outcome, version |-> store.version,
                        value |-> store.value]
      OBVIOUS
    <3>3. a.value = store.value /\ answers' = answers \cup {a}
      BY <3>1, <3>2
    <3> QED
      BY <3>3
  <2>2. store' = store
    BY <1>5 DEF ExecuteGet
  <2>3. Tables' \subseteq Tables
    BY <1>2, <1>3, <1>4, <2>1, <2>2
  <2>4. HostTables' \subseteq HostTables
    BY <1>1, <2>1, <2>2 DEF HostTables
  <2> QED
    BY <2>3, <2>4
<1>6. CASE ExecuteCas(call)
  <2>0. PICK n : n = [version |-> NewVersion, value |-> call.value]
    OBVIOUS
  <2>1. PICK x \in CasOutcomes(store, call.expected, n) :
           /\ store' = x.record
           /\ answers' = answers \cup {[type |-> "cas", request |-> call.request,
                                        outcome |-> x.outcome, version |-> x.record.version]}
    BY <1>6, <2>0 DEF ExecuteCas
  <2>2. PICK a : a.type = "cas" /\ answers' = answers \cup {a}
    <3>1. PICK a : a = [type |-> "cas", request |-> call.request,
                        outcome |-> x.outcome, version |-> x.record.version]
      OBVIOUS
    <3>2. a.type = "cas" /\ answers' = answers \cup {a}
      BY <2>1, <3>1
    <3> QED
      BY <3>2
  <2>3. store' = store \/ store'.value = call.value
    <3>1. x.record \in {store, n}
      BY CasResult
    <3> QED
      BY <2>0, <2>1, <3>1
  <2>4. call.type = "cas"
    BY <1>6 DEF ExecuteCas
  <2>5. Tables' \subseteq Tables
    BY <1>2, <1>3, <1>4, <2>2, <2>3, <2>4
  <2>6. HostTables' \subseteq HostTables
    BY <1>1, <2>2, <2>3, <2>4 DEF HostTables
  <2> QED
    BY <2>5, <2>6
<1> QED
  BY <1>1, <1>5, <1>6

LEMMA ExecuteKept ==
  ASSUME Typed, Kept, Execute
  PROVE  Kept'
<1>1. UNCHANGED <<used, barrels>>
  BY DEF Execute, world
<1> QED
  BY <1>1, ExecuteTables, KeptByHost

LEMMA NextKept ==
  ASSUME Typed, Kept, ~ CellReuse, [Next]_vars
  PROVE  Kept'
<1>1. CASE Tick
  <2>1. UNCHANGED <<used, barrels, graves, store, calls, outbox, answers>>
    BY <1>1 DEF Tick, plugin, storage
  <2>2. Tables' = Tables
    BY <2>1 DEF Tables, StorageCalls
  <2> QED
    BY <2>1, <2>2, KeptByHost
<1>2. ASSUME NEW cell \in Cells, NEW owner \in Players, GraveCreated(cell, owner) PROVE Kept'
  BY <1>2, GraveCreatedKept
<1>3. ASSUME NEW cell \in Cells, Broken(cell) PROVE Kept'
  BY <1>3, BrokenKept
<1>4. CASE TimerFired
  <2>1. UNCHANGED <<used, barrels, calls, answers, store>>
    BY <1>4 DEF TimerFired, storage, world
  <2>2. PICK t, w : t = graves /\ t \in Graveyards /\ \E due : SweepResult(t, w, due)
    BY <1>4, TimerSweeps
  <2>3. PICK due : SweepResult(t, w, due)
    BY <2>2
  <2>4. Honest(t)
    BY <2>2, KeptOf
  <2> QED
    BY <2>1, <2>2, <2>3, <2>4, SweepKept
<1>5. CASE Deliver
  BY <1>5, DeliverKept
<1>6. CASE ZoneAnswered
  BY <1>6, ZoneAnsweredKept
<1>7. CASE AcceptBatch
  BY <1>7, AcceptKept
<1>8. CASE RejectBatch
  <2>1. UNCHANGED <<used, barrels, graves, store, calls, answers>> /\ outbox' = <<>>
    BY <1>8 DEF RejectBatch, world, storage
  <2> PICK g : g = graves'
    OBVIOUS
  <2> QED
    BY <2>1, KeptOf, KeptByLoss, NoCommand
<1>9. CASE Execute
  BY <1>9, ExecuteKept
<1>10. CASE ExecuteZone
  <2>1. UNCHANGED <<used, barrels, graves, store, calls, outbox, answers>>
    BY <1>10 DEF ExecuteZone, plugin, storage, world
  <2>2. Tables' = Tables
    BY <2>1 DEF Tables, StorageCalls
  <2> QED
    BY <2>1, <2>2, KeptByHost
<1>11. CASE Restart
  <2>1. /\ UNCHANGED <<used, barrels, store>> /\ graves' = <<>>
        /\ calls' = {} /\ answers' = {} /\ outbox' = <<Get(1)>>
    BY <1>11 DEF Restart, world
  <2> PICK g : g = graves'
    OBVIOUS
  <2>2. Honest(g)
    BY <2>1 DEF Honest
  <2>3. \A c \in Range(outbox') : c.type # "cas"
    <3>1. Range(<<Get(1)>>) = {Get(1)}
      BY CommandTypes, OneCommand
    <3> QED
      BY <2>1, <3>1 DEF Get
  <2> QED
    BY <2>1, <2>2, <2>3, KeptByLoss
<1>12. CASE UNCHANGED vars
  <2>1. UNCHANGED <<used, barrels, graves, store, calls, outbox, answers>>
    BY <1>12 DEF vars, plugin, storage, world
  <2>2. Tables' = Tables
    BY <2>1 DEF Tables, StorageCalls
  <2> QED
    BY <2>1, <2>2, KeptByHost
<1> QED
  BY <1>1, <1>2, <1>3, <1>4, <1>5, <1>6, <1>7, <1>8, <1>9, <1>10, <1>11, <1>12 DEF Next

(* "A restart neither resets nor shortens a grave's private window": while *)
(* each cell is used once, whatever is lost, refused, merged or reloaded.  *)
THEOREM DeadlineKeptAlways ==
  ASSUME ~ CellReuse
  PROVE  Spec => []DeadlineKept
<1>1. Init => Typed /\ Kept
  BY InitTyped, InitKept
<1>2. Typed /\ Kept /\ [Next]_vars => Typed' /\ Kept'
  BY NextTyped, NextKept
<1>3. Typed /\ Kept => DeadlineKept
  BY KeptOf DEF DeadlineKept, Honest
<1> QED
  BY <1>1, <1>2, <1>3, PTL DEF Spec

-----------------------------------------------------------------------------
(* Removals *)

(* The zones a step gives up. *)
GivenUp == {c \in Cells : Remove(c) \in Range(outbox') \ Range(outbox)}

(* The grave that makes room in a full table. *)
MakesRoom(c) ==
  /\ Cardinality(DOMAIN graves) >= MaxGraves
  /\ \A d \in DOMAIN graves : graves[d].public_at >= barrels[c].deadline

LEMMA GraveCreatedRemoves ==
  ASSUME Typed, Kept, ~ CellReuse, NEW cell \in Cells, NEW owner \in Players,
         GraveCreated(cell, owner), NEW c \in GivenUp, c \in DOMAIN barrels'
  PROVE  MakesRoom(c)
<1>1. /\ now + PublicAfter < MaxTick /\ cell \notin used
      /\ barrels' = Insert(barrels, cell, [owner |-> owner, deadline |-> now + PublicAfter])
  BY DEF GraveCreated
<1>2. DOMAIN barrels' = DOMAIN barrels \cup {cell}
  BY <1>1 DEF Insert
<1>3. Honest(graves)
  BY KeptOf
<1>4. cell \notin DOMAIN graves
  BY <1>1, <1>3 DEF Honest
<1>5. PICK evicted \in SUBSET DOMAIN graves :
         /\ Record(cell, owner, evicted)
         /\ evicted # {} => /\ Cardinality(DOMAIN graves) >= MaxGraves
                            /\ \A d \in evicted : d \in Oldest(graves)
  <2>1. \A oldest \in Oldest(graves) : {oldest} \in SUBSET DOMAIN graves
    BY DEF Oldest
  <2> QED
    BY <1>4, <2>1 DEF GraveCreated
<1>6. c \in evicted
  <2>1. PICK T \in SUBSET {ScheduleTimer} :
           Range(outbox') = Range(outbox)
                 \cup {Remove(d) : d \in {d \in evicted : graves[d].protected}}
                 \cup {Upsert(cell, owner)} \cup T \cup Writes(loaded /\ pending = {})
    <3>1. RecordCommands(cell, owner, evicted)
      BY <1>1, <1>5, RecordOf
    <3> QED
      BY <3>1 DEF RecordCommands
  <2>2. Remove(c) \notin Writes(loaded /\ pending = {})
    BY CommandsDiffer DEF Writes
  <2>3. Remove(c) \in {Remove(d) : d \in {d \in evicted : graves[d].protected}}
    BY <2>1, <2>2, CommandsDiffer DEF GivenUp
  <2> QED
    BY <2>3, CommandsDiffer
<1>7. c \in DOMAIN graves /\ c \in DOMAIN barrels
  BY <1>2, <1>4, <1>6
<1>8. graves[c].public_at = barrels[c].deadline
  BY <1>3, <1>7 DEF Honest
<1>9. graves \in Graveyards
  BY DEF Typed, TypeOK
<1>10. \A d \in DOMAIN graves : graves[d].public_at \in 0 .. MaxTick
  BY <1>9, GraveyardOf DEF Grave
<1>11. \A d \in DOMAIN graves : graves[c].public_at <= graves[d].public_at
  BY <1>5, <1>6 DEF Oldest
<1>12. \A d \in DOMAIN graves : graves[d].public_at >= barrels[c].deadline
  BY <1>7, <1>8, <1>10, <1>11, BoundsAssumption
<1> QED
  BY <1>5, <1>6, <1>12 DEF MakesRoom

LEMMA BrokenRemoves ==
  ASSUME Typed, NEW cell \in Cells, Broken(cell), NEW c \in GivenUp
  PROVE  c \notin DOMAIN barrels'
<1>1. cell \notin DOMAIN barrels'
  BY DEF Broken, Without
<1>2. CASE cell \notin DOMAIN graves
  <2>1. outbox' = outbox
    BY <1>2 DEF Broken
  <2> QED
    BY <2>1 DEF GivenUp
<1>3. CASE cell \in DOMAIN graves
  <2>1. /\ graves' = Without(graves, {cell})
        /\ UNCHANGED <<storage_version, loaded, sweep_armed>>
        /\ Save(pending, dirty, IF graves[cell].protected THEN <<Remove(cell)>> ELSE <<>>)
    BY <1>3 DEF Broken
  <2>2. \E R \in SUBSET {Remove(cell)} :
           Range(outbox') = Range(outbox) \cup R \cup Writes(loaded' /\ pending = {})
    BY <1>3, <2>1, BrokenOf
  <2>3. Remove(c) \notin Writes(loaded' /\ pending = {})
    BY CommandsDiffer DEF Writes
  <2>4. Remove(c) = Remove(cell)
    BY <2>2, <2>3 DEF GivenUp
  <2> QED
    BY <1>1, <2>4, CommandsDiffer
<1> QED
  BY <1>2, <1>3

LEMMA SweepRemoves ==
  ASSUME Typed, NEW table \in Graveyards, Honest(table), NEW waiting, NEW due,
         SweepResult(table, waiting, due), NEW c \in GivenUp
  PROVE  c \in used /\ (c \in DOMAIN barrels => barrels[c].deadline <= now)
<1>1. due \subseteq Due(table)
  BY DEF SweepResult
<1>2. PICK T \in SUBSET {ScheduleTimer} :
         Range(outbox') = Range(outbox) \cup {Remove(d) : d \in due} \cup T
           \cup Writes((dirty \/ due # {}) /\ loaded' /\ waiting = {})
  BY DEF SweepResult
<1>3. Remove(c) \notin Writes((dirty \/ due # {}) /\ loaded' /\ waiting = {})
  BY CommandsDiffer DEF Writes
<1>4. Remove(c) \in {Remove(d) : d \in due}
  BY <1>2, <1>3, CommandsDiffer DEF GivenUp
<1>5. c \in due
  BY <1>4, CommandsDiffer
<1> QED
  BY <1>1, <1>5 DEF Due, Honest

LEMMA DeliverRemoves ==
  ASSUME Typed, Kept, Deliver, NEW c \in GivenUp
  PROVE  c \in used /\ (c \in DOMAIN barrels => barrels[c].deadline <= now)
<1>1. PICK answer \in answers :
         TableRead(answer) \/ Unreadable(answer) \/ Saved(answer) \/ Ignored(answer)
  BY DEF Deliver
<1>2. Honest(graves) /\ graves \in Graveyards
  BY KeptOf DEF Typed, TypeOK
<1>3. CASE TableRead(answer)
  <2>1. PICK m \in Graveyards : Honest(m) /\ \E due : SweepResult(m, {}, due)
    BY <1>3, LoadIsHonest
  <2>2. PICK due : SweepResult(m, {}, due)
    BY <2>1
  <2> QED
    BY <2>1, <2>2, SweepRemoves
<1>4. CASE outbox' = outbox
  BY <1>4 DEF GivenUp
<1>5. CASE Saved(answer)
  <2>1. CASE answer.outcome = "committed" /\ dirty
    <3>1. /\ storage_version' = answer.version /\ loaded' = loaded
          /\ graves' = graves /\ Save({}, FALSE, <<>>)
      BY <1>5, <2>1 DEF Saved
    <3>2. storage_version' \in Nat /\ graves' \in Graveyards
      BY <1>2, <3>1, AnswerOf
    <3>3. Range(outbox') = Range(outbox) \cup {} \cup Writes(loaded' /\ {} = {})
      BY <3>1, <3>2, NoCommand, SaveOf
    <3>4. Remove(c) \notin Writes(loaded' /\ {} = {})
      BY CommandsDiffer DEF Writes
    <3> QED
      BY <3>3, <3>4 DEF GivenUp
  <2>2. CASE answer.outcome # "committed"
    <3>1. Range(outbox') = Range(outbox) \cup {Get(NewRequest)}
      BY <1>5, <2>2, ReloadOf DEF Saved
    <3> QED
      BY <3>1, CommandsDiffer DEF GivenUp
  <2> QED
    BY <1>4, <1>5, <2>1, <2>2 DEF Saved
<1> QED
  BY <1>1, <1>3, <1>4, <1>5 DEF Unreadable, Ignored

LEMMA TimerFiredRemoves ==
  ASSUME Typed, Kept, TimerFired, NEW c \in GivenUp
  PROVE  c \in used /\ (c \in DOMAIN barrels => barrels[c].deadline <= now)
<1>1. PICK t, w : t = graves /\ t \in Graveyards /\ \E due : SweepResult(t, w, due)
  BY TimerSweeps
<1>2. PICK due : SweepResult(t, w, due)
  BY <1>1
<1>3. Honest(t)
  BY <1>1, KeptOf
<1> QED
  BY <1>1, <1>2, <1>3, SweepRemoves

LEMMA NextRemoves ==
  ASSUME Typed, Kept, ~ CellReuse, [Next]_vars,
         NEW c \in GivenUp, c \in DOMAIN barrels', now < barrels[c].deadline
  PROVE  MakesRoom(c)
<1>1. now \in Int /\ \A d \in DOMAIN barrels : barrels[d].deadline \in Int
  BY BoundsAssumption DEF Typed, TypeOK
<1>2. ASSUME c \in DOMAIN barrels PROVE ~ (barrels[c].deadline <= now)
  BY <1>1, <1>2
<1>3. ASSUME NEW cell \in Cells, NEW owner \in Players, GraveCreated(cell, owner)
      PROVE  MakesRoom(c)
  BY <1>3, GraveCreatedRemoves
<1>4. ASSUME NEW cell \in Cells, Broken(cell) PROVE FALSE
  BY <1>4, BrokenRemoves
<1>5. CASE TimerFired
  <2>1. barrels' = barrels
    BY <1>5 DEF TimerFired, world
  <2> QED
    BY <1>2, <1>5, <2>1, TimerFiredRemoves
<1>6. CASE Deliver
  <2>1. barrels' = barrels
    BY <1>6 DEF Deliver, world
  <2>2. barrels[c].deadline <= now
    BY <1>6, <2>1, DeliverRemoves
  <2> QED
    BY <1>2, <2>1, <2>2
<1>7. CASE outbox' = outbox
  BY <1>7 DEF GivenUp
<1>8. CASE outbox' = <<>>
  BY <1>8, NoCommand DEF GivenUp
<1>9. CASE Restart
  <2>1. Range(<<Get(1)>>) = {Get(1)} /\ outbox' = <<Get(1)>>
    BY <1>9, CommandTypes, OneCommand DEF Restart
  <2> QED
    BY <2>1, CommandsDiffer DEF GivenUp
<1> QED
  BY <1>3, <1>4, <1>5, <1>6, <1>7, <1>8, <1>9
     DEF Next, vars, Tick, ZoneAnswered, AcceptBatch, RejectBatch, Execute, ExecuteZone

(* While each cell is used once, a zone is only given up for a grave that  *)
(* was broken, whose window is over, or that is the oldest of a full table.*)
THEOREM RemovalIsDueAlways ==
  ASSUME ~ CellReuse
  PROVE  Spec => RemovalIsDue
<1>1. Init => Typed /\ Kept
  BY InitTyped, InitKept
<1>2. Typed /\ Kept /\ [Next]_vars => Typed' /\ Kept'
  BY NextTyped, NextKept
<1>3. Typed /\ Kept /\ [Next]_vars =>
        [\A c \in Cells :
           /\ Remove(c) \in Range(outbox') \ Range(outbox)
           /\ c \in DOMAIN barrels'
           /\ now < barrels[c].deadline
           => /\ Cardinality(DOMAIN graves) >= MaxGraves
              /\ \A d \in DOMAIN graves : graves[d].public_at >= barrels[c].deadline
        ]_vars
  BY NextRemoves DEF GivenUp, MakesRoom
<1> QED
  BY <1>1, <1>2, <1>3, PTL DEF Spec, RemovalIsDue
-----------------------------------------------------------------------------
(* Saving *)

Batched == {c \in Range(outbox) : c.type \in {"get", "cas"}}

(* At most one storage request is under way: returned, accepted or         *)
(* answered.                                                               *)
Quiet == Batched = {} /\ calls = {} /\ answers = {}

UnderWay(c) ==
  /\ answers = {}
  /\ \/ Batched = {c} /\ calls = {}
     \/ Batched = {} /\ calls = {c}

Answered(a) == Batched = {} /\ calls = {} /\ answers = {a}

(* Nothing is written before the table is loaded: what was recorded till   *)
(* then is unsaved.                                                        *)
Loading ==
  /\ ~ loaded /\ pending = {} /\ (~ dirty => DOMAIN graves = {})
  /\ \/ Quiet
     \/ \E c \in StorageCalls : UnderWay(c) /\ c.type = "get"
     \/ \E a \in answers : /\ Answered(a) /\ a.type = "get"
                           /\ a.version = store.version /\ a.value = store.value

Settled ==
  /\ loaded /\ pending = {} /\ ~ dirty /\ Quiet
  /\ storage_version = store.version /\ SameGraves(store.value, graves)

(* A write under way expects the version there is, so that it commits, and *)
(* what it writes is what memory has unless that has changed since.        *)
Saving ==
  /\ loaded
  /\ \/ \E c \in StorageCalls :
           /\ UnderWay(c) /\ c.type = "cas" /\ pending = {c.request}
           /\ c.expected = storage_version /\ storage_version = store.version
           /\ ~ dirty => SameGraves(c.value, graves)
     \/ \E a \in answers :
           /\ Answered(a) /\ a.type = "cas" /\ pending = {a.request}
           /\ a.outcome = "committed" /\ a.version = store.version
           /\ ~ dirty => SameGraves(store.value, graves)

(* CleanIsSaved is about the moments at rest: it needs to be known what is *)
(* true of the load before them and of the write between them.             *)
Synced == Loading \/ Settled \/ Saving

LEMMA BatchedOf ==
  ASSUME NEW Z, \A z \in Z : z.type \notin {"get", "cas"}, NEW sent,
         Range(outbox') = Range(outbox) \cup Z \cup Writes(sent)
  PROVE  Batched' = Batched \cup Writes(sent)
<1>1. \A w \in Writes(sent) : w.type = "cas"
  BY WritesOf
<1>2. Batched' = {c \in Range(outbox') : c.type \in {"get", "cas"}}
  BY DEF Batched
<1> QED
  BY <1>1, <1>2 DEF Batched

LEMMA SameGravesReflexive ==
  ASSUME NEW t
  PROVE  SameGraves(t, t)
BY DEF SameGraves

(* A write of the table in memory is under way. *)
LEMMA WriteSynced ==
  ASSUME loaded', answers' = {}, calls' = {}, Batched' = Writes(TRUE),
         pending' = {NewRequest}, store' = store, storage_version' = store.version
  PROVE  Synced'
<1> PICK w : w = Cas(NewRequest, storage_version', graves')
  OBVIOUS
<1>1. Batched' = {w}
  BY DEF Writes
<1>2. /\ w.type = "cas" /\ w.request = NewRequest
      /\ w.expected = storage_version' /\ w.value = graves'
  BY CasFields
<1>3. w \in StorageCalls'
  <2>1. StorageCalls' = Batched' \cup calls'
    BY DEF StorageCalls, Batched
  <2> QED
    BY <1>1, <2>1
<1>4. SameGraves(w.value, graves)'
  <2> PICK g : g = graves'
    OBVIOUS
  <2>1. SameGraves(g, g)
    BY SameGravesReflexive
  <2> QED
    BY <1>2, <2>1 DEF SameGraves
<1>5. UnderWay(w)'
  BY <1>1 DEF UnderWay
<1>6. Saving'
  BY <1>2, <1>3, <1>4, <1>5 DEF Saving
<1> QED
  BY <1>6 DEF Synced

(* A change that is written at once, or remembered as unsaved. *)
LEMMA ChangeSynced ==
  ASSUME Synced, UNCHANGED <<calls, answers, store, storage_version, loaded>>,
         NEW unsaved, Sent(loaded /\ pending = {}, pending, unsaved),
         Batched' = Batched \cup Writes(loaded /\ pending = {})
  PROVE  Synced'
<1>1. CASE Settled
  <2>1. Batched' = Writes(TRUE)
    BY <1>1 DEF Settled, Quiet, Writes
  <2>2. /\ pending' = {NewRequest} /\ loaded' /\ answers' = {} /\ calls' = {}
        /\ storage_version' = store.version
    BY <1>1 DEF Settled, Quiet, Sent
  <2> QED
    BY <2>1, <2>2, WriteSynced
<1>2. CASE Loading \/ Saving
  <2>1. ~ (loaded /\ pending = {})
    BY <1>2 DEF Loading, Saving
  <2>2. Batched' = Batched /\ pending' = pending /\ dirty' = TRUE
    BY <2>1 DEF Writes, Sent
  <2>3. StorageCalls' = StorageCalls
    BY <2>2 DEF StorageCalls, Batched
  <2>4. CASE Loading
    BY <2>2, <2>3, <2>4 DEF Loading, Synced, Quiet, UnderWay, Answered
  <2>5. CASE Saving
    BY <2>2, <2>3, <2>5 DEF Saving, Synced, UnderWay, Answered
  <2> QED
    BY <1>2, <2>4, <2>5
<1> QED
  BY <1>1, <1>2 DEF Synced

(* A step that changes no more than who is protected. *)
LEMMA SameSynced ==
  ASSUME Synced, UNCHANGED <<calls, answers, store, storage_version, loaded, pending, dirty>>,
         Batched' = Batched, NEW g, g = graves', SameGraves(g, graves)
  PROVE  Synced'
<1>1. StorageCalls' = StorageCalls
  BY DEF StorageCalls, Batched
<1>2. DOMAIN g = DOMAIN graves /\ \A t : SameGraves(t, graves) => SameGraves(t, g)
  BY DEF SameGraves
<1>4. CASE Loading
  BY <1>1, <1>2, <1>4 DEF Loading, Synced, Quiet, UnderWay, Answered
<1>5. CASE Settled
  <2>1. SameGraves(store.value, graves)'
    BY <1>2, <1>5 DEF Settled, SameGraves
  <2> QED
    BY <1>5, <2>1 DEF Settled, Synced, Quiet
<1>6. CASE Saving
  <2>1. ASSUME NEW c \in StorageCalls,
               UnderWay(c) /\ c.type = "cas" /\ pending = {c.request},
               c.expected = storage_version /\ storage_version = store.version,
               ~ dirty => SameGraves(c.value, graves)
        PROVE  Saving'
    <3>1. ~ dirty' => SameGraves(c.value, graves)'
      BY <1>2, <2>1 DEF SameGraves
    <3> QED
      BY <1>1, <1>6, <2>1, <3>1 DEF Saving, UnderWay
  <2>2. ASSUME NEW a \in answers,
               Answered(a) /\ a.type = "cas" /\ pending = {a.request},
               a.outcome = "committed" /\ a.version = store.version,
               ~ dirty => SameGraves(store.value, graves)
        PROVE  Saving'
    <3>1. ~ dirty' => SameGraves(store.value, graves)'
      BY <1>2, <2>2 DEF SameGraves
    <3> QED
      BY <1>6, <2>2, <3>1 DEF Saving, Answered
  <2> QED
    BY <1>6, <2>1, <2>2 DEF Saving, Synced
<1> QED
  BY <1>4, <1>5, <1>6 DEF Synced

LEMMA InitSynced == Init => Synced
<1> SUFFICES ASSUME Init PROVE Synced
  OBVIOUS
<1>1. Batched = {Get(1)} /\ calls = {} /\ answers = {} /\ Get(1).type = "get"
  BY DEF Init, Batched, Range, Get
<1>2. Get(1) \in StorageCalls
  BY <1>1 DEF StorageCalls, Batched
<1>3. ~ loaded /\ pending = {} /\ DOMAIN graves = {}
  BY DEF Init
<1> QED
  BY <1>1, <1>2, <1>3 DEF Synced, Loading, UnderWay

(* Commands that are not for the storage. *)
LEMMA ZoneAndTimerTypes ==
  /\ \A c : Remove(c).type \notin {"get", "cas"}
  /\ \A c, p : Upsert(c, p).type \notin {"get", "cas"}
  /\ ScheduleTimer.type \notin {"get", "cas"}
BY DEF Remove, Upsert, ScheduleTimer

LEMMA GraveCreatedSynced ==
  ASSUME Typed, Synced, NEW cell \in Cells, NEW owner \in Players,
         GraveCreated(cell, owner)
  PROVE  Synced'
<1>1. UNCHANGED <<calls, answers, store>> /\ now + PublicAfter < MaxTick
  BY DEF GraveCreated, storage
<1>2. CASE UNCHANGED <<plugin, outbox>>
  <2> PICK g : g = graves'
    OBVIOUS
  <2>1. SameGraves(g, graves) /\ Batched' = Batched
    BY <1>2, SameGravesReflexive DEF plugin, Batched
  <2> QED
    BY <1>1, <1>2, <2>1, SameSynced DEF plugin
<1>3. ASSUME NEW evicted \in SUBSET DOMAIN graves, Record(cell, owner, evicted)
      PROVE  Synced'
  <2>1. /\ RecordCommands(cell, owner, evicted)
        /\ Sent(loaded /\ pending = {}, pending, dirty)
    BY <1>1, <1>3, RecordOf
  <2>2. UNCHANGED <<storage_version, loaded>>
    BY <1>3 DEF Record
  <2>3. PICK T \in SUBSET {ScheduleTimer} :
           Range(outbox') = Range(outbox)
                 \cup {Remove(d) : d \in {d \in evicted : graves[d].protected}}
                 \cup {Upsert(cell, owner)} \cup T \cup Writes(loaded /\ pending = {})
    BY <2>1 DEF RecordCommands
  <2> PICK Z : Z = {Remove(d) : d \in {d \in evicted : graves[d].protected}}
                     \cup {Upsert(cell, owner)} \cup T
    OBVIOUS
  <2>4. \A z \in Z : z.type \notin {"get", "cas"}
    BY ZoneAndTimerTypes
  <2>5. Range(outbox') = Range(outbox) \cup Z \cup Writes(loaded /\ pending = {})
    BY <2>3
  <2>6. Batched' = Batched \cup Writes(loaded /\ pending = {})
    BY <2>4, <2>5, BatchedOf
  <2> QED
    BY <1>1, <2>1, <2>2, <2>6, ChangeSynced
<1>4. \A oldest \in Oldest(graves) : {oldest} \in SUBSET DOMAIN graves
  BY DEF Oldest
<1> QED
  BY <1>2, <1>3, <1>4 DEF GraveCreated

LEMMA BrokenSynced ==
  ASSUME Typed, Synced, NEW cell \in Cells, Broken(cell)
  PROVE  Synced'
<1>1. UNCHANGED <<calls, answers, store>>
  BY DEF Broken, storage
<1>2. CASE cell \notin DOMAIN graves
  <2> PICK g : g = graves'
    OBVIOUS
  <2>1. UNCHANGED <<plugin, outbox>>
    BY <1>2 DEF Broken
  <2>2. SameGraves(g, graves) /\ Batched' = Batched
    BY <2>1, SameGravesReflexive DEF plugin, Batched
  <2> QED
    BY <1>1, <2>1, <2>2, SameSynced DEF plugin
<1>3. CASE cell \in DOMAIN graves
  <2>1. /\ graves' = Without(graves, {cell})
        /\ UNCHANGED <<storage_version, loaded, sweep_armed>>
        /\ Save(pending, dirty, IF graves[cell].protected THEN <<Remove(cell)>> ELSE <<>>)
    BY <1>3 DEF Broken
  <2>2. /\ \E R \in SUBSET {Remove(cell)} :
              Range(outbox') = Range(outbox) \cup R \cup Writes(loaded' /\ pending = {})
        /\ Sent(loaded' /\ pending = {}, pending, dirty)
    BY <1>3, <2>1, BrokenOf
  <2>3. PICK R \in SUBSET {Remove(cell)} :
           Range(outbox') = Range(outbox) \cup R \cup Writes(loaded /\ pending = {})
    BY <2>1, <2>2
  <2>4. Sent(loaded /\ pending = {}, pending, dirty)
    BY <2>1, <2>2
  <2>5. Batched' = Batched \cup Writes(loaded /\ pending = {})
    BY <2>3, ZoneAndTimerTypes, BatchedOf
  <2> QED
    BY <1>1, <2>1, <2>4, <2>5, ChangeSynced
<1> QED
  BY <1>2, <1>3

(* What a sweep batches. *)
LEMMA SweepBatched ==
  ASSUME NEW table, NEW waiting, NEW due, SweepResult(table, waiting, due)
  PROVE  Batched' = Batched \cup Writes((dirty \/ due # {}) /\ loaded' /\ waiting = {})
<1>1. PICK T \in SUBSET {ScheduleTimer} :
         Range(outbox') = Range(outbox) \cup {Remove(c) : c \in due} \cup T
           \cup Writes((dirty \/ due # {}) /\ loaded' /\ waiting = {})
  BY DEF SweepResult
<1> PICK Z : Z = {Remove(c) : c \in due} \cup T
  OBVIOUS
<1> PICK sent : sent = ((dirty \/ due # {}) /\ loaded' /\ waiting = {})
  OBVIOUS
<1>2. \A z \in Z : z.type \notin {"get", "cas"}
  BY ZoneAndTimerTypes
<1>3. Range(outbox') = Range(outbox) \cup Z \cup Writes(sent)
  BY <1>1
<1> QED
  BY <1>2, <1>3, BatchedOf

LEMMA TimerFiredSynced ==
  ASSUME Typed, Synced, TimerFired
  PROVE  Synced'
<1>1. UNCHANGED <<calls, answers, store, loaded, storage_version>>
  BY DEF TimerFired, storage
<1>2. PICK t, w : /\ t = graves /\ t \in Graveyards /\ w = pending
                  /\ \E due : SweepResult(t, w, due)
  BY TimerSweeps
<1>5. PICK due : SweepResult(t, w, due)
  BY <1>2
<1>6. Batched' = Batched \cup Writes((dirty \/ due # {}) /\ loaded' /\ w = {})
  BY <1>5, SweepBatched
<1>7. CASE dirty \/ due # {}
  <2>1. Sent(loaded /\ pending = {}, pending, FALSE)
    <3>1. Sent(loaded' /\ w = {}, w, FALSE)
      BY <1>5, <1>7 DEF SweepResult
    <3> QED
      BY <1>1, <1>2, <3>1
  <2>2. Batched' = Batched \cup Writes(loaded /\ pending = {})
    BY <1>1, <1>2, <1>6, <1>7 DEF Writes
  <2> QED
    BY <1>1, <2>1, <2>2, ChangeSynced
<1>8. CASE ~ (dirty \/ due # {})
  <2>1. pending' = pending /\ dirty' = dirty
    BY <1>2, <1>5, <1>8 DEF SweepResult
  <2>2. Batched' = Batched
    BY <1>6, <1>8 DEF Writes
  <2> PICK g : g = graves'
    OBVIOUS
  <2>3. SameGraves(g, graves)
    <3>1. SameGraves(Swept(t, due), t)
      BY <1>2, SweptOf
    <3>2. g = Swept(t, due)
      BY <1>5 DEF SweepResult
    <3> QED
      BY <1>2, <3>1, <3>2
  <2> QED
    BY <1>1, <2>1, <2>2, <2>3, SameSynced
<1> QED
  BY <1>7, <1>8

(* A table that was read makes memory what is stored, unless something was *)
(* recorded before, which is written now.                                  *)
LEMMA TableReadSynced ==
  ASSUME Typed, Synced, NEW answer \in answers, TableRead(answer),
         answers' = answers \ {answer}, calls' = calls, store' = store
  PROVE  Synced'
<1>1. /\ answer.type = "get" /\ loaded' = TRUE /\ storage_version' = answer.version
      /\ \E m \in Graveyards : /\ Merges(m, answer.value, graves)
                               /\ \E due : SweepResult(m, {}, due)
  BY TableReadOf
<1>2. Loading /\ Answered(answer) /\ answer.version = store.version /\ answer.value = store.value
  BY <1>1 DEF Synced, Loading, Settled, Saving, Quiet, UnderWay, Answered
<1>3. PICK m \in Graveyards : /\ Merges(m, answer.value, graves)
                              /\ \E due : SweepResult(m, {}, due)
  BY <1>1
<1>4. PICK due : SweepResult(m, {}, due)
  BY <1>3
<1>5. Batched' = Writes(dirty \/ due # {})
  <2>1. Batched' = Batched \cup Writes((dirty \/ due # {}) /\ loaded' /\ {} = {})
    BY <1>4, SweepBatched
  <2> QED
    BY <1>1, <1>2, <2>1 DEF Answered, Writes
<1>6. answers' = {} /\ calls' = {} /\ storage_version' = store.version /\ loaded'
  BY <1>1, <1>2 DEF Answered
<1>7. CASE dirty \/ due # {}
  <2>1. pending' = {NewRequest}
    BY <1>1, <1>4, <1>7 DEF SweepResult, Sent
  <2>2. Batched' = Writes(TRUE)
    BY <1>5, <1>7 DEF Writes
  <2> QED
    BY <1>6, <2>1, <2>2, WriteSynced
<1>8. CASE ~ (dirty \/ due # {})
  <2>1. pending' = {} /\ dirty' = dirty
    BY <1>4, <1>8 DEF SweepResult
  <2>2. Batched' = {}
    BY <1>5, <1>8 DEF Writes
  <2> PICK g : g = graves'
    OBVIOUS
  <2>3. SameGraves(g, m)
    BY <1>4, SweptOf DEF SweepResult
  <2>4. SameGraves(store.value, m)
    BY <1>2, <1>3, <1>8 DEF Loading, Merges, SameGraves
  <2>5. SameGraves(store.value, graves)'
    BY <2>3, <2>4 DEF SameGraves
  <2> QED
    BY <1>6, <1>8, <2>1, <2>2, <2>5 DEF Synced, Settled, Quiet
<1> QED
  BY <1>7, <1>8

LEMMA SavedSynced ==
  ASSUME Typed, Synced, NEW answer \in answers, Saved(answer),
         answers' = answers \ {answer}, calls' = calls, store' = store
  PROVE  Synced'
<1>1. answer.type = "cas" /\ graves' = graves
  BY DEF Saved
<1>2. /\ loaded /\ Answered(answer) /\ answer.outcome = "committed"
      /\ answer.version = store.version /\ (~ dirty => SameGraves(store.value, graves))
  BY <1>1 DEF Synced, Loading, Settled, Saving, Quiet, UnderWay, Answered
<1>3. /\ answers' = {} /\ calls' = {} /\ Batched = {}
      /\ storage_version' = store.version /\ loaded'
  BY <1>2 DEF Saved, Answered
<1>4. CASE dirty
  <2>1. Save({}, FALSE, <<>>)
    BY <1>2, <1>4 DEF Saved
  <2>2. storage_version' \in Nat /\ graves' \in Graveyards
    BY <1>1, <1>3 DEF Typed, TypeOK
  <2>3. /\ Range(outbox') = Range(outbox) \cup {} \cup Writes(loaded' /\ {} = {})
        /\ Sent(loaded' /\ {} = {}, {}, FALSE)
    BY <2>1, <2>2, NoCommand, SaveOf
  <2>4. Range(outbox') = Range(outbox) \cup {} \cup Writes(TRUE)
    BY <1>3, <2>3 DEF Writes
  <2>5. Batched' = Batched \cup Writes(TRUE)
    BY <2>4, BatchedOf
  <2>6. pending' = {NewRequest}
    BY <1>3, <2>3 DEF Sent
  <2> QED
    BY <1>3, <2>5, <2>6, WriteSynced
<1>5. CASE ~ dirty
  <2>1. pending' = {} /\ dirty' = dirty /\ outbox' = outbox
    BY <1>2, <1>5 DEF Saved
  <2>2. Batched' = {}
    BY <1>3, <2>1 DEF Batched
  <2>3. SameGraves(store.value, graves)'
    BY <1>1, <1>2, <1>5 DEF SameGraves
  <2> QED
    BY <1>3, <1>5, <2>1, <2>2, <2>3 DEF Synced, Settled, Quiet
<1> QED
  BY <1>4, <1>5

LEMMA DeliverSynced ==
  ASSUME Typed, Synced, Deliver
  PROVE  Synced'
<1>1. PICK answer \in answers :
         /\ answers' = answers \ {answer}
         /\ TableRead(answer) \/ Unreadable(answer) \/ Saved(answer) \/ Ignored(answer)
         /\ UNCHANGED <<calls, store>>
  BY DEF Deliver
<1>2. CASE TableRead(answer)
  BY <1>1, <1>2, TableReadSynced
<1>3. CASE Saved(answer)
  BY <1>1, <1>3, SavedSynced
<1>4. CASE Unreadable(answer)
  <2>1. answer.type = "get" /\ ~ loaded' /\ UNCHANGED <<graves, dirty, pending, outbox>>
    BY <1>4 DEF Unreadable
  <2>2. Loading /\ Answered(answer)
    BY <2>1 DEF Synced, Loading, Settled, Saving, Quiet, UnderWay, Answered
  <2>3. Quiet'
    BY <1>1, <2>1, <2>2 DEF Quiet, Answered, Batched
  <2> QED
    BY <2>1, <2>2, <2>3 DEF Synced, Loading
<1>5. CASE Ignored(answer)
  <2>1. answer.type = "cas" /\ answer.request \notin pending
    BY <1>5 DEF Ignored
  <2> QED
    BY <2>1 DEF Synced, Loading, Settled, Saving, Quiet, UnderWay, Answered
<1> QED
  BY <1>1, <1>2, <1>3, <1>4, <1>5

LEMMA ZoneAnsweredSynced ==
  ASSUME Typed, Synced, ZoneAnswered
  PROVE  Synced'
<1> PICK g : g = graves'
  OBVIOUS
<1>1. SameGraves(g, graves)
  BY ZoneAnsweredOf
<1>2. /\ UNCHANGED <<calls, answers, store, storage_version, loaded, pending, dirty>>
      /\ outbox' = outbox
  BY DEF ZoneAnswered, storage
<1>3. Batched' = Batched
  BY <1>2 DEF Batched
<1> QED
  BY <1>1, <1>2, <1>3, SameSynced

(* Accepting a batch only moves its request on. *)
LEMMA AcceptSynced ==
  ASSUME Synced, AcceptBatch
  PROVE  Synced'
<1>1. /\ UNCHANGED <<graves, storage_version, loaded, dirty, pending, store, answers>>
      /\ calls' = StorageCalls /\ outbox' = <<>>
  BY DEF AcceptBatch, plugin
<1>2. Batched' = {} /\ calls' = Batched \cup calls
  <2>1. Batched' = {c \in Range(outbox') : c.type \in {"get", "cas"}}
    BY DEF Batched
  <2> QED
    BY <1>1, <2>1, NoCommand DEF StorageCalls, Batched
<1>3. StorageCalls' = StorageCalls
  <2>1. StorageCalls' = Batched' \cup calls'
    BY DEF StorageCalls, Batched
  <2> QED
    BY <1>1, <1>2, <2>1
<1>4. /\ Quiet => Quiet'
      /\ \A c : UnderWay(c) => UnderWay(c)'
      /\ \A a : Answered(a) => Answered(a)'
  BY <1>1, <1>2 DEF Quiet, UnderWay, Answered
<1>5. CASE Loading
  BY <1>1, <1>3, <1>4, <1>5 DEF Loading, Synced
<1>6. CASE Settled
  BY <1>1, <1>4, <1>6 DEF Settled, Synced, SameGraves
<1>7. CASE Saving
  BY <1>1, <1>3, <1>4, <1>7 DEF Saving, Synced, SameGraves
<1> QED
  BY <1>5, <1>6, <1>7 DEF Synced

LEMMA ExecuteSynced ==
  ASSUME Typed, Synced, "uncertain_write" \notin Faults, Execute
  PROVE  Synced'
<1>1. PICK call \in calls : /\ calls' = calls \ {call}
                            /\ ExecuteGet(call) \/ ExecuteCas(call)
                            /\ UNCHANGED <<graves, storage_version, loaded, dirty, pending>>
                            /\ outbox' = outbox
  BY DEF Execute, plugin
<1>2. Batched' = {} /\ calls' = {} /\ answers = {} /\ UnderWay(call)
  BY <1>1 DEF Synced, Loading, Settled, Saving, Quiet, UnderWay, Answered, Batched
<1>3. CASE ExecuteGet(call)
  <2>1. PICK outcome \in ReadOutcomes :
           answers' = answers \cup {[type |-> "get", request |-> call.request,
                                     outcome |-> outcome, version |-> store.version,
                                     value |-> store.value]}
    BY <1>3 DEF ExecuteGet
  <2>2. PICK a : a = [type |-> "get", request |-> call.request,
                      outcome |-> outcome, version |-> store.version,
                      value |-> store.value]
    OBVIOUS
  <2>3. /\ a.type = "get" /\ a.version = store.version /\ a.value = store.value
        /\ answers' = {a}
    BY <1>2, <2>1, <2>2
  <2>4. call.type = "get" /\ store' = store
    BY <1>3 DEF ExecuteGet
  <2>5. Loading
    BY <1>1, <1>2, <2>4 DEF Synced, Loading, Settled, Saving, Quiet, UnderWay, Answered
  <2>6. Answered(a)' /\ a \in answers'
    BY <1>2, <2>3 DEF Answered
  <2> QED
    BY <1>1, <2>3, <2>4, <2>5, <2>6 DEF Loading, Synced
<1>4. CASE ExecuteCas(call)
  <2>0. PICK n : n = [version |-> NewVersion, value |-> call.value]
    OBVIOUS
  <2>1. PICK x \in CasOutcomes(store, call.expected, n) :
           /\ store' = x.record
           /\ answers' = answers \cup {[type |-> "cas", request |-> call.request,
                                        outcome |-> x.outcome, version |-> x.record.version]}
    BY <1>4, <2>0 DEF ExecuteCas
  <2>2. call.type = "cas"
    BY <1>4 DEF ExecuteCas
  <2>3. /\ loaded /\ pending = {call.request} /\ call.expected = store.version
        /\ ~ dirty => SameGraves(call.value, graves)
    BY <1>1, <1>2, <2>2 DEF Synced, Loading, Settled, Saving, Quiet, UnderWay, Answered
  <2>4. x = [record |-> n, outcome |-> "committed"]
    BY <2>1, <2>3 DEF CasOutcomes
  <2>5. x.record = n /\ x.outcome = "committed"
    BY <2>4
  <2>6. PICK a : /\ a.type = "cas" /\ a.request = call.request /\ a.outcome = "committed"
                 /\ a.version = n.version /\ answers' = {a}
    <3>1. PICK a : a = [type |-> "cas", request |-> call.request,
                        outcome |-> x.outcome, version |-> x.record.version]
      OBVIOUS
    <3>2. a.type = "cas" /\ a.request = call.request /\ a.outcome = x.outcome
          /\ a.version = x.record.version
      BY <3>1
    <3>3. answers' = {a}
      BY <1>2, <2>1, <3>1
    <3> QED
      BY <2>5, <3>2, <3>3
  <2>7. store'.version = n.version /\ store'.value = call.value
    BY <2>0, <2>1, <2>5
  <2>8. Answered(a)' /\ a \in answers'
    BY <1>2, <2>6 DEF Answered
  <2>9. ~ dirty' => SameGraves(store.value, graves)'
    BY <1>1, <2>3, <2>7 DEF SameGraves
  <2>10. Saving'
    BY <1>1, <2>3, <2>6, <2>7, <2>8, <2>9 DEF Saving
  <2> QED
    BY <2>10 DEF Synced
<1> QED
  BY <1>1, <1>3, <1>4

LEMMA NextSynced ==
  ASSUME Typed, Synced, [Next]_vars,
         "batch_rejection" \notin Faults, "uncertain_write" \notin Faults
  PROVE  Synced'
<1>1. ASSUME NEW cell \in Cells, NEW owner \in Players, GraveCreated(cell, owner)
      PROVE  Synced'
  BY <1>1, GraveCreatedSynced
<1>2. ASSUME NEW cell \in Cells, Broken(cell) PROVE Synced'
  BY <1>2, BrokenSynced
<1>3. CASE TimerFired
  BY <1>3, TimerFiredSynced
<1>4. CASE Deliver
  BY <1>4, DeliverSynced
<1>5. CASE ZoneAnswered
  BY <1>5, ZoneAnsweredSynced
<1>6. CASE AcceptBatch
  BY <1>6, AcceptSynced
<1>7. CASE Execute
  BY <1>7, ExecuteSynced
<1>8. CASE UNCHANGED <<plugin, storage, outbox>>
  <2> PICK g : g = graves'
    OBVIOUS
  <2>1. SameGraves(g, graves) /\ Batched' = Batched
    BY <1>8, SameGravesReflexive DEF plugin, Batched
  <2> QED
    BY <1>8, <2>1, SameSynced DEF plugin, storage
<1>9. CASE Restart
  <2>1. /\ calls' = {} /\ answers' = {} /\ outbox' = <<Get(1)>>
        /\ ~ loaded' /\ pending' = {} /\ DOMAIN graves' = {}
    BY <1>9 DEF Restart
  <2>2. Batched' = {Get(1)} /\ Get(1).type = "get"
    <3>1. Range(<<Get(1)>>) = {Get(1)} /\ Get(1).type = "get"
      BY CommandTypes, OneCommand DEF Get
    <3>2. Batched' = {c \in Range(outbox') : c.type \in {"get", "cas"}}
      BY DEF Batched
    <3> QED
      BY <2>1, <3>1, <3>2
  <2>3. Get(1) \in StorageCalls'
    <3>1. StorageCalls' = Batched' \cup calls'
      BY DEF StorageCalls, Batched
    <3> QED
      BY <2>2, <3>1
  <2>4. UnderWay(Get(1))'
    BY <2>1, <2>2 DEF UnderWay
  <2> QED
    BY <2>1, <2>2, <2>3, <2>4 DEF Synced, Loading
<1> QED
  BY <1>1, <1>2, <1>3, <1>4, <1>5, <1>6, <1>7, <1>8, <1>9
     DEF Next, vars, Tick, ExecuteZone, RejectBatch

(* "Reload and re-apply this table": with batches accepted and writes      *)
(* certain, whatever reads fail, whenever the plugin restarts and however  *)
(* cells are reused, a table with nothing to save is the stored one.       *)
THEOREM CleanIsSavedAlways ==
  ASSUME "batch_rejection" \notin Faults, "uncertain_write" \notin Faults
  PROVE  Spec => []CleanIsSaved
<1>1. Init => Typed /\ Synced
  BY InitTyped, InitSynced
<1>2. Typed /\ Synced /\ [Next]_vars => Typed' /\ Synced'
  BY NextTyped, NextSynced
<1>3. Synced => CleanIsSaved
  <2> SUFFICES ASSUME Synced, loaded, pending = {}, ~ dirty
               PROVE  Deadlines(store.value) = Deadlines(graves)
    BY DEF CleanIsSaved
  <2>1. SameGraves(store.value, graves)
    BY DEF Synced, Loading, Settled, Saving
  <2> QED
    BY <2>1 DEF SameGraves, Deadlines
<1> QED
  BY <1>1, <1>2, <1>3, PTL DEF Spec
-----------------------------------------------------------------------------
(* Zones *)

(* The zone commands that are still to be executed. *)
Ordered == Range(outbox) \cup Range(zone_calls)

Private(c) == c \in DOMAIN barrels /\ now < barrels[c].deadline

HasZone(c) == c \in DOMAIN zones /\ zones[c] = barrels[c].owner

Unknown(c) == \A t \in Tables : c \notin DOMAIN t

(* Where every grave is recorded by the batch that orders its zone, a      *)
(* private one has its zone, is going to have it, or was lost altogether   *)
(* with that batch.  No removal can come between.                          *)
CellZoned(c) ==
  /\ Remove(c) \in Ordered => c \in used /\ ~ Private(c)
  /\ \A p \in Players : Upsert(c, p) \in Ordered =>
        c \in used /\ (c \in DOMAIN barrels => barrels[c].owner = p)
  /\ \A p \in Players : Upsert(c, p) \in Range(outbox) =>
        \A t \in HostTables : c \notin DOMAIN t
  /\ Private(c) =>
        HasZone(c) \/ (\E p \in Players : Upsert(c, p) \in Ordered) \/ Unknown(c)

Zoned == \A c \in Cells : CellZoned(c)

LEMMA UpsertsDiffer ==
  /\ \A c, p, d, q : Upsert(c, p) = Upsert(d, q) => c = d /\ p = q
  /\ \A c, p, d : Upsert(c, p) # Remove(d)
  /\ \A c, p : Upsert(c, p) # ScheduleTimer
  /\ \A c, p, n : Upsert(c, p) # Get(n)
  /\ \A c, p, n, v, t : Upsert(c, p) # Cas(n, v, t)
<1>1. /\ \A c, p : Upsert(c, p).type = "upsert" /\ Upsert(c, p).cell = c /\ Upsert(c, p).owner = p
      /\ \A d : Remove(d).type = "remove"
      /\ ScheduleTimer.type = "timer"
      /\ \A n : Get(n).type = "get"
      /\ \A n, v, t : Cas(n, v, t).type = "cas"
  BY DEF Remove, Upsert, ScheduleTimer, Get, Cas
<1>2. \A c, p, d, q : Upsert(c, p) = Upsert(d, q) => c = d /\ p = q
  <2> SUFFICES ASSUME NEW c, NEW p, NEW d, NEW q, Upsert(c, p) = Upsert(d, q)
               PROVE  c = d /\ p = q
    OBVIOUS
  <2>1. /\ Upsert(c, p).cell = c /\ Upsert(d, q).cell = d
        /\ Upsert(c, p).owner = p /\ Upsert(d, q).owner = q
    BY <1>1
  <2> QED
    BY <2>1
<1> QED
  BY <1>1, <1>2

(* What a handler may do to a cell it has not just filled. *)
LEMMA CellByHandler ==
  ASSUME NEW c, CellZoned(c), UNCHANGED <<zones, zone_calls>>, used \subseteq used',
         Private(c)' => Private(c),
         c \in DOMAIN barrels' => c \in DOMAIN barrels /\ barrels'[c] = barrels[c],
         \A p \in Players : Upsert(c, p) \in Range(outbox') <=> Upsert(c, p) \in Range(outbox),
         Remove(c) \in Range(outbox') \ Range(outbox) => c \in used' /\ ~ Private(c)',
         HostTables' \subseteq HostTables,
         Unknown(c) => Unknown(c)'
  PROVE  CellZoned(c)'
<1>1. Ordered' = Range(outbox') \cup Range(zone_calls)
  BY DEF Ordered
<1>2. \A p \in Players : Upsert(c, p) \in Ordered' <=> Upsert(c, p) \in Ordered
  BY <1>1 DEF Ordered
<1>3. Remove(c) \in Ordered' => c \in used' /\ ~ Private(c)'
  BY <1>1 DEF Ordered, CellZoned
<1>4. \A p \in Players : Upsert(c, p) \in Ordered' =>
        c \in used' /\ (c \in DOMAIN barrels' => barrels'[c].owner = p)
  BY <1>2 DEF CellZoned
<1>5. \A p \in Players : Upsert(c, p) \in Range(outbox') =>
        \A t \in HostTables' : c \notin DOMAIN t
  BY DEF CellZoned
<1>6. HasZone(c) /\ Private(c)' => HasZone(c)'
  BY DEF HasZone, Private
<1>7. Private(c)' =>
        HasZone(c)' \/ (\E p \in Players : Upsert(c, p) \in Ordered') \/ Unknown(c)'
  BY <1>2, <1>6 DEF CellZoned
<1> QED
  BY <1>3, <1>4, <1>5, <1>7 DEF CellZoned

(* A handler that fills no barrel orders no zone, knows of no other cell,  *)
(* and gives up only zones that are no longer due.                         *)
LEMMA ZonedByHandler ==
  ASSUME Zoned, UNCHANGED <<now, used, zones, zone_calls, store, calls>>,
         answers' \subseteq answers,
         \A c \in DOMAIN barrels' : c \in DOMAIN barrels /\ barrels'[c] = barrels[c],
         \A c \in Cells, p \in Players :
            Upsert(c, p) \in Range(outbox') <=> Upsert(c, p) \in Range(outbox),
         \A c \in GivenUp : c \in used /\ ~ Private(c)',
         \A x \in Range(outbox') \ Range(outbox) : x.type = "cas" => x.value = graves',
         NEW g, g = graves', \A c \in Cells : Unknown(c) => c \notin DOMAIN g
  PROVE  Zoned'
<1>1. \A t \in Tables' : t = g \/ t \in Tables
  BY HandlerTables
<1>2. HostTables' \subseteq HostTables
  BY DEF HostTables
<1>3. ASSUME NEW c \in Cells PROVE CellZoned(c)'
  <2>1. CellZoned(c)
    BY DEF Zoned
  <2>2. Private(c)' => Private(c)
    BY DEF Private
  <2>3. Unknown(c) => Unknown(c)'
    BY <1>1 DEF Unknown
  <2>4. Remove(c) \in Range(outbox') \ Range(outbox) => c \in used' /\ ~ Private(c)'
    BY DEF GivenUp
  <2> QED
    BY <1>2, <2>1, <2>2, <2>3, <2>4, CellByHandler
<1> QED
  BY <1>3 DEF Zoned

LEMMA InitZoned == Init => Zoned
<1> SUFFICES ASSUME Init PROVE Zoned
  OBVIOUS
<1>1. Ordered = {Get(1)} /\ Range(outbox) = {Get(1)} /\ DOMAIN barrels = {}
  BY DEF Init, Ordered, Range
<1> QED
  BY <1>1, CommandsDiffer, UpsertsDiffer DEF Zoned, CellZoned, Private

(* What a sweep orders. *)
LEMMA SweepOrders ==
  ASSUME NEW table, NEW waiting, NEW due, SweepResult(table, waiting, due)
  PROVE  /\ \A c \in Cells, p \in Players :
               Upsert(c, p) \in Range(outbox') <=> Upsert(c, p) \in Range(outbox)
         /\ \A x \in Range(outbox') \ Range(outbox) : x.type = "cas" => x.value = graves'
<1>1. PICK T \in SUBSET {ScheduleTimer} :
         Range(outbox') = Range(outbox) \cup {Remove(c) : c \in due} \cup T
           \cup Writes((dirty \/ due # {}) /\ loaded' /\ waiting = {})
  BY DEF SweepResult
<1>2. \A c, p : Upsert(c, p) \notin Writes((dirty \/ due # {}) /\ loaded' /\ waiting = {})
  BY UpsertsDiffer DEF Writes
<1>3. \A c \in Cells, p \in Players :
         Upsert(c, p) \in Range(outbox') <=> Upsert(c, p) \in Range(outbox)
  BY <1>1, <1>2, UpsertsDiffer
<1> QED
  BY <1>1, <1>3, ZoneAndTimerTypes, WritesOf

LEMMA BrokenZoned ==
  ASSUME Typed, Zoned, NEW cell \in Cells, Broken(cell)
  PROVE  Zoned'
<1>1. /\ UNCHANGED <<now, used, zones, zone_calls, store, calls, answers>>
      /\ cell \in DOMAIN barrels /\ barrels' = Without(barrels, {cell})
  BY DEF Broken, storage, zoning
<1>2. \A c \in DOMAIN barrels' : c \in DOMAIN barrels /\ barrels'[c] = barrels[c]
  BY <1>1 DEF Without
<1> PICK g : g = graves'
  OBVIOUS
<1>3. \A c : Unknown(c) => c \notin DOMAIN graves
  BY DEF Unknown, Tables
<1>4. CASE cell \notin DOMAIN graves
  <2>1. outbox' = outbox /\ g = graves
    BY <1>4 DEF Broken, plugin
  <2> QED
    BY <1>1, <1>2, <1>3, <2>1, ZonedByHandler DEF GivenUp
<1>5. CASE cell \in DOMAIN graves
  <2>1. /\ graves' = Without(graves, {cell})
        /\ UNCHANGED <<storage_version, loaded, sweep_armed>>
        /\ Save(pending, dirty, IF graves[cell].protected THEN <<Remove(cell)>> ELSE <<>>)
    BY <1>5 DEF Broken
  <2>2. PICK R \in SUBSET {Remove(cell)} :
           /\ DOMAIN g = DOMAIN graves \ {cell}
           /\ Range(outbox') = Range(outbox) \cup R \cup Writes(loaded' /\ pending = {})
    BY <1>5, <2>1, BrokenOf
  <2>3. \A c, p : Upsert(c, p) \notin Writes(loaded' /\ pending = {}) /\ Upsert(c, p) \notin R
    BY UpsertsDiffer DEF Writes
  <2>4. \A c \in Cells, p \in Players :
           Upsert(c, p) \in Range(outbox') <=> Upsert(c, p) \in Range(outbox)
    BY <2>2, <2>3
  <2>5. \A x \in Range(outbox') \ Range(outbox) : x.type = "cas" => x.value = graves'
    BY <2>2, ZoneAndTimerTypes, WritesOf
  <2>6. \A c : Remove(c) \notin Writes(loaded' /\ pending = {})
    BY CommandsDiffer DEF Writes
  <2>7. \A c \in GivenUp : c = cell
    BY <2>2, <2>6, CommandsDiffer DEF GivenUp
  <2>8. cell \in used /\ ~ Private(cell)'
    BY <1>1 DEF Typed, TypeOK, Private, Without
  <2> QED
    BY <1>1, <1>2, <1>3, <2>2, <2>4, <2>5, <2>7, <2>8, ZonedByHandler
<1> QED
  BY <1>4, <1>5

LEMMA SweepZoned ==
  ASSUME Typed, Zoned, NEW table \in Graveyards, Honest(table),
         \A c : Unknown(c) => c \notin DOMAIN table,
         NEW waiting, NEW due, SweepResult(table, waiting, due),
         UNCHANGED <<now, used, barrels, zones, zone_calls, store, calls>>,
         answers' \subseteq answers
  PROVE  Zoned'
<1> PICK g : g = graves'
  OBVIOUS
<1>1. SameGraves(g, table)
  BY SweptOf DEF SweepResult
<1>2. \A c \in Cells : Unknown(c) => c \notin DOMAIN g
  BY <1>1 DEF SameGraves
<1>3. \A c \in GivenUp : c \in used /\ ~ Private(c)'
  <2> SUFFICES ASSUME NEW c \in GivenUp PROVE c \in used /\ ~ Private(c)'
    OBVIOUS
  <2>1. c \in used /\ (c \in DOMAIN barrels => barrels[c].deadline <= now)
    BY SweepRemoves
  <2>2. now \in Int /\ \A d \in DOMAIN barrels : barrels[d].deadline \in Int
    BY BoundsAssumption DEF Typed, TypeOK
  <2> QED
    BY <2>1, <2>2 DEF Private
<1> QED
  BY <1>2, <1>3, SweepOrders, ZonedByHandler

LEMMA DeliverZoned ==
  ASSUME Typed, Kept, Zoned, Deliver
  PROVE  Zoned'
<1>1. PICK answer \in answers :
         /\ answers' = answers \ {answer}
         /\ TableRead(answer) \/ Unreadable(answer) \/ Saved(answer) \/ Ignored(answer)
         /\ UNCHANGED <<now, used, barrels, zones, zone_calls, store, calls>>
  BY DEF Deliver, world, zoning
<1>2. \A c : Unknown(c) => c \notin DOMAIN graves
  BY DEF Unknown, Tables
<1>3. CASE TableRead(answer)
  <2>1. PICK m \in Graveyards : /\ Merges(m, answer.value, graves)
                                /\ \E due : SweepResult(m, {}, due)
    BY <1>3, TableReadOf
  <2>2. PICK due : SweepResult(m, {}, due)
    BY <2>1
  <2>3. answer.type = "get"
    BY <1>3 DEF TableRead
  <2>4. Honest(graves) /\ Honest(answer.value)
    BY <2>3, KeptOf
  <2>5. Honest(m)
    BY <2>1, <2>4 DEF Honest, Merges
  <2>6. \A c : Unknown(c) => c \notin DOMAIN answer.value
    BY <2>3 DEF Unknown, Tables
  <2>7. \A c : Unknown(c) => c \notin DOMAIN m
    BY <1>2, <2>1, <2>6 DEF Merges
  <2> QED
    BY <1>1, <2>2, <2>5, <2>7, SweepZoned
<1> PICK g : g = graves'
  OBVIOUS
<1>4. ASSUME g = graves,
             \A x \in Range(outbox') \ Range(outbox) :
                x.type \in {"get", "cas"} /\ (x.type = "cas" => x.value = graves'),
             Range(outbox) \subseteq Range(outbox')
      PROVE  Zoned'
  <2>1. \A c \in Cells, p \in Players :
           Upsert(c, p) \in Range(outbox') <=> Upsert(c, p) \in Range(outbox)
    BY <1>4, ZoneAndTimerTypes
  <2>2. \A c \in GivenUp : FALSE
    BY <1>4, ZoneAndTimerTypes DEF GivenUp
  <2> QED
    BY <1>1, <1>2, <1>4, <2>1, <2>2, ZonedByHandler
<1>5. CASE Unreadable(answer)
  BY <1>4, <1>5 DEF Unreadable
<1>6. CASE Ignored(answer)
  BY <1>4, <1>6 DEF Ignored, plugin
<1>7. CASE Saved(answer)
  <2>1. g = graves
    BY <1>7 DEF Saved
  <2>2. CASE answer.outcome = "committed" /\ dirty
    <3>1. /\ storage_version' = answer.version /\ loaded' = loaded /\ Save({}, FALSE, <<>>)
      BY <1>7, <2>2 DEF Saved
    <3>2. storage_version' \in Nat /\ graves' \in Graveyards
      BY <2>1, <3>1, AnswerOf DEF Typed, TypeOK
    <3>3. Range(outbox') = Range(outbox) \cup {} \cup Writes(loaded' /\ {} = {})
      BY <3>1, <3>2, NoCommand, SaveOf
    <3> QED
      BY <1>4, <2>1, <3>3, WritesOf
  <2>3. CASE answer.outcome = "committed" /\ ~ dirty
    BY <1>4, <1>7, <2>1, <2>3 DEF Saved
  <2>4. CASE answer.outcome # "committed"
    <3>1. Range(outbox') = Range(outbox) \cup {Get(NewRequest)}
      BY <1>7, <2>4, ReloadOf DEF Saved
    <3>2. Get(NewRequest).type = "get"
      BY DEF Get
    <3> QED
      BY <1>4, <2>1, <3>1, <3>2
  <2> QED
    BY <2>2, <2>3, <2>4
<1> QED
  BY <1>1, <1>3, <1>5, <1>6, <1>7

LEMMA TimerFiredZoned ==
  ASSUME Typed, Kept, Zoned, TimerFired
  PROVE  Zoned'
<1>1. UNCHANGED <<now, used, barrels, zones, zone_calls, store, calls, answers>>
  BY DEF TimerFired, storage, world, zoning
<1>2. PICK t, w : t = graves /\ t \in Graveyards /\ \E due : SweepResult(t, w, due)
  BY TimerSweeps
<1>3. PICK due : SweepResult(t, w, due)
  BY <1>2
<1>4. Honest(t)
  BY <1>2, KeptOf
<1>5. \A c : Unknown(c) => c \notin DOMAIN t
  BY <1>2 DEF Unknown, Tables
<1> QED
  BY <1>1, <1>2, <1>3, <1>4, <1>5, SweepZoned

LEMMA ZoneAnsweredZoned ==
  ASSUME Typed, Zoned, ZoneAnswered
  PROVE  Zoned'
<1>1. UNCHANGED <<now, used, barrels, zones, zone_calls, store, calls, answers, outbox>>
  BY DEF ZoneAnswered, storage, world
<1> PICK g : g = graves'
  OBVIOUS
<1>2. SameGraves(g, graves)
  BY ZoneAnsweredOf
<1>3. \A c : Unknown(c) => c \notin DOMAIN g
  BY <1>2 DEF Unknown, Tables, SameGraves
<1> QED
  BY <1>1, <1>3, ZonedByHandler DEF GivenUp

(* While the table has room for every cell, a new grave evicts none. *)
LEMMA NothingEvicted ==
  ASSUME Typed, Kept, ~ CellReuse, Cardinality(Cells) <= MaxGraves,
         NEW cell \in Cells, NEW owner \in Players, GraveCreated(cell, owner)
  PROVE  Record(cell, owner, {})
<1>1. cell \notin used
  BY DEF GraveCreated
<1>2. cell \notin DOMAIN graves
  BY <1>1, KeptOf DEF Honest
<1>3. DOMAIN graves \subseteq Cells \ {cell}
  BY <1>2, GraveyardOf DEF Typed, TypeOK
<1>4. IsFiniteSet(Cells \ {cell}) /\ Cardinality(Cells \ {cell}) = Cardinality(Cells) - 1
  BY CellsAssumption, FS_RemoveElement
<1>5. Cardinality(DOMAIN graves) <= Cardinality(Cells \ {cell})
  BY <1>3, <1>4, FS_Subset
<1>6. IsFiniteSet(DOMAIN graves)
  BY <1>3, <1>4, FS_Subset
<1>7. Cardinality(DOMAIN graves) \in Nat
  BY <1>6, FS_CardinalityType
<1>8. Cardinality(Cells) \in Nat
  BY CellsAssumption, FS_CardinalityType
<1>9. ~ (Cardinality(DOMAIN graves) >= MaxGraves)
  BY <1>4, <1>5, <1>7, <1>8, LimitsAssumption
<1> QED
  BY <1>2, <1>9 DEF GraveCreated

LEMMA GraveCreatedZoned ==
  ASSUME Typed, Kept, Zoned, ~ CellReuse, Cardinality(Cells) <= MaxGraves,
         NEW cell \in Cells, NEW owner \in Players, GraveCreated(cell, owner)
  PROVE  Zoned'
<1>1. /\ UNCHANGED <<now, zones, zone_calls, store, calls, answers>>
      /\ now + PublicAfter < MaxTick
      /\ cell \notin used /\ used' = used \cup {cell}
      /\ barrels' = Insert(barrels, cell, [owner |-> owner, deadline |-> now + PublicAfter])
  BY DEF GraveCreated, storage, zoning
<1>2. /\ DOMAIN barrels' = DOMAIN barrels \cup {cell} /\ barrels'[cell].owner = owner
      /\ \A c \in DOMAIN barrels : c # cell => barrels'[c] = barrels[c]
  BY <1>1 DEF Insert
<1>3. Record(cell, owner, {})
  BY NothingEvicted
<1> PICK g, N : g = graves' /\ N = {}
  OBVIOUS
<1>4. N \in SUBSET DOMAIN graves /\ Record(cell, owner, N)
  BY <1>3
<1>5. /\ DOMAIN g = (DOMAIN graves \ N) \cup {cell}
      /\ RecordCommands(cell, owner, N)
  BY <1>1, <1>4, RecordOf
<1>6. PICK T \in SUBSET {ScheduleTimer} :
         Range(outbox') = Range(outbox)
               \cup {Remove(d) : d \in {d \in N : graves[d].protected}}
               \cup {Upsert(cell, owner)} \cup T \cup Writes(loaded /\ pending = {})
  BY <1>5 DEF RecordCommands
<1>7. Range(outbox') = Range(outbox)
               \cup {Upsert(cell, owner)} \cup T \cup Writes(loaded /\ pending = {})
  BY <1>6
<1>8. \A x \in Range(outbox') \ Range(outbox) : x.type = "cas" => x.value = graves'
  BY <1>7, ZoneAndTimerTypes, WritesOf
<1>9. \A c : Remove(c) \in Range(outbox') <=> Remove(c) \in Range(outbox)
  <2>1. \A c : Remove(c) \notin Writes(loaded /\ pending = {})
    BY CommandsDiffer DEF Writes
  <2> QED
    BY <1>7, <2>1, CommandsDiffer
<1>10. \A c, p : Upsert(c, p) \in Range(outbox') <=>
                   Upsert(c, p) \in Range(outbox) \/ (c = cell /\ p = owner)
  <2>1. \A c, p : Upsert(c, p) \notin Writes(loaded /\ pending = {})
    BY UpsertsDiffer DEF Writes
  <2> QED
    BY <1>7, <2>1, UpsertsDiffer
<1>11. \A t \in Tables' : t = g \/ t \in Tables
  BY <1>1, <1>8, HandlerTables
<1>12. HostTables' = HostTables
  BY <1>1 DEF HostTables
<1>13. CellZoned(cell)'
  <2>1. CellZoned(cell)
    BY DEF Zoned
  <2>2. \A t \in HostTables : cell \notin DOMAIN t
    <3>1. Honest(store.value)
      BY KeptOf
    <3>2. \A a \in answers : a.type = "get" => Honest(a.value)
      BY KeptOf
    <3>3. \A c \in calls : c.type = "cas" => Honest(c.value)
      BY KeptOf DEF StorageCalls
    <3> QED
      BY <1>1, <3>1, <3>2, <3>3 DEF HostTables, Honest
  <2>3. Ordered' = Range(outbox') \cup Range(zone_calls)
    BY <1>1 DEF Ordered
  <2>4. Remove(cell) \notin Ordered'
    BY <1>1, <1>9, <2>1, <2>3 DEF Ordered, CellZoned
  <2>5. \A p \in Players : Upsert(cell, p) \in Ordered' <=> p = owner
    BY <1>1, <1>10, <2>1, <2>3 DEF Ordered, CellZoned
  <2> QED
    BY <1>1, <1>2, <1>12, <2>2, <2>4, <2>5 DEF CellZoned
<1>14. ASSUME NEW c \in Cells, c # cell PROVE CellZoned(c)'
  <2>1. CellZoned(c)
    BY DEF Zoned
  <2>2. c \in DOMAIN barrels' => c \in DOMAIN barrels /\ barrels'[c] = barrels[c]
    BY <1>2, <1>14
  <2>3. Private(c)' => Private(c)
    BY <1>1, <2>2 DEF Private
  <2>4. \A p \in Players : Upsert(c, p) \in Range(outbox') <=> Upsert(c, p) \in Range(outbox)
    BY <1>10, <1>14
  <2>5. Unknown(c) => Unknown(c)'
    <3>1. Unknown(c) => c \notin DOMAIN g
      BY <1>5, <1>14 DEF Unknown, Tables
    <3> QED
      BY <1>11, <3>1 DEF Unknown
  <2> QED
    BY <1>1, <1>9, <1>12, <2>1, <2>2, <2>3, <2>4, <2>5, CellByHandler
<1> QED
  BY <1>13, <1>14 DEF Zoned

LEMMA TickZoned ==
  ASSUME Typed, Zoned, Tick
  PROVE  Zoned'
<1>1. /\ now' = now + 1
      /\ UNCHANGED <<graves, used, barrels, zones, zone_calls, store, calls, answers, outbox>>
  BY DEF Tick, plugin, storage, zoning
<1>2. Tables' = Tables /\ HostTables' = HostTables
  BY <1>1 DEF Tables, HostTables, StorageCalls
<1>3. ASSUME NEW c \in Cells PROVE CellZoned(c)'
  <2>1. CellZoned(c)
    BY DEF Zoned
  <2>2. Private(c)' => Private(c)
    <3>1. now \in Int /\ \A d \in DOMAIN barrels : barrels[d].deadline \in Int
      BY BoundsAssumption DEF Typed, TypeOK
    <3> QED
      BY <1>1, <3>1 DEF Private
  <2>3. Unknown(c) => Unknown(c)'
    BY <1>2 DEF Unknown
  <2> QED
    BY <1>1, <1>2, <2>1, <2>2, <2>3, CellByHandler
<1> QED
  BY <1>3 DEF Zoned

(* Accepting a batch moves the orders on, all of them at once. *)
LEMMA AcceptZoned ==
  ASSUME Typed, Zoned, AcceptBatch
  PROVE  Zoned'
<1>1. /\ UNCHANGED <<now, graves, used, barrels, zones, store, answers>>
      /\ calls' = StorageCalls /\ outbox' = <<>>
  BY DEF AcceptBatch, plugin, world
<1>2. Range(zone_calls') = Range(zone_calls)
                             \cup {c \in Range(outbox) : c.type \in {"upsert", "remove"}}
  <2> PICK z : z = ZoneCommandsOf(outbox)
    OBVIOUS
  <2>1. /\ z \in Seq(ZoneRequests)
        /\ Range(z) = {c \in Range(outbox) : c.type \in {"upsert", "remove"}}
    BY ZoneCommandsOfBatch DEF Typed, TypeOK
  <2>2. ZoneRequests \subseteq Commands
    BY DEF ZoneRequests, Commands
  <2>3. z \in Seq(Commands)
    BY <2>1, <2>2
  <2>4. Range(zone_calls \o z) = Range(zone_calls) \cup Range(z)
    BY <2>3, ConcatOf DEF Typed, TypeOK
  <2> QED
    BY <2>1, <2>4 DEF AcceptBatch
<1>3. Ordered' = Range(zone_calls') /\ Range(outbox') = {}
  <2>1. Ordered' = Range(outbox') \cup Range(zone_calls')
    BY DEF Ordered
  <2> QED
    BY <1>1, <2>1, NoCommand
<1>4. \A c : Remove(c) \in Ordered' <=> Remove(c) \in Ordered
  <2>1. \A c : Remove(c).type = "remove"
    BY DEF Remove
  <2> QED
    BY <1>2, <1>3, <2>1 DEF Ordered
<1>5. \A c, p : Upsert(c, p) \in Ordered' <=> Upsert(c, p) \in Ordered
  <2>1. \A c, p : Upsert(c, p).type = "upsert"
    BY DEF Upsert
  <2> QED
    BY <1>2, <1>3, <2>1 DEF Ordered
<1>6. Tables' = Tables
  <2>1. StorageCalls' = StorageCalls
    <3>1. StorageCalls' = {c \in Range(outbox') : c.type \in {"get", "cas"}} \cup calls'
      BY DEF StorageCalls
    <3> QED
      BY <1>1, <1>3, <3>1
  <2> QED
    BY <1>1, <2>1 DEF Tables
<1>7. ASSUME NEW c \in Cells PROVE CellZoned(c)'
  <2>1. CellZoned(c)
    BY DEF Zoned
  <2>2. /\ Private(c)' <=> Private(c)
        /\ HasZone(c)' <=> HasZone(c)
        /\ Unknown(c)' <=> Unknown(c)
    BY <1>1, <1>6 DEF Private, HasZone, Unknown
  <2> QED
    BY <1>1, <1>3, <1>4, <1>5, <2>1, <2>2 DEF CellZoned
<1> QED
  BY <1>7 DEF Zoned

LEMMA ExecuteZoned ==
  ASSUME Typed, Zoned, Execute
  PROVE  Zoned'
<1>1. /\ UNCHANGED <<now, graves, used, barrels, zones, zone_calls, outbox>>
      /\ Tables' \subseteq Tables /\ HostTables' \subseteq HostTables
  BY ExecuteTables DEF Execute, plugin, world, zoning
<1>2. ASSUME NEW c \in Cells PROVE CellZoned(c)'
  <2>1. CellZoned(c)
    BY DEF Zoned
  <2>2. (Private(c)' => Private(c)) /\ (Unknown(c) => Unknown(c)')
    BY <1>1 DEF Private, Unknown
  <2> QED
    BY <1>1, <2>1, <2>2, CellByHandler
<1> QED
  BY <1>2 DEF Zoned

LEMMA HeadOf ==
  ASSUME NEW S, NEW s \in Seq(S), s # <<>>
  PROVE  Head(s) \in S /\ Range(s) = {Head(s)} \cup Range(Tail(s))
<1>1. /\ Head(s) \in S /\ Head(s) = s[1] /\ Tail(s) \in Seq(S)
      /\ Len(s) \in Nat \ {0} /\ Len(Tail(s)) = Len(s) - 1
      /\ \A i \in 1 .. Len(Tail(s)) : Tail(s)[i] = s[i + 1]
  OBVIOUS
<1>2. DOMAIN s = 1 .. Len(s) /\ DOMAIN Tail(s) = 1 .. Len(Tail(s))
  BY <1>1
<1> PICK t : t = Tail(s)
  OBVIOUS
<1>3. Range(s) \subseteq {Head(s)} \cup Range(t)
  <2> SUFFICES ASSUME NEW i \in 1 .. Len(s), i # 1 PROVE s[i] \in Range(t)
    BY <1>1, <1>2 DEF Range
  <2>1. PICK j : j = i - 1
    OBVIOUS
  <2>2. j \in 1 .. Len(t) /\ i = j + 1
    BY <1>1, <2>1
  <2> QED
    BY <1>1, <1>2, <2>2 DEF Range
<1>4. Range(t) \subseteq Range(s)
  <2> SUFFICES ASSUME NEW j \in 1 .. Len(t) PROVE t[j] \in Range(s)
    BY <1>2 DEF Range
  <2>1. PICK i : i = j + 1
    OBVIOUS
  <2>2. i \in 1 .. Len(s)
    BY <1>1, <2>1
  <2> QED
    BY <1>1, <1>2, <2>1, <2>2 DEF Range
<1>5. Head(s) \in Range(s)
  BY <1>1, <1>2 DEF Range
<1> QED
  BY <1>1, <1>3, <1>4, <1>5

LEMMA ZoneRequestOf ==
  ASSUME NEW call \in ZoneRequests
  PROVE  \/ /\ call.type = "upsert" /\ call = Upsert(call.cell, call.owner)
            /\ call.owner \in Players
         \/ call.type = "remove" /\ call = Remove(call.cell)
BY DEF ZoneRequests, Upsert, Remove

LEMMA ExecuteZoneZoned ==
  ASSUME Typed, Zoned, "zone_refusal" \notin Faults, ExecuteZone
  PROVE  Zoned'
<1>1. UNCHANGED <<now, graves, used, barrels, store, calls, answers, outbox>>
  BY DEF ExecuteZone, plugin, world, storage
<1> PICK call, rest : call = Head(zone_calls) /\ rest = Tail(zone_calls)
  OBVIOUS
<1>2. call \in ZoneRequests /\ Range(zone_calls) = {call} \cup Range(rest)
  BY HeadOf DEF ExecuteZone, Typed
<1>3. /\ zone_calls' = rest
      /\ zones' = IF call.type = "upsert"
                  THEN Insert(zones, call.cell, call.owner)
                  ELSE Without(zones, {call.cell})
  BY DEF ExecuteZone
<1>4. Ordered = Ordered' \cup {call} /\ call \in Ordered
  <2>1. Ordered' = Range(outbox) \cup Range(rest)
    BY <1>1, <1>3 DEF Ordered
  <2> QED
    BY <1>2, <2>1 DEF Ordered
<1>5. Tables' = Tables /\ HostTables' = HostTables
  BY <1>1 DEF Tables, HostTables, StorageCalls
<1>6. ASSUME NEW c \in Cells PROVE CellZoned(c)'
  <2>1. CellZoned(c)
    BY DEF Zoned
  <2>2. (Private(c)' <=> Private(c)) /\ (Unknown(c)' <=> Unknown(c))
    BY <1>1, <1>5 DEF Private, Unknown
  <2>3. ASSUME NEW p \in Players, call = Upsert(c, p), Private(c) PROVE HasZone(c)'
    <3>1. call.type = "upsert" /\ call.cell = c /\ call.owner = p
      BY <2>3 DEF Upsert
    <3>2. c \in DOMAIN zones' /\ zones'[c] = p
      BY <1>3, <3>1 DEF Insert
    <3>3. barrels[c].owner = p
      BY <1>4, <2>1, <2>3 DEF CellZoned, Private
    <3> QED
      BY <1>1, <3>2, <3>3 DEF HasZone
  <2>4. ASSUME HasZone(c), Private(c) PROVE HasZone(c)'
    <3>1. call # Remove(c)
      BY <1>4, <2>1, <2>4 DEF CellZoned
    <3>2. CASE call.type = "upsert" /\ call.cell = c
      BY <1>2, <2>3, <2>4, <3>2, ZoneRequestOf
    <3>3. CASE call.cell # c
      <4>1. c \in DOMAIN zones' /\ zones'[c] = zones[c]
        BY <1>3, <2>4, <3>3 DEF Insert, Without, HasZone
      <4> QED
        BY <1>1, <2>4, <4>1 DEF HasZone
    <3> QED
      BY <1>2, <3>1, <3>2, <3>3, ZoneRequestOf
  <2>5. Private(c)' =>
          HasZone(c)' \/ (\E p \in Players : Upsert(c, p) \in Ordered') \/ Unknown(c)'
    BY <1>4, <2>1, <2>2, <2>3, <2>4 DEF CellZoned
  <2> QED
    BY <1>1, <1>4, <1>5, <2>1, <2>2, <2>5 DEF CellZoned
<1> QED
  BY <1>6 DEF Zoned

(* What was ordered and not accepted is lost with its record. *)
LEMMA RestartZoned ==
  ASSUME Typed, Zoned, Restart
  PROVE  Zoned'
<1>1. /\ UNCHANGED <<now, used, barrels, zones, store>>
      /\ zone_calls = <<>> /\ zone_calls' = <<>>
      /\ graves' = <<>> /\ calls' = {} /\ answers' = {} /\ outbox' = <<Get(1)>>
  BY DEF Restart, world
<1>2. Range(<<Get(1)>>) = {Get(1)} /\ Get(1).type = "get"
  BY CommandTypes, OneCommand DEF Get
<1>3. Ordered' = {Get(1)} /\ Ordered = Range(outbox)
  <2>1. Ordered' = Range(outbox') \cup Range(zone_calls')
    BY DEF Ordered
  <2> QED
    BY <1>1, <1>2, <2>1, NoCommand DEF Ordered
<1>4. \A t \in Tables' : t = <<>> \/ t = store.value
  <2>1. StorageCalls' = {c \in Range(outbox') : c.type \in {"get", "cas"}} \cup calls'
    BY DEF StorageCalls
  <2>2. \A c \in StorageCalls' : c.type # "cas"
    BY <1>1, <1>2, <2>1
  <2>3. Tables' = {graves', store'.value}
                    \cup {c.value : c \in {d \in StorageCalls' : d.type = "cas"}}
                    \cup {a.value : a \in {b \in answers' : b.type = "get"}}
    BY DEF Tables
  <2> QED
    BY <1>1, <2>2, <2>3
<1>5. ASSUME NEW c \in Cells PROVE CellZoned(c)'
  <2>1. CellZoned(c)
    BY DEF Zoned
  <2>2. (Private(c)' <=> Private(c)) /\ (HasZone(c)' <=> HasZone(c))
    BY <1>1 DEF Private, HasZone
  <2>3. Remove(c) \notin Ordered' /\ \A p : Upsert(c, p) \notin Ordered' \cup Range(outbox')
    BY <1>1, <1>2, <1>3, CommandsDiffer, UpsertsDiffer
  <2>4. Unknown(c) => c \notin DOMAIN store.value
    BY DEF Unknown, Tables
  <2>5. \A p \in Players : Upsert(c, p) \in Ordered => c \notin DOMAIN store.value
    BY <1>3, <2>1 DEF CellZoned, HostTables
  <2>6. c \notin DOMAIN store.value => Unknown(c)'
    BY <1>4 DEF Unknown
  <2> QED
    BY <2>1, <2>2, <2>3, <2>4, <2>5, <2>6 DEF CellZoned
<1> QED
  BY <1>5 DEF Zoned

LEMMA NextZoned ==
  ASSUME Typed, Kept, Zoned, [Next]_vars, ~ CellReuse, Cardinality(Cells) <= MaxGraves,
         "batch_rejection" \notin Faults, "zone_refusal" \notin Faults
  PROVE  Zoned'
<1>1. CASE Tick
  BY <1>1, TickZoned
<1>2. ASSUME NEW cell \in Cells, NEW owner \in Players, GraveCreated(cell, owner)
      PROVE  Zoned'
  BY <1>2, GraveCreatedZoned
<1>3. ASSUME NEW cell \in Cells, Broken(cell) PROVE Zoned'
  BY <1>3, BrokenZoned
<1>4. CASE TimerFired
  BY <1>4, TimerFiredZoned
<1>5. CASE Deliver
  BY <1>5, DeliverZoned
<1>6. CASE ZoneAnswered
  BY <1>6, ZoneAnsweredZoned
<1>7. CASE AcceptBatch
  BY <1>7, AcceptZoned
<1>8. CASE Execute
  BY <1>8, ExecuteZoned
<1>9. CASE ExecuteZone
  BY <1>9, ExecuteZoneZoned
<1>10. CASE Restart
  BY <1>10, RestartZoned
<1>11. CASE UNCHANGED vars
  <2>1. UNCHANGED <<now, graves, used, barrels, zones, zone_calls, store, calls, answers, outbox>>
    BY <1>11 DEF vars, plugin, world, storage, zoning
  <2> PICK g : g = graves'
    OBVIOUS
  <2>2. \A c : Unknown(c) => c \notin DOMAIN g
    BY <2>1 DEF Unknown, Tables
  <2> QED
    BY <2>1, <2>2, ZonedByHandler DEF GivenUp
<1> QED
  BY <1>1, <1>2, <1>3, <1>4, <1>5, <1>6, <1>7, <1>8, <1>9, <1>10, <1>11
     DEF Next, RejectBatch

(* While each cell is used once, the table has room for all of them and no *)
(* batch or zone is refused, a grave still in its private window has the   *)
(* zone of its owner once its orders are executed: across restarts, failed *)
(* reads and uncertain writes.                                             *)
THEOREM PrivateGraveHasZoneAlways ==
  ASSUME ~ CellReuse, Cardinality(Cells) <= MaxGraves,
         "batch_rejection" \notin Faults, "zone_refusal" \notin Faults
  PROVE  Spec => []PrivateGraveHasZone
<1>1. Init => Typed /\ Kept /\ Zoned
  BY InitTyped, InitKept, InitZoned
<1>2. Typed /\ Kept /\ Zoned /\ [Next]_vars => Typed' /\ Kept' /\ Zoned'
  BY NextTyped, NextKept, NextZoned
<1>3. Typed /\ Kept /\ Zoned => PrivateGraveHasZone
  <2> SUFFICES ASSUME Typed, Kept, Zoned, outbox = <<>>, zone_calls = <<>>,
                      NEW c \in DOMAIN graves \cap DOMAIN barrels, now < graves[c].public_at
               PROVE  c \in DOMAIN zones /\ zones[c] = graves[c].owner
    BY DEF PrivateGraveHasZone
  <2>1. graves[c].owner = barrels[c].owner /\ graves[c].public_at = barrels[c].deadline
    BY KeptOf DEF Honest
  <2>2. Private(c) /\ c \in Cells
    BY <2>1 DEF Private, Typed, TypeOK
  <2>3. Ordered = {}
    BY NoCommand DEF Ordered
  <2>4. ~ Unknown(c)
    BY DEF Unknown, Tables
  <2>5. HasZone(c)
    BY <2>2, <2>3, <2>4 DEF Zoned, CellZoned
  <2> QED
    BY <2>1, <2>5 DEF HasZone
<1> QED
  BY <1>1, <1>2, <1>3, PTL DEF Spec
=============================================================================
