-------------------------- MODULE BasicEconomyProofs --------------------------
(***************************************************************************)
(* Theorems about BasicEconomy for any players, catalogs, limits, faults   *)
(* and bounds.                                                             *)
(*                                                                         *)
(* A refused batch is undone entry by entry, and a ledger is summed up     *)
(* product by product: both are folds, so the module starts with what a    *)
(* fold computes, proved by a least counterexample.                        *)
(***************************************************************************)
EXTENDS BasicEconomy, TLAPS, FiniteSetTheorems, SequenceTheorems,
        WellFoundedInduction

Products == UNION {DOMAIN c : c \in Catalogs}

Entry == [terms : Terms, purchases : Nat \ {0}]

(* What a ledger may record. *)
Tables == {f \in UNION {[S -> Entry] : S \in SUBSET Products} : IsFiniteSet(DOMAIN f)}

Ledgers == [session : Nat, version : Nat, records : Tables]
Menus == [session : Nat, id : Nat]
Pending == [request : Nat, player : Players, session : Nat]
Deals == [terms : Terms, sign : {1, -1}, records : Tables]
Records == [version : Nat, value : Tables]

Closes == [type : {"close"}, player : Players, session : Nat]
Opens == [type : {"open"}, player : Players, session : Nat, menu : Nat]
Gets == [type : {"get"}, request : Nat, player : Players]
Transactions == [type : {"transaction"}, request : Nat, player : Players, session : Nat,
                 expected : Nat, deal : Deals]
ReadAnswers == [type : {"get"}, request : Nat, outcome : {"read", "failed"}, record : Records]
TransactionAnswers == [type : {"transaction"}, request : Nat]

Entries ==
  [kind : {"read"}, request : Nat, player : Players, session : Nat]
    \cup [kind : {"open"}, player : Players, session : Nat]
    \cup [kind : {"transaction"}, request : Nat, player : Players, session : Nat, menu : Menus]

TypeOK ==
  /\ DOMAIN ledgers \subseteq Players /\ ledgers \in [DOMAIN ledgers -> Ledgers]
  /\ DOMAIN active_menus \subseteq Players /\ active_menus \in [DOMAIN active_menus -> Menus]
  /\ pending_reads \subseteq Pending /\ pending_transactions \subseteq Pending
  /\ rejected_batches \in Seq(Entries)
  /\ catalog \in Catalogs
  /\ link \in [Players -> [session : Nat, state : {"in", "left", "out"}]]
  /\ opened \in [Players -> SUBSET Nat]
  /\ clicks \subseteq [player : Players, session : Nat, menu : Nat, product : Products,
                       click : {"primary", "secondary"}]
  /\ inventory \in [Players -> [Resources -> Int]]
  /\ store \in [Players -> Records]
  /\ outbox \subseteq Closes \cup Opens \cup Gets \cup Transactions
  /\ calls \subseteq Gets \cup Transactions
  /\ answers \subseteq ReadAnswers \cup TransactionAnswers

-----------------------------------------------------------------------------
(* The inductive invariant *)

Finite ==
  /\ IsFiniteSet(DOMAIN ledgers)
  /\ IsFiniteSet(pending_reads) /\ IsFiniteSet(pending_transactions)
  /\ IsFiniteSet(outbox) /\ IsFiniteSet(calls) /\ IsFiniteSet(answers)

Numbers(S) == {x.request : x \in S}

(* The requests of the running callback, and those with the host. *)
Asked == {x \in outbox : x.type \in {"get", "transaction"}}
Abroad == calls \cup answers

(* A player waits for one request, and a request is one player's. *)
Distinct ==
  /\ \A x, y \in pending_reads \cup pending_transactions :
        x.player = y.player \/ x.request = y.request => x = y
  /\ pending_reads \cap pending_transactions = {}

(* A request started by the batch is noted to be undone with it; one       *)
(* started before is with the host.                                        *)
Noting(x, kind) ==
  \E i \in DOMAIN rejected_batches :
     rejected_batches[i].kind = kind /\ rejected_batches[i].request = x.request

Awaited ==
  /\ \A x \in pending_reads :
        x.request \in IF Noting(x, "read") THEN Numbers(Asked) ELSE Numbers(Abroad)
  /\ \A x \in pending_transactions :
        x.request \in IF Noting(x, "transaction") THEN Numbers(Asked) ELSE Numbers(Abroad)

(* The menu was seen by the player when the batch began. *)
Shown(p, menu) == menu.id \in opened[p] \/ link[p].state = "left"

OpensMenu(p) ==
  \E i \in DOMAIN rejected_batches :
     rejected_batches[i].kind = "open" /\ rejected_batches[i].player = p

Current(p, s) == link[p].session = s /\ link[p].state # "out"

ReadNoted(e) ==
  /\ [request |-> e.request, player |-> e.player, session |-> e.session] \in pending_reads
  /\ e.request \notin Numbers(Abroad)

TransactionNoted(e) ==
  /\ [request |-> e.request, player |-> e.player, session |-> e.session]
        \in pending_transactions
  /\ e.request \notin Numbers(Abroad)
  /\ e.player \in DOMAIN ledgers /\ ledgers[e.player].session = e.session
  /\ e.menu = [session |-> e.session, id |-> ledgers[e.player].version]
  /\ OpensMenu(e.player) \/ Shown(e.player, e.menu)

OpenNoted(i, e) ==
  \/ /\ e.player \in DOMAIN active_menus /\ active_menus[e.player].session = e.session
     /\ Open(e.player, e.session, active_menus[e.player].id) \in outbox
  \/ \E j \in DOMAIN rejected_batches :
        /\ i < j /\ rejected_batches[j].kind = "transaction"
        /\ rejected_batches[j].player = e.player

EntryNoted(i, e) ==
  /\ Current(e.player, e.session)
  /\ e.kind = "read" => ReadNoted(e)
  /\ e.kind = "open" => OpenNoted(i, e)
  /\ e.kind = "transaction" => TransactionNoted(e)

(* What the batch did for a player: it asked for its ledger, or it opened  *)
(* a menu, or took a click, or the one and then the other.                 *)
Undoable ==
  /\ \A i \in DOMAIN rejected_batches : EntryNoted(i, rejected_batches[i])
  /\ \A i, j \in DOMAIN rejected_batches :
        i < j /\ rejected_batches[i].player = rejected_batches[j].player =>
          rejected_batches[i].kind = "open" /\ rejected_batches[j].kind = "transaction"

MenuSound(p) ==
  /\ p \in DOMAIN ledgers
  /\ active_menus[p] = [session |-> ledgers[p].session, id |-> ledgers[p].version]
  /\ \A x \in pending_reads \cup pending_transactions : x.player # p
  /\ OpensMenu(p) \/ Shown(p, active_menus[p])
  /\ \A c \in outbox : c.type = "open" /\ c.player = p =>
        Open(p, active_menus[p].session, active_menus[p].id) \in outbox

(* A player whose menu the batch closes is not shown another one by it. *)
CloseSound(c) ==
  /\ c.player \notin DOMAIN active_menus
  /\ \A x \in pending_reads : x.player = c.player => Noting(x, "read")

(* What was read is what is stored unless that has changed. *)
Copy(p, version, records) ==
  /\ version <= store[p].version
  /\ version = store[p].version => records = store[p].value

(* What a player pays or is paid back for one purchase, of a resource. *)
Unit(terms, r) ==
  (IF r = terms.currency_resource THEN terms.price ELSE 0)
    - (IF r = terms.resource THEN terms.item_count ELSE 0)

(* The deal moves what it adds to the ledger, or takes from it. *)
Fair(records, deal) ==
  \A r \in Resources : Owed(deal.records, r) = Owed(records, r) + deal.sign * Unit(deal.terms, r)

Copies ==
  /\ \A p \in DOMAIN ledgers : Copy(p, ledgers[p].version, ledgers[p].records)
  /\ \A x \in pending_reads :
        /\ \A y \in outbox \cup calls :
              y.type = "get" /\ y.request = x.request => y.player = x.player
        /\ \A y \in answers :
              y.type = "get" /\ y.request = x.request =>
                Copy(x.player, y.record.version, y.record.value)
  /\ \A y \in outbox \cup calls : y.type = "transaction" =>
        /\ y.expected <= store[y.player].version
        /\ y.expected = store[y.player].version => Fair(store[y.player].value, y.deal)

MenusSound == \A p \in DOMAIN active_menus : MenuSound(p)

ClosesSound == \A c \in outbox : c.type = "close" => CloseSound(c)

Sound ==
  /\ Finite /\ Distinct /\ Awaited /\ Undoable /\ Copies /\ MenusSound /\ ClosesSound
  /\ NothingOfDeparted /\ ActivePlayersBounded /\ PurchasesAreRefundable

-----------------------------------------------------------------------------
(* Folds *)

(* Induction in the only form the provers here can use: a set of numbers   *)
(* that is not empty has a least one.                                      *)
LEMMA LeastNat ==
  ASSUME NEW T \in SUBSET Nat, T # {}
  PROVE  \E m \in T : \A n \in T : m <= n
<1>1. \A n, m \in Nat : <<n, m>> \in OpToRel(<, Nat) <=> n < m
  BY DEF OpToRel
<1>2. \E R : IsWellFoundedOn(R, Nat) /\ \A n, m \in Nat : <<n, m>> \in R <=> n < m
  BY <1>1, NatLessThanWellFounded
<1>3. PICK R : IsWellFoundedOn(R, Nat) /\ \A n, m \in Nat : <<n, m>> \in R <=> n < m
  BY <1>2
<1>4. IsWellFoundedOn(R, Nat) /\ T \subseteq Nat /\ T # {}
  BY <1>3
<1>5. \E x \in T : \A y \in T : ~ (<<y, x>> \in R)
  BY <1>4, WFMin, Zenon
<1>6. PICK m \in T : \A n \in T : ~ (<<n, m>> \in R)
  BY <1>5
<1>7. ASSUME NEW n \in T PROVE m <= n
  <2>1. n \in Nat /\ m \in Nat
    OBVIOUS
  <2>2. ~ (n < m)
    BY <1>3, <1>6, <2>1
  <2> QED
    BY <2>1, <2>2
<1> QED
  BY <1>7

(* A set that has 0 and with a number the next one has all. *)
LEMMA AllNat ==
  ASSUME NEW T, 0 \in T, \A n \in Nat : n \in T => n + 1 \in T
  PROVE  \A n \in Nat : n \in T
<1> SUFFICES ASSUME NEW k \in Nat, k \notin T PROVE FALSE
  OBVIOUS
<1> PICK B : B = {n \in Nat : n \notin T}
  OBVIOUS
<1>1. PICK m \in B : \A n \in B : m <= n
  <2>1. B \in SUBSET Nat /\ B # {}
    OBVIOUS
  <2> QED
    BY <2>1, LeastNat
<1>2. m \in Nat /\ m # 0 /\ m \notin T
  OBVIOUS
<1>3. m - 1 \in Nat /\ m - 1 \notin B
  BY <1>1, <1>2
<1>4. m - 1 \in T
  BY <1>3
<1> QED
  BY <1>2, <1>3, <1>4

(* A fold over the subsets of D, with values in V: c chooses an element,   *)
(* and h combines it with the value of the others.                         *)
FoldArguments(D, V, base, c, h) ==
  /\ IsFiniteSet(D) /\ base \in V
  /\ \A S \in SUBSET D : S # {} => c[S] \in S
  /\ \A x \in D, v \in V : h[<<x, v>>] \in V

IsFold(g, D, V, base, c, h) ==
  /\ g \in [SUBSET D -> V]
  /\ \A S \in SUBSET D : g[S] = IF S = {} THEN base ELSE h[<<c[S], g[S \ {c[S]}]>>]

(* What MapThenFoldSet calls iter exists. *)
LEMMA FoldDefined ==
  ASSUME NEW D, NEW V, NEW base, NEW c, NEW h, FoldArguments(D, V, base, c, h)
  PROVE  \E g : IsFold(g, D, V, base, c, h)
<1> USE DEF FoldArguments
<1> DEFINE Good(g, S) == g[S] = IF S = {} THEN base ELSE h[<<c[S], g[S \ {c[S]}]>>]
           T == {n \in Nat : \E g \in [SUBSET D -> V] :
                   \A S \in SUBSET D : Cardinality(S) <= n => Good(g, S)}
<1>1. \A S \in SUBSET D : IsFiniteSet(S) /\ Cardinality(S) \in Nat
  BY FS_Subset, FS_CardinalityType
<1>2. \A S \in SUBSET D : Cardinality(S) = 0 <=> S = {}
  BY <1>1, FS_EmptySet
<1>3. \A S \in SUBSET D : S # {} =>
         /\ S \ {c[S]} \in SUBSET D /\ Cardinality(S \ {c[S]}) = Cardinality(S) - 1
  BY <1>1, FS_RemoveElement
<1>4. 0 \in T
  <2> PICK g : g = [S \in SUBSET D |-> base]
    OBVIOUS
  <2>1. g \in [SUBSET D -> V]
    OBVIOUS
  <2>2. ASSUME NEW S \in SUBSET D, Cardinality(S) <= 0 PROVE Good(g, S)
    <3>1. S = {}
      BY <1>1, <1>2, <2>2
    <3> QED
      BY <3>1
  <2> QED
    BY <2>1, <2>2
<1>5. ASSUME NEW n \in Nat, n \in T PROVE n + 1 \in T
  <2>1. PICK g \in [SUBSET D -> V] : \A S \in SUBSET D : Cardinality(S) <= n => Good(g, S)
    BY <1>5
  <2> PICK k : k = [S \in SUBSET D |-> IF Cardinality(S) <= n THEN g[S]
                                       ELSE h[<<c[S], g[S \ {c[S]}]>>]]
    OBVIOUS
  <2>2. \A S \in SUBSET D : Cardinality(S) <= n => k[S] = g[S]
    OBVIOUS
  <2>3. \A S \in SUBSET D : ~ (Cardinality(S) <= n) =>
           S # {} /\ k[S] = h[<<c[S], g[S \ {c[S]}]>>]
    BY <1>1, <1>2
  <2>4. k \in [SUBSET D -> V]
    <3> SUFFICES ASSUME NEW S \in SUBSET D PROVE k[S] \in V
      OBVIOUS
    <3>1. CASE Cardinality(S) <= n
      BY <2>2, <3>1
    <3>2. CASE ~ (Cardinality(S) <= n)
      <4>1. S # {} /\ k[S] = h[<<c[S], g[S \ {c[S]}]>>] /\ c[S] \in D
        BY <2>3, <3>2
      <4>2. g[S \ {c[S]}] \in V
        BY <1>3, <4>1
      <4> QED
        BY <4>1, <4>2
    <3> QED
      BY <3>1, <3>2
  <2>5. ASSUME NEW S \in SUBSET D, Cardinality(S) <= n + 1 PROVE Good(k, S)
    <3>1. CASE S = {}
      <4>1. Cardinality(S) <= n
        BY <1>2, <3>1
      <4>2. Good(g, S)
        BY <2>1, <4>1
      <4> QED
        BY <2>2, <3>1, <4>1, <4>2
    <3>2. CASE S # {}
      <4>1. /\ S \ {c[S]} \in SUBSET D /\ Cardinality(S \ {c[S]}) <= n
            /\ Cardinality(S) \in Nat
        BY <1>1, <1>3, <2>5, <3>2
      <4>2. k[S \ {c[S]}] = g[S \ {c[S]}]
        BY <2>2, <4>1
      <4>3. k[S] = h[<<c[S], g[S \ {c[S]}]>>]
        BY <2>1, <2>2, <2>3, <3>2
      <4> QED
        BY <3>2, <4>2, <4>3
    <3> QED
      BY <3>1, <3>2
  <2>6. \A S \in SUBSET D : Cardinality(S) <= n + 1 => Good(k, S)
    BY <2>5
  <2> HIDE DEF Good
  <2>7. \E f \in [SUBSET D -> V] : \A S \in SUBSET D : Cardinality(S) <= n + 1 => Good(f, S)
    BY <2>4, <2>6, Zenon
  <2> PICK m : m = n + 1
    OBVIOUS
  <2>8. m \in T
    BY <2>7
  <2> QED
    BY <2>8
<1>6. Cardinality(D) \in T
  <2> HIDE DEF T
  <2> QED
    BY <1>1, <1>4, <1>5, AllNat
<1>7. PICK g \in [SUBSET D -> V] :
         \A S \in SUBSET D : Cardinality(S) <= Cardinality(D) => Good(g, S)
  BY <1>6
<1>8. \A S \in SUBSET D : Cardinality(S) <= Cardinality(D)
  BY FS_Subset
<1> QED
  BY <1>7, <1>8 DEF IsFold

LEMMA MinOf ==
  ASSUME NEW S \in SUBSET Nat, S # {}
  PROVE  Min(S) \in S /\ \A n \in S : Min(S) <= n
BY LeastNat DEF Min

LEMMA MaxOf ==
  ASSUME NEW k \in Nat, NEW S \in SUBSET (1 .. k), S # {}
  PROVE  Max(S) \in S /\ \A n \in S : n <= Max(S)
<1> PICK T : T = {i \in Nat : \E n \in S : i = k - n}
  OBVIOUS
<1>1. T \in SUBSET Nat /\ T # {}
  <2>1. PICK n \in S : TRUE
    OBVIOUS
  <2>2. k - n \in Nat
    OBVIOUS
  <2>3. k - n \in T
    BY <2>2
  <2> QED
    BY <2>3
<1>2. PICK m \in T : \A i \in T : m <= i
  BY <1>1, LeastNat
<1>3. PICK n \in S : m = k - n
  OBVIOUS
<1>4. \A x \in S : x <= n
  <2> TAKE x \in S
  <2>1. k - x \in Nat /\ k - x \in T
    OBVIOUS
  <2> QED
    BY <1>2, <1>3, <2>1
<1> QED
  BY <1>4 DEF Max

(* What undoing a batch starts from and ends with. *)
MenuTables == UNION {[S -> Menus] : S \in SUBSET Players}

LEMMA MenuTablesOf ==
  ASSUME NEW f
  PROVE  f \in MenuTables <=> DOMAIN f \subseteq Players /\ f \in [DOMAIN f -> Menus]
BY DEF MenuTables

Undos == [reads : SUBSET Pending, menus : MenuTables, transactions : SUBSET Pending]

LEMMA UndoneType ==
  ASSUME NEW e \in Entries, NEW t \in Undos
  PROVE  Undone(e, t) \in Undos
<1>1. ASSUME NEW S PROVE Drop(t.menus, S) \in MenuTables
  <2>1. DOMAIN t.menus \subseteq Players /\ t.menus \in [DOMAIN t.menus -> Menus]
    BY MenuTablesOf DEF Undos
  <2> PICK f : f = Drop(t.menus, S)
    OBVIOUS
  <2>2. DOMAIN f \subseteq Players /\ f \in [DOMAIN f -> Menus]
    BY <2>1 DEF Drop
  <2> QED
    BY <2>2, MenuTablesOf
<1>2. ASSUME NEW p \in Players, NEW m \in Menus PROVE Put(t.menus, p, m) \in MenuTables
  <2>1. DOMAIN t.menus \subseteq Players /\ t.menus \in [DOMAIN t.menus -> Menus]
    BY MenuTablesOf DEF Undos
  <2> PICK f : f = Put(t.menus, p, m)
    OBVIOUS
  <2>2. DOMAIN f \subseteq Players /\ f \in [DOMAIN f -> Menus]
    BY <2>1 DEF Put
  <2> QED
    BY <2>2, MenuTablesOf
<1>3. CASE e.kind = "read"
  BY <1>3 DEF Undone, Undos
<1>4. CASE e.kind = "open"
  BY <1>1, <1>4 DEF Undone, Undos
<1>5. CASE e.kind = "transaction"
  <2>1. e.player \in Players /\ e.menu \in Menus
    BY <1>5 DEF Entries
  <2> QED
    BY <1>2, <1>5, <2>1 DEF Undone, Undos
<1> QED
  BY <1>3, <1>4, <1>5 DEF Entries

(* reject_last_batch undoes the entries one by one, the last one first. *)
LEMMA FoldRightDefined ==
  ASSUME NEW s \in Seq(Entries), NEW base \in Undos
  PROVE  \E T : /\ \A k \in 1 .. Len(s) + 1 : T[k] \in Undos
                /\ T[Len(s) + 1] = base
                /\ \A k \in 1 .. Len(s) : T[k] = Undone(s[k], T[k + 1])
                /\ FoldRight(Undone, s, base) = T[1]
<1> DEFINE n == Len(s)
           D == DOMAIN s
<1>1. n \in Nat /\ D = 1 .. n /\ IsFiniteSet(D) /\ D \subseteq Nat
  BY FS_Interval
<1> HIDE DEF n, D
<1> PICK c : c = [S \in SUBSET D |-> Min(S)]
  OBVIOUS
<1> PICK h : h = [x \in D \X Undos |-> Undone(s[x[1]], x[2])]
  OBVIOUS
<1>2. \A S \in SUBSET D : S # {} => c[S] \in S
  BY <1>1, MinOf
<1>3. \A x \in D, v \in Undos : h[<<x, v>>] = Undone(s[x], v) /\ h[<<x, v>>] \in Undos
  <2> TAKE x \in D, v \in Undos
  <2>1. s[x] \in Entries
    BY DEF D
  <2> QED
    BY <2>1, UndoneType
<1>4. PICK g : IsFold(g, D, Undos, base, c, h)
  <2>1. \A x \in D, v \in Undos : h[<<x, v>>] \in Undos
    BY <1>3
  <2>2. FoldArguments(D, Undos, base, c, h)
    BY <1>1, <1>2, <2>1 DEF FoldArguments
  <2> QED
    BY <2>2, FoldDefined
<1>5. g = [S \in SUBSET D |-> IF S = {} THEN base ELSE Undone(s[Min(S)], g[S \ {Min(S)}])]
  BY <1>2, <1>3, <1>4 DEF IsFold
<1>6. PICK i : /\ i = [S \in SUBSET D |-> IF S = {} THEN base
                                          ELSE Undone(s[Min(S)], i[S \ {Min(S)}])]
               /\ FoldRight(Undone, s, base) = i[D]
  <2>1. FoldRight(Undone, s, base) =
          (CHOOSE i : i = [S \in SUBSET D |-> IF S = {} THEN base
                                              ELSE Undone(s[Min(S)], i[S \ {Min(S)}])])[D]
    BY DEF FoldRight, MapThenFoldSet, D
  <2> QED
    BY <1>5, <2>1
<1> PICK T : T = [k \in 1 .. n + 1 |-> i[k .. n]]
  OBVIOUS
<1>7. T[n + 1] = base /\ T[1] = i[D]
  <2>1. (n + 1) .. n = {} /\ {} \in SUBSET D
    BY <1>1
  <2>2. T[n + 1] = i[(n + 1) .. n]
    BY <1>1
  <2>3. T[1] = i[1 .. n]
    BY <1>1
  <2>4. i[{}] = base
    BY <1>6, <2>1
  <2> QED
    BY <1>1, <2>1, <2>2, <2>3, <2>4
<1>8. ASSUME NEW k \in 1 .. n PROVE T[k] = Undone(s[k], T[k + 1])
  <2>1. k .. n \in SUBSET D /\ k .. n \in SUBSET Nat /\ k \in k .. n
    BY <1>1
  <2>1a. (k .. n) \ {k} = (k + 1) .. n
    BY <1>1
  <2>2. Min(k .. n) = k
    <3> PICK S : S = k .. n
      OBVIOUS
    <3>1. Min(S) \in S /\ \A m \in S : Min(S) <= m
      BY <2>1, MinOf
    <3>2. Min(S) <= k /\ k <= Min(S) /\ Min(S) \in Nat
      BY <1>1, <2>1, <3>1
    <3> QED
      BY <3>2
  <2>3. i[k .. n] = Undone(s[k], i[(k + 1) .. n])
    BY <1>6, <2>1, <2>1a, <2>2
  <2> QED
    BY <1>1, <2>3
<1>9. \A k \in 1 .. n + 1 : T[k] \in Undos
  <2> PICK M : M = {m \in Nat : m <= n => T[n + 1 - m] \in Undos}
    OBVIOUS
  <2>1. 0 \in M
    BY <1>1, <1>7
  <2>2. ASSUME NEW m \in Nat, m \in M PROVE m + 1 \in M
    <3>1. CASE m + 1 <= n
      <4> PICK k : k = n - m
        OBVIOUS
      <4>1. k \in 1 .. n /\ k + 1 = n + 1 - m /\ k = n + 1 - (m + 1)
        BY <1>1, <3>1
      <4>2. T[k + 1] \in Undos
        BY <1>1, <2>2, <3>1, <4>1
      <4>3. s[k] \in Entries
        BY <1>1, <4>1 DEF D
      <4>4. T[k] \in Undos
        BY <1>8, <4>1, <4>2, <4>3, UndoneType
      <4> QED
        BY <4>1, <4>4
    <3>2. CASE ~ (m + 1 <= n)
      BY <3>2
    <3> QED
      BY <3>1, <3>2
  <2>3. \A m \in Nat : m \in M
    BY <2>1, <2>2, AllNat
  <2> TAKE k \in 1 .. n + 1
  <2>4. n + 1 - k \in Nat /\ n + 1 - k <= n /\ n + 1 - (n + 1 - k) = k
    BY <1>1
  <2> QED
    BY <2>3, <2>4
<1> QED
  BY <1>1, <1>6, <1>7, <1>8, <1>9 DEF n

LEMMA AppendEntry ==
  ASSUME NEW s \in Seq(Entries), NEW e \in Entries
  PROVE  /\ Append(s, e) \in Seq(Entries) /\ Len(Append(s, e)) = Len(s) + 1
         /\ \A i \in 1 .. Len(s) : Append(s, e)[i] = s[i]
         /\ Append(s, e)[Len(s) + 1] = e
OBVIOUS

(* h places the entries of k among the first m of s: those of other        *)
(* sessions, all of them and in their order.                               *)
Places(h, k, s, m, p, n) ==
  /\ \A i \in DOMAIN k : /\ h[i] \in 1 .. m /\ k[i] = s[h[i]]
                         /\ ~ (k[i].player = p /\ k[i].session = n)
  /\ \A i, j \in DOMAIN k : i < j => h[i] < h[j]
  /\ \A j \in 1 .. m : ~ (s[j].player = p /\ s[j].session = n) => \E i \in DOMAIN k : h[i] = j

LEMMA RetainOne ==
  ASSUME NEW s \in Seq(Entries), NEW p, NEW n, NEW m \in Nat, m + 1 <= Len(s),
         NEW k \in Seq(Entries), NEW h, Places(h, k, s, m, p, n)
  PROVE  \E f : Places(f, IF s[m + 1].player = p /\ s[m + 1].session = n THEN k
                          ELSE Append(k, s[m + 1]), s, m + 1, p, n)
<1> PICK e : e = s[m + 1]
  OBVIOUS
<1>1. e \in Entries /\ m + 1 \in DOMAIN s
  OBVIOUS
<1>2. CASE e.player = p /\ e.session = n
  <2>1. \A j \in 1 .. m + 1 : j = m + 1 \/ j \in 1 .. m
    OBVIOUS
  <2>2. \A j \in 1 .. m : j \in 1 .. m + 1
    OBVIOUS
  <2>3. Places(h, k, s, m + 1, p, n)
    BY <1>2, <2>1, <2>2 DEF Places
  <2> QED
    BY <1>2, <2>3
<1>3. CASE ~ (e.player = p /\ e.session = n)
  <2> PICK a : a = Append(k, e)
    OBVIOUS
  <2> PICK l : l = Len(k)
    OBVIOUS
  <2>1. /\ l \in Nat /\ DOMAIN k = 1 .. l /\ DOMAIN a = 1 .. l + 1
        /\ \A i \in 1 .. l : a[i] = k[i]
        /\ a[l + 1] = e
    BY <1>1, AppendEntry
  <2> PICK f : f = [i \in 1 .. l + 1 |-> IF i = l + 1 THEN m + 1 ELSE h[i]]
    OBVIOUS
  <2>2. f[l + 1] = m + 1 /\ \A i \in 1 .. l : f[i] = h[i]
    BY <2>1
  <2>3. \A i \in 1 .. l + 1 : i = l + 1 \/ i \in 1 .. l
    BY <2>1
  <2>4. \A i \in 1 .. l : h[i] \in 1 .. m /\ k[i] = s[h[i]] /\ ~ (k[i].player = p /\ k[i].session = n)
    BY <2>1 DEF Places
  <2>5. \A i \in DOMAIN a : /\ f[i] \in 1 .. m + 1 /\ a[i] = s[f[i]]
                            /\ ~ (a[i].player = p /\ a[i].session = n)
    <3> SUFFICES ASSUME NEW i \in 1 .. l + 1
                 PROVE  /\ f[i] \in 1 .. m + 1 /\ a[i] = s[f[i]]
                        /\ ~ (a[i].player = p /\ a[i].session = n)
      BY <2>1
    <3>1. CASE i = l + 1
      BY <1>3, <2>1, <2>2, <3>1
    <3>2. CASE i \in 1 .. l
      BY <2>1, <2>2, <2>4, <3>2
    <3> QED
      BY <2>3, <3>1, <3>2
  <2>6. \A i, j \in DOMAIN a : i < j => f[i] < f[j]
    <3> SUFFICES ASSUME NEW i \in 1 .. l + 1, NEW j \in 1 .. l + 1, i < j PROVE f[i] < f[j]
      BY <2>1
    <3>1. i \in 1 .. l
      BY <2>1
    <3>2. CASE j = l + 1
      BY <2>2, <2>4, <3>1, <3>2
    <3>3. CASE j \in 1 .. l
      BY <2>1, <2>2, <3>1, <3>3 DEF Places
    <3> QED
      BY <2>3, <3>2, <3>3
  <2>7. ASSUME NEW j \in 1 .. m + 1, ~ (s[j].player = p /\ s[j].session = n)
        PROVE  \E i \in DOMAIN a : f[i] = j
    <3>1. CASE j = m + 1
      BY <2>1, <2>2, <3>1
    <3>2. CASE j # m + 1
      <4>1. j \in 1 .. m
        BY <3>2
      <4>2. PICK i \in DOMAIN k : h[i] = j
        BY <2>7, <4>1 DEF Places
      <4>3. i \in DOMAIN a /\ f[i] = j
        BY <2>1, <2>2, <4>2
      <4> QED
        BY <4>3
    <3> QED
      BY <3>1, <3>2
  <2>8. Places(f, a, s, m + 1, p, n)
    BY <2>5, <2>6, <2>7 DEF Places
  <2> QED
    BY <1>3, <2>8
<1> QED
  BY <1>2, <1>3

(* clear_player_session keeps the entries of other sessions. *)
LEMMA RetainedOf ==
  ASSUME NEW s \in Seq(Entries), NEW p, NEW n
  PROVE  /\ Retained(s, p, n) \in Seq(Entries)
         /\ \E h : Places(h, Retained(s, p, n), s, Len(s), p, n)
<1> DEFINE D == DOMAIN s
           V == Seq(Entries)
           Kept(k, e) == IF e.player = p /\ e.session = n THEN k ELSE Append(k, e)
<1> PICK l : l = Len(s)
  OBVIOUS
<1>1. l \in Nat /\ D = 1 .. l /\ IsFiniteSet(D) /\ <<>> \in V
  BY FS_Interval
<1>2. \A x \in D, v \in V : Kept(v, s[x]) \in V
  BY AppendEntry
<1> HIDE DEF D
<1> PICK c : c = [S \in SUBSET D |-> Max(S)]
  OBVIOUS
<1> PICK h : h = [x \in D \X V |-> Kept(x[2], s[x[1]])]
  OBVIOUS
<1>3. \A S \in SUBSET D : S # {} => c[S] \in S
  BY <1>1, MaxOf
<1>4. \A x \in D, v \in V : h[<<x, v>>] = Kept(v, s[x])
  OBVIOUS
<1>5. PICK g : IsFold(g, D, V, <<>>, c, h)
  <2>1. \A x \in D, v \in V : h[<<x, v>>] \in V
    BY <1>2, <1>4
  <2>2. FoldArguments(D, V, <<>>, c, h)
    BY <1>1, <1>3, <2>1 DEF FoldArguments
  <2> QED
    BY <2>2, FoldDefined
<1>6. g = [S \in SUBSET D |-> IF S = {} THEN <<>> ELSE Kept(g[S \ {Max(S)}], s[Max(S)])]
  BY <1>3, <1>4, <1>5 DEF IsFold
<1>7. PICK i : /\ i = [S \in SUBSET D |-> IF S = {} THEN <<>>
                                          ELSE Kept(i[S \ {Max(S)}], s[Max(S)])]
               /\ Retained(s, p, n) = i[D]
  <2>1. Retained(s, p, n) =
          (CHOOSE i : i = [S \in SUBSET D |-> IF S = {} THEN <<>>
                                              ELSE Kept(i[S \ {Max(S)}], s[Max(S)])])[D]
    BY DEF Retained, FoldLeft, MapThenFoldSet, D
  <2> QED
    BY <1>6, <2>1
<1> PICK M : M = {m \in Nat : m <= l => i[1 .. m] \in V /\ \E f : Places(f, i[1 .. m], s, m, p, n)}
  OBVIOUS
<1>8. 0 \in M
  <2>1. 1 .. 0 = {} /\ {} \in SUBSET D
    OBVIOUS
  <2>2. i[1 .. 0] = <<>>
    BY <1>7, <2>1
  <2> PICK e : e = <<>>
    OBVIOUS
  <2>3. Places(e, e, s, 0, p, n)
    BY DEF Places
  <2> QED
    BY <1>1, <2>2, <2>3
<1>9. ASSUME NEW m \in Nat, m \in M PROVE m + 1 \in M
  <2>1. CASE m + 1 <= l
    <3> PICK k : k = i[1 .. m]
      OBVIOUS
    <3>1. k \in V /\ \E f : Places(f, k, s, m, p, n)
      BY <1>1, <1>9, <2>1
    <3>2. /\ 1 .. (m + 1) \in SUBSET D /\ 1 .. (m + 1) \in SUBSET (1 .. l)
          /\ m + 1 \in 1 .. (m + 1)
      BY <1>1, <2>1
    <3>3. (1 .. (m + 1)) \ {m + 1} = 1 .. m
      OBVIOUS
    <3>4. Max(1 .. (m + 1)) = m + 1
      <4> PICK S : S = 1 .. (m + 1)
        OBVIOUS
      <4>1. Max(S) \in S /\ \A x \in S : x <= Max(S)
        BY <1>1, <3>2, MaxOf
      <4>2. Max(S) <= m + 1 /\ m + 1 <= Max(S) /\ Max(S) \in Nat
        BY <3>2, <4>1
      <4> QED
        BY <4>2
    <3>5. i[1 .. (m + 1)] = Kept(k, s[m + 1])
      BY <1>7, <3>2, <3>3, <3>4
    <3>6. Kept(k, s[m + 1]) \in V
      BY <1>1, <1>2, <3>1, <3>2
    <3>7. \E f : Places(f, Kept(k, s[m + 1]), s, m + 1, p, n)
      BY <1>1, <2>1, <3>1, RetainOne
    <3> PICK o : o = m + 1
      OBVIOUS
    <3>8. i[1 .. o] \in V /\ \E f : Places(f, i[1 .. o], s, o, p, n)
      <4> HIDE DEF Kept, V
      <4> QED
        BY <3>5, <3>6, <3>7
    <3>9. o \in M
      BY <3>8
    <3> QED
      BY <3>9
  <2>2. CASE ~ (m + 1 <= l)
    BY <2>2
  <2> QED
    BY <2>1, <2>2
<1>10. l \in M
  BY <1>1, <1>8, <1>9, AllNat
<1>11. i[1 .. l] \in V /\ \E f : Places(f, i[1 .. l], s, l, p, n)
  BY <1>1, <1>10
<1> QED
  BY <1>1, <1>7, <1>11

-----------------------------------------------------------------------------
(* Ledgers summed up *)

LEMMA TablesOf ==
  ASSUME NEW f
  PROVE  f \in Tables <=> /\ DOMAIN f \subseteq Products /\ f \in [DOMAIN f -> Entry]
                          /\ IsFiniteSet(DOMAIN f)
BY DEF Tables

Chosen(S) == CHOOSE x \in S : TRUE

SumsUp(g, D, w) ==
  /\ IsFiniteSet(D) /\ \A x \in D : w[x] \in Int
  /\ \A S \in SUBSET D : g[S] = IF S = {} THEN 0 ELSE w[Chosen(S)] + g[S \ {Chosen(S)}]

(* Induction over the subsets of a finite set. *)
LEMMA AllSubsets ==
  ASSUME NEW D, IsFiniteSet(D), NEW F, {} \in F,
         \A S \in SUBSET D : S # {} /\ (\A x \in S : S \ {x} \in F) => S \in F
  PROVE  \A S \in SUBSET D : S \in F
<1> PICK M : M = {n \in Nat : \A S \in SUBSET D : Cardinality(S) = n => S \in F}
  OBVIOUS
<1>1. \A S \in SUBSET D :
         /\ Cardinality(S) \in Nat /\ (Cardinality(S) = 0 <=> S = {})
         /\ \A x \in S : S \ {x} \in SUBSET D /\ Cardinality(S \ {x}) = Cardinality(S) - 1
  <2> TAKE S \in SUBSET D
  <2>1. IsFiniteSet(S)
    BY FS_Subset
  <2> QED
    BY <2>1, FS_EmptySet, FS_CardinalityType, FS_RemoveElement
<1>2. 0 \in M
  BY <1>1
<1>3. ASSUME NEW n \in Nat, n \in M PROVE n + 1 \in M
  <2> PICK m : m = n + 1
    OBVIOUS
  <2>1. ASSUME NEW S \in SUBSET D, Cardinality(S) = m PROVE S \in F
    <3>1. S # {}
      BY <1>1, <2>1
    <3>2. ASSUME NEW x \in S PROVE S \ {x} \in F
      <4>1. S \ {x} \in SUBSET D /\ Cardinality(S \ {x}) = n
        BY <1>1, <2>1
      <4> QED
        BY <1>3, <4>1
    <3> QED
      BY <3>1, <3>2
  <2>2. m \in M
    BY <2>1
  <2> QED
    BY <2>2
<1>4. \A n \in Nat : n \in M
  BY <1>2, <1>3, AllNat
<1> QED
  BY <1>1, <1>4

LEMMA SumIsInt ==
  ASSUME NEW g, NEW D, NEW w, SumsUp(g, D, w)
  PROVE  \A S \in SUBSET D : g[S] \in Int
<1>0. PICK F : F = {S \in SUBSET D : g[S] \in Int}
  OBVIOUS
<1>1. IsFiniteSet(D)
  BY DEF SumsUp
<1>2. {} \in F
  <2>1. {} \in SUBSET D
    OBVIOUS
  <2>2. g[{}] = 0
    BY <2>1 DEF SumsUp
  <2> QED
    BY <1>0, <2>1, <2>2
<1>3. ASSUME NEW S \in SUBSET D, S # {}, \A x \in S : S \ {x} \in F PROVE S \in F
  <2> PICK c : c = Chosen(S)
    OBVIOUS
  <2>1. c \in S
    BY <1>3 DEF Chosen
  <2>2. g[S] = w[c] + g[S \ {c}] /\ w[c] \in Int /\ g[S \ {c}] \in Int
    BY <1>0, <1>3, <2>1 DEF SumsUp
  <2> QED
    BY <1>0, <2>2
<1>4. \A S \in SUBSET D : S # {} /\ (\A x \in S : S \ {x} \in F) => S \in F
  BY <1>3
<1>5. \A S \in SUBSET D : S \in F
  BY <1>1, <1>2, <1>4, AllSubsets
<1> QED
  BY <1>0, <1>5

(* The order in which a sum is taken does not matter. *)
AnyOrder(g, D, w) == \A S \in SUBSET D : \A x \in S : g[S] = w[x] + g[S \ {x}]

LEMMA SumAnyOrder ==
  ASSUME NEW g, NEW D, NEW w, SumsUp(g, D, w)
  PROVE  AnyOrder(g, D, w)
<1> PICK F : F = {S \in SUBSET D : \A x \in S : g[S] = w[x] + g[S \ {x}]}
  OBVIOUS
<1>1. IsFiniteSet(D)
  BY DEF SumsUp
<1>2. {} \in F
  OBVIOUS
<1>3. ASSUME NEW S \in SUBSET D, S # {}, \A x \in S : S \ {x} \in F PROVE S \in F
  <2> PICK c : c = Chosen(S)
    OBVIOUS
  <2>1. c \in S
    BY <1>3 DEF Chosen
  <2>2. g[S] = w[c] + g[S \ {c}]
    BY <1>3, <2>1 DEF SumsUp
  <2>3. ASSUME NEW x \in S PROVE g[S] = w[x] + g[S \ {x}]
    <3>1. CASE x = c
      BY <2>2, <3>1
    <3>2. CASE x # c
      <4> PICK T : T = (S \ {c}) \ {x}
        OBVIOUS
      <4>1. T = (S \ {x}) \ {c} /\ T \in SUBSET D
        OBVIOUS
      <4>2. g[S \ {c}] = w[x] + g[T] /\ g[S \ {x}] = w[c] + g[T]
        BY <1>3, <2>1, <3>2, <4>1
      <4>3. g[T] \in Int /\ w[x] \in Int /\ w[c] \in Int
        BY <2>1, <4>1, SumIsInt DEF SumsUp
      <4> QED
        BY <2>2, <4>2, <4>3
    <3> QED
      BY <3>1, <3>2
  <2> QED
    BY <2>3
<1>4. \A S \in SUBSET D : S \in F
  BY <1>1, <1>2, <1>3, AllSubsets
<1> QED
  BY <1>4 DEF AnyOrder

(* Sums of the same numbers agree. *)
LEMMA SumsAgree ==
  ASSUME NEW g, NEW D, NEW w, SumsUp(g, D, w), NEW h, NEW E, NEW v, SumsUp(h, E, v),
         NEW U, U \subseteq D, U \subseteq E, \A x \in U : w[x] = v[x]
  PROVE  g[U] = h[U]
<1> PICK F : F = {S \in SUBSET U : g[S] = h[S]}
  OBVIOUS
<1>1. IsFiniteSet(U)
  BY FS_Subset DEF SumsUp
<1>2. {} \in F
  BY DEF SumsUp
<1>3. ASSUME NEW S \in SUBSET U, S # {}, \A x \in S : S \ {x} \in F PROVE S \in F
  <2> PICK c : c = Chosen(S)
    OBVIOUS
  <2>1. c \in S
    BY <1>3 DEF Chosen
  <2>2. g[S] = w[c] + g[S \ {c}]
    BY <1>3, <2>1 DEF SumsUp
  <2>3. h[S] = v[c] + h[S \ {c}]
    BY <1>3, <2>1 DEF SumsUp
  <2> QED
    BY <1>3, <2>1, <2>2, <2>3
<1>4. \A S \in SUBSET U : S \in F
  BY <1>1, <1>2, <1>3, AllSubsets
<1> QED
  BY <1>4

(* What one entry of a ledger adds. *)
Weight(records, id, r) ==
  records[id].purchases *
    (  (IF r = records[id].terms.currency_resource THEN records[id].terms.price ELSE 0)
     - (IF r = records[id].terms.resource THEN records[id].terms.item_count ELSE 0))

LEMMA WeightIsInt ==
  ASSUME NEW records \in Tables, NEW id \in DOMAIN records, NEW r
  PROVE  Weight(records, id, r) \in Int
<1>1. records[id] \in Entry
  BY TablesOf
<1> PICK n : n = records[id].purchases
  OBVIOUS
<1> PICK u : u = (IF r = records[id].terms.currency_resource THEN records[id].terms.price ELSE 0)
                 - (IF r = records[id].terms.resource THEN records[id].terms.item_count ELSE 0)
  OBVIOUS
<1>2. n \in Int /\ u \in Int
  BY <1>1 DEF Entry, Terms
<1>3. n * u \in Int
  BY <1>2
<1> QED
  BY <1>3 DEF Weight

LEMMA OwedIsSum ==
  ASSUME NEW records \in Tables, NEW r
  PROVE  \E g : /\ SumsUp(g, DOMAIN records, [id \in DOMAIN records |-> Weight(records, id, r)])
                /\ Owed(records, r) = g[DOMAIN records]
<1> DEFINE D == DOMAIN records
<1>1. IsFiniteSet(D) /\ 0 \in Int
  BY TablesOf
<1>2. \A x \in D : Weight(records, x, r) \in Int
  BY WeightIsInt
<1> HIDE DEF D
<1> PICK c : c = [S \in SUBSET D |-> Chosen(S)]
  OBVIOUS
<1> PICK h : h = [x \in D \X Int |-> Weight(records, x[1], r) + x[2]]
  OBVIOUS
<1>3. \A S \in SUBSET D : S # {} => c[S] \in S
  BY DEF Chosen
<1>4. \A x \in D, v \in Int : h[<<x, v>>] = Weight(records, x, r) + v
  OBVIOUS
<1>5. PICK g : IsFold(g, D, Int, 0, c, h)
  <2>1. ASSUME NEW x \in D, NEW v \in Int PROVE h[<<x, v>>] \in Int
    <3> PICK a : a = Weight(records, x, r)
      OBVIOUS
    <3>1. a \in Int /\ h[<<x, v>>] = a + v
      BY <1>2, <1>4
    <3> QED
      BY <3>1
  <2>2. FoldArguments(D, Int, 0, c, h)
    BY <1>1, <1>3, <2>1 DEF FoldArguments
  <2> QED
    BY <2>2, FoldDefined
<1>6. g = [S \in SUBSET D |-> IF S = {} THEN 0
                              ELSE Weight(records, Chosen(S), r) + g[S \ {Chosen(S)}]]
  BY <1>3, <1>4, <1>5 DEF IsFold
<1>7. PICK i : /\ i = [S \in SUBSET D |-> IF S = {} THEN 0
                                          ELSE Weight(records, Chosen(S), r) + i[S \ {Chosen(S)}]]
               /\ Owed(records, r) = i[D]
  <2>1. Owed(records, r) =
          (CHOOSE i : i = [S \in SUBSET D |->
                             IF S = {} THEN 0
                             ELSE Weight(records, Chosen(S), r) + i[S \ {Chosen(S)}]])[D]
    BY DEF Owed, MapThenSumSet, MapThenFoldSet, Weight, Chosen, D
  <2> QED
    BY <1>6, <2>1
<1> PICK w : w = [id \in D |-> Weight(records, id, r)]
  OBVIOUS
<1>8. SumsUp(i, D, w)
  BY <1>1, <1>2, <1>3, <1>7 DEF SumsUp
<1> QED
  BY <1>7, <1>8 DEF D

LEMMA UnitOf ==
  ASSUME NEW terms \in Terms, NEW r
  PROVE  Unit(terms, r) \in Int
<1> PICK a : a = IF r = terms.currency_resource THEN terms.price ELSE 0
  OBVIOUS
<1> PICK b : b = IF r = terms.resource THEN terms.item_count ELSE 0
  OBVIOUS
<1>1. a \in Int /\ b \in Int
  BY DEF Terms
<1> QED
  BY <1>1 DEF Unit

LEMMA WeightOf ==
  ASSUME NEW records, NEW id, NEW r
  PROVE  Weight(records, id, r) = records[id].purchases * Unit(records[id].terms, r)
BY DEF Weight, Unit

LEMMA DropTable ==
  ASSUME NEW records \in Tables, NEW S
  PROVE  /\ Drop(records, S) \in Tables
         /\ DOMAIN Drop(records, S) = DOMAIN records \ S
         /\ \A x \in DOMAIN records \ S : Drop(records, S)[x] = records[x]
<1> PICK f : f = Drop(records, S)
  OBVIOUS
<1>1. DOMAIN f = DOMAIN records \ S /\ f = [x \in DOMAIN records \ S |-> records[x]]
  BY DEF Drop
<1>2. IsFiniteSet(DOMAIN f)
  BY <1>1, TablesOf, FS_Subset
<1>3. DOMAIN f \subseteq Products /\ f \in [DOMAIN f -> Entry]
  BY <1>1, TablesOf
<1> QED
  BY <1>1, <1>2, <1>3, TablesOf

(* One entry apart, a ledger adds up to what the others do. *)
LEMMA OwedDrop ==
  ASSUME NEW records \in Tables, NEW id \in DOMAIN records, NEW r
  PROVE  /\ Owed(records, r) = Weight(records, id, r) + Owed(Drop(records, {id}), r)
         /\ Owed(Drop(records, {id}), r) \in Int
<1>1. PICK rest : rest = Drop(records, {id})
  OBVIOUS
<1>2. /\ rest \in Tables /\ DOMAIN rest = DOMAIN records \ {id}
      /\ \A x \in DOMAIN records \ {id} : rest[x] = records[x]
  BY <1>1, DropTable
<1>3. PICK D, E : D = DOMAIN records /\ E = DOMAIN rest
  OBVIOUS
<1>4. PICK w, v : /\ w = [x \in D |-> Weight(records, x, r)]
                  /\ v = [x \in E |-> Weight(rest, x, r)]
  OBVIOUS
<1>5. PICK g : SumsUp(g, D, w) /\ Owed(records, r) = g[D]
  BY <1>3, <1>4, OwedIsSum
<1>6. PICK h : SumsUp(h, E, v) /\ Owed(rest, r) = h[E]
  BY <1>2, <1>3, <1>4, OwedIsSum
<1>7. \A x \in E : w[x] = v[x]
  BY <1>2, <1>3, <1>4 DEF Weight
<1>8. E \subseteq D /\ E \subseteq E /\ id \in D /\ E = D \ {id}
  BY <1>2, <1>3
<1>9. g[E] = h[E]
  <2>1. SumsUp(g, D, w) /\ SumsUp(h, E, v)
    BY <1>5, <1>6
  <2> QED
    BY <1>7, <1>8, <2>1, SumsAgree
<1>10. AnyOrder(g, D, w)
  <2>1. SumsUp(g, D, w)
    BY <1>5
  <2> QED
    BY <2>1, SumAnyOrder
<1>11. g[D] = w[id] + g[E]
  <2>1. D \in SUBSET D
    OBVIOUS
  <2> QED
    BY <1>8, <1>10, <2>1 DEF AnyOrder
<1>12. h[E] \in Int
  BY <1>6, SumIsInt
<1>13. w[id] = Weight(records, id, r)
  BY <1>4, <1>8
<1> QED
  BY <1>1, <1>5, <1>6, <1>9, <1>11, <1>12, <1>13

LEMMA OwedIsInt ==
  ASSUME NEW records \in Tables, NEW r
  PROVE  Owed(records, r) \in Int
<1> PICK D, w : D = DOMAIN records /\ w = [x \in D |-> Weight(records, x, r)]
  OBVIOUS
<1>1. PICK g : SumsUp(g, D, w) /\ Owed(records, r) = g[D]
  BY OwedIsSum
<1> QED
  BY <1>1, SumIsInt

LEMMA OwedNothing ==
  ASSUME NEW r
  PROVE  <<>> \in Tables /\ Owed(<<>>, r) = 0
<1> PICK e : e = <<>>
  OBVIOUS
<1>1. DOMAIN e = {} /\ e \in [DOMAIN e -> Entry]
  OBVIOUS
<1>2. e \in Tables
  BY <1>1, TablesOf, FS_EmptySet
<1> PICK D, w : D = DOMAIN e /\ w = [x \in D |-> Weight(e, x, r)]
  OBVIOUS
<1>3. PICK g : SumsUp(g, D, w) /\ Owed(e, r) = g[D]
  BY <1>2, OwedIsSum
<1>4. g[{}] = 0
  BY <1>1, <1>3 DEF SumsUp
<1> QED
  BY <1>1, <1>2, <1>3, <1>4

(* A ledger with an entry of n purchases in place of one of m, or of none. *)
Holds(records, id, terms, n) ==
  IF n = 0 THEN id \notin DOMAIN records
           ELSE id \in DOMAIN records /\ records[id] = [terms |-> terms, purchases |-> n]

LEMMA OwedHolds ==
  ASSUME NEW records \in Tables, NEW id, NEW terms \in Terms, NEW n \in Nat,
         Holds(records, id, terms, n), NEW r
  PROVE  Owed(records, r) = n * Unit(terms, r) + Owed(Drop(records, {id}), r)
<1> PICK o, u : o = Owed(Drop(records, {id}), r) /\ u = Unit(terms, r)
  OBVIOUS
<1>1. o \in Int /\ u \in Int
  BY DropTable, OwedIsInt, UnitOf
<1>2. CASE n = 0
  <2>1. id \notin DOMAIN records
    BY <1>2 DEF Holds
  <2>2. Drop(records, {id}) = records
    BY <2>1, TablesOf DEF Drop
  <2>3. n * u = 0
    BY <1>1, <1>2
  <2> QED
    BY <1>1, <2>2, <2>3
<1>3. CASE n # 0
  <2>1. id \in DOMAIN records /\ records[id] = [terms |-> terms, purchases |-> n]
    BY <1>3 DEF Holds
  <2>2. Owed(records, r) = Weight(records, id, r) + o
    BY <2>1, OwedDrop
  <2>3. Weight(records, id, r) = n * u
    BY <2>1, WeightOf
  <2> QED
    BY <2>2, <2>3
<1> QED
  BY <1>2, <1>3

(* A table from its entries. *)
LEMMA PutTable ==
  ASSUME NEW records \in Tables, NEW id \in Products, NEW e \in Entry
  PROVE  Put(records, id, e) \in Tables
<1> PICK f : f = Put(records, id, e)
  OBVIOUS
<1>1. /\ DOMAIN f = DOMAIN records \cup {id} /\ f[id] = e
      /\ \A x \in DOMAIN records \ {id} : f[x] = records[x]
      /\ f = [x \in DOMAIN records \cup {id} |-> f[x]]
  BY DEF Put
<1>2. IsFiniteSet(DOMAIN f)
  BY <1>1, TablesOf, FS_AddElement
<1>3. DOMAIN f \subseteq Products
  BY <1>1, TablesOf
<1>4. \A x \in DOMAIN f : f[x] \in Entry
  BY <1>1, TablesOf
<1>5. f \in [DOMAIN f -> Entry]
  BY <1>1, <1>4
<1> QED
  BY <1>1, <1>2, <1>3, <1>5, TablesOf

LEMMA PutHas ==
  ASSUME NEW records, NEW id, NEW e
  PROVE  id \in DOMAIN Put(records, id, e) /\ Put(records, id, e)[id] = e
BY DEF Put

LEMMA DropLacks ==
  ASSUME NEW records, NEW id
  PROVE  id \notin DOMAIN Drop(records, {id})
BY DEF Drop

LEMMA DropIsTable ==
  ASSUME NEW records \in Tables, NEW id
  PROVE  Drop(records, {id}) \in Tables
<1> PICK S : S = {id}
  OBVIOUS
<1> QED
  BY DropTable

LEMMA CountTable ==
  ASSUME NEW records \in Tables, NEW id \in DOMAIN records, NEW n \in Nat \ {0}
  PROVE  [records EXCEPT ![id].purchases = n]
            = Put(records, id, [terms |-> records[id].terms, purchases |-> n])
<1>1. records \in [DOMAIN records -> Entry] /\ records[id] \in Entry
  BY TablesOf
<1>2. [records[id] EXCEPT !.purchases = n] = [terms |-> records[id].terms, purchases |-> n]
  BY <1>1 DEF Entry
<1>3. DOMAIN records \cup {id} = DOMAIN records
  OBVIOUS
<1> QED
  BY <1>1, <1>2, <1>3 DEF Put

(* The same ledger but for one product. *)
LEMMA PutElsewhere ==
  ASSUME NEW records \in Tables, NEW id, NEW e
  PROVE  Drop(Put(records, id, e), {id}) = Drop(records, {id})
BY DEF Put, Drop

LEMMA DropTwice ==
  ASSUME NEW records \in Tables, NEW S
  PROVE  Drop(Drop(records, S), S) = Drop(records, S)
BY DEF Drop

LEMMA OneMore ==
  ASSUME NEW n \in Nat, NEW u \in Int
  PROVE  (n + 1) * u = n * u + u /\ n * u \in Int
OBVIOUS

LEMMA BoughtOf ==
  ASSUME catalog \in Catalogs, NEW records \in Tables, NEW id \in DOMAIN catalog,
         id \in DOMAIN records => records[id].terms = catalog[id]
  PROVE  /\ Bought(records, id) \in Tables
         /\ Drop(Bought(records, id), {id}) = Drop(records, {id})
         /\ \E n \in Nat : /\ Holds(records, id, catalog[id], n)
                           /\ Holds(Bought(records, id), id, catalog[id], n + 1)
<1>1. catalog[id] \in Terms /\ id \in Products
  BY SettingsAssumption DEF Products
<1>2. CASE id \in DOMAIN records
  <2>1. records[id] \in Entry
    BY <1>2, TablesOf
  <2>2. PICK n : n = records[id].purchases
    OBVIOUS
  <2>3. n \in Nat \ {0} /\ n + 1 \in Nat \ {0}
    BY <2>1, <2>2 DEF Entry
  <2>4. PICK e : e = [terms |-> catalog[id], purchases |-> n + 1]
    OBVIOUS
  <2>5. e \in Entry
    BY <1>1, <2>3, <2>4 DEF Entry
  <2>6. [records EXCEPT ![id].purchases = n + 1] = Put(records, id, e)
    BY <1>2, <2>3, <2>4, CountTable
  <2>7. Bought(records, id) = Put(records, id, e)
    BY <1>2, <2>2, <2>6 DEF Bought
  <2>8. /\ Put(records, id, e) \in Tables /\ id \in DOMAIN Put(records, id, e)
        /\ Put(records, id, e)[id] = e
    BY <1>1, <2>5, PutTable, PutHas
  <2>9. records[id] = [terms |-> catalog[id], purchases |-> n]
    BY <1>2, <2>1, <2>2 DEF Entry
  <2>10. Holds(records, id, catalog[id], n)
    BY <1>2, <2>3, <2>9 DEF Holds
  <2>11. Holds(Bought(records, id), id, catalog[id], n + 1)
    BY <2>3, <2>4, <2>7, <2>8 DEF Holds
  <2> QED
    BY <2>3, <2>7, <2>8, <2>10, <2>11, PutElsewhere
<1>3. CASE id \notin DOMAIN records
  <2>1. PICK e : e = [terms |-> catalog[id], purchases |-> 1]
    OBVIOUS
  <2>2. e \in Entry
    BY <1>1, <2>1 DEF Entry
  <2>3. Bought(records, id) = Put(records, id, e)
    BY <1>3, <2>1 DEF Bought
  <2>4. /\ Put(records, id, e) \in Tables /\ id \in DOMAIN Put(records, id, e)
        /\ Put(records, id, e)[id] = e
    BY <1>1, <2>2, PutTable, PutHas
  <2>5. Holds(records, id, catalog[id], 0)
    BY <1>3 DEF Holds
  <2>6. Holds(Bought(records, id), id, catalog[id], 0 + 1)
    BY <2>1, <2>3, <2>4 DEF Holds
  <2> QED
    BY <2>3, <2>4, <2>5, <2>6, PutElsewhere
<1> QED
  BY <1>2, <1>3

LEMMA RefundedOf ==
  ASSUME NEW records \in Tables, NEW id \in DOMAIN records
  PROVE  /\ Refunded(records, id) \in Tables
         /\ Drop(Refunded(records, id), {id}) = Drop(records, {id})
         /\ records[id].terms \in Terms
         /\ \E n \in Nat : /\ Holds(records, id, records[id].terms, n + 1)
                           /\ Holds(Refunded(records, id), id, records[id].terms, n)
<1>1. records[id] \in Entry /\ id \in Products
  BY TablesOf
<1>2. PICK m, t : m = records[id].purchases /\ t = records[id].terms
  OBVIOUS
<1>3. m \in Nat \ {0} /\ t \in Terms /\ records[id] = [terms |-> t, purchases |-> m]
  BY <1>1, <1>2 DEF Entry
<1>4. PICK n : n = m - 1
  OBVIOUS
<1>5. n \in Nat /\ m = n + 1 /\ n + 1 # 0
  BY <1>3, <1>4
<1>6. Holds(records, id, t, n + 1)
  BY <1>3, <1>5 DEF Holds
<1>7. CASE m = 1
  <2>1. Refunded(records, id) = Drop(records, {id})
    BY <1>2, <1>7 DEF Refunded
  <2>2. n = 0
    BY <1>4, <1>7
  <2>3. Holds(Drop(records, {id}), id, t, n)
    BY <2>2, DropLacks DEF Holds
  <2> QED
    BY <1>2, <1>3, <1>5, <1>6, <2>1, <2>3, DropIsTable, DropTwice
<1>8. CASE m # 1
  <2>1. PICK e : e = [terms |-> t, purchases |-> n]
    OBVIOUS
  <2>2. n \in Nat \ {0} /\ e \in Entry
    BY <1>3, <1>5, <1>8, <2>1 DEF Entry
  <2>3. [records EXCEPT ![id].purchases = n] = Put(records, id, e)
    BY <1>2, <2>1, <2>2, CountTable
  <2>4. Refunded(records, id) = Put(records, id, e)
    BY <1>2, <1>4, <1>8, <2>3 DEF Refunded
  <2>5. /\ Put(records, id, e) \in Tables /\ id \in DOMAIN Put(records, id, e)
        /\ Put(records, id, e)[id] = e
    BY <1>1, <2>2, PutTable, PutHas
  <2>6. Holds(Refunded(records, id), id, t, n)
    BY <2>1, <2>2, <2>4, <2>5 DEF Holds
  <2> QED
    BY <1>2, <1>3, <1>5, <1>6, <2>4, <2>5, <2>6, PutElsewhere
<1> QED
  BY <1>7, <1>8

(* click asks for a deal that moves what it adds to the ledger. *)
LEMMA AgreedFair ==
  ASSUME catalog \in Catalogs, NEW records \in Tables, NEW id \in DOMAIN catalog, NEW kind,
         NEW deal \in Agreed(records, id, kind)
  PROVE  deal \in Deals /\ Fair(records, deal)
<1>1. CASE kind = "primary"
  <2>1. /\ id \in DOMAIN records => records[id].terms = catalog[id]
        /\ deal = [terms |-> catalog[id], sign |-> 1, records |-> Bought(records, id)]
    BY <1>1 DEF Agreed
  <2>2. PICK new : new = Bought(records, id)
    OBVIOUS
  <2>3. new \in Tables /\ Drop(new, {id}) = Drop(records, {id}) /\ catalog[id] \in Terms
    BY <2>1, <2>2, BoughtOf, SettingsAssumption
  <2>4. PICK n \in Nat : Holds(records, id, catalog[id], n) /\ Holds(new, id, catalog[id], n + 1)
    BY <2>1, <2>2, BoughtOf
  <2>5. ASSUME NEW r \in Resources PROVE Owed(new, r) = Owed(records, r) + 1 * Unit(catalog[id], r)
    <3>1. PICK u, o : u = Unit(catalog[id], r) /\ o = Owed(Drop(records, {id}), r)
      OBVIOUS
    <3>2. u \in Int /\ o \in Int
      BY <2>3, <3>1, UnitOf, DropTable, OwedIsInt
    <3>3. Owed(records, r) = n * u + o
      BY <2>3, <2>4, <3>1, OwedHolds
    <3>4. Owed(new, r) = (n + 1) * u + o
      BY <2>3, <2>4, <3>1, OwedHolds
    <3>5. (n + 1) * u = n * u + u /\ n * u \in Int
      BY <3>2, OneMore
    <3> QED
      BY <3>1, <3>2, <3>3, <3>4, <3>5
  <2>6. deal.records = new /\ deal.sign = 1 /\ deal.terms = catalog[id]
    BY <2>1, <2>2
  <2>7. Fair(records, deal)
    BY <2>5, <2>6 DEF Fair
  <2> QED
    BY <2>1, <2>2, <2>3, <2>7 DEF Deals
<1>2. CASE kind # "primary"
  <2>1. /\ id \in DOMAIN records
        /\ deal = [terms |-> records[id].terms, sign |-> -1, records |-> Refunded(records, id)]
    BY <1>2 DEF Agreed
  <2>2. PICK new, t : new = Refunded(records, id) /\ t = records[id].terms
    OBVIOUS
  <2>3. new \in Tables /\ Drop(new, {id}) = Drop(records, {id}) /\ t \in Terms
    BY <2>1, <2>2, RefundedOf
  <2>4. PICK n \in Nat : Holds(records, id, t, n + 1) /\ Holds(new, id, t, n)
    BY <2>1, <2>2, RefundedOf
  <2>5. ASSUME NEW r \in Resources PROVE Owed(new, r) = Owed(records, r) + (-1) * Unit(t, r)
    <3>1. PICK u, o : u = Unit(t, r) /\ o = Owed(Drop(records, {id}), r)
      OBVIOUS
    <3>2. u \in Int /\ o \in Int
      BY <2>3, <3>1, UnitOf, DropTable, OwedIsInt
    <3>3. Owed(records, r) = (n + 1) * u + o
      BY <2>3, <2>4, <3>1, OwedHolds
    <3>4. Owed(new, r) = n * u + o
      BY <2>3, <2>4, <3>1, OwedHolds
    <3>5. (n + 1) * u = n * u + u /\ n * u \in Int
      BY <3>2, OneMore
    <3> QED
      BY <3>1, <3>2, <3>3, <3>4, <3>5
  <2>6. deal.records = new /\ deal.sign = -1 /\ deal.terms = t
    BY <2>1, <2>2
  <2>7. Fair(records, deal)
    BY <2>5, <2>6 DEF Fair
  <2> QED
    BY <2>1, <2>2, <2>3, <2>7 DEF Deals
<1> QED
  BY <1>1, <1>2

-----------------------------------------------------------------------------
(* Requests *)

(* Some small number is not in a finite set. *)
LEMMA NumbersLeft ==
  ASSUME NEW S, IsFiniteSet(S)
  PROVE  \E n \in 1 .. Cardinality(S) + 1 : n \notin S
<1>1. Cardinality(S) \in Nat
  BY FS_CardinalityType
<1>2. Cardinality(1 .. Cardinality(S) + 1) = Cardinality(S) + 1
  BY <1>1, FS_Interval
<1>3. ~ (1 .. Cardinality(S) + 1 \subseteq S)
  <2>1. SUFFICES ASSUME 1 .. Cardinality(S) + 1 \subseteq S PROVE FALSE
    OBVIOUS
  <2>2. Cardinality(1 .. Cardinality(S) + 1) <= Cardinality(S)
    BY <2>1, FS_Subset
  <2> QED
    BY <1>1, <1>2, <2>2
<1> QED
  BY <1>3

LEMMA FiniteNumbers ==
  ASSUME NEW S, IsFiniteSet(S)
  PROVE  IsFiniteSet(Numbers(S))
<1> PICK T, f : T = Numbers(S) /\ f = [x \in S |-> x.request]
  OBVIOUS
<1>1. f \in [S -> T] /\ \A t \in T : \E x \in S : f[x] = t
  BY DEF Numbers
<1>2. f \in Surjection(S, T)
  BY <1>1 DEF Surjection
<1>3. IsFiniteSet(T)
  BY <1>2, FS_Surjection
<1> QED
  BY <1>3

LEMMA FinitePlayers ==
  ASSUME NEW S, IsFiniteSet(S)
  PROVE  /\ IsFiniteSet({x.player : x \in S}) /\ Cardinality({x.player : x \in S}) \in Nat
         /\ Cardinality({x.player : x \in S}) <= Cardinality(S) /\ Cardinality(S) \in Nat
<1> PICK T, f : T = {x.player : x \in S} /\ f = [x \in S |-> x.player]
  OBVIOUS
<1>1. f \in [S -> T] /\ \A t \in T : \E x \in S : f[x] = t
  OBVIOUS
<1>2. f \in Surjection(S, T)
  BY <1>1 DEF Surjection
<1>3. IsFiniteSet(T) /\ Cardinality(T) <= Cardinality(S)
  BY <1>2, FS_Surjection
<1> QED
  BY <1>3, FS_CardinalityType

(* next_request returns an id not in use. *)
LEMMA NewRequestIsNew ==
  ASSUME Finite
  PROVE  /\ NewRequest \in Nat
         /\ \A x \in pending_reads \cup pending_transactions : x.request # NewRequest
         /\ NewRequest \notin Numbers(Asked) /\ NewRequest \notin Numbers(Abroad)
<1>1. PICK P, Q, A : /\ P = pending_reads \cup pending_transactions
                     /\ Q = calls \cup answers
                     /\ A = {c \in outbox : c.type \in {"get", "transaction"}}
  OBVIOUS
<1>2. IsFiniteSet(P) /\ IsFiniteSet(Q) /\ IsFiniteSet(A)
  BY <1>1, FS_Union, FS_Subset DEF Finite
<1>3. PICK U : U = Numbers(P) \cup Numbers(Q) \cup Numbers(A)
  OBVIOUS
<1>4. IsFiniteSet(U)
  <2>1. IsFiniteSet(Numbers(P)) /\ IsFiniteSet(Numbers(Q)) /\ IsFiniteSet(Numbers(A))
    BY <1>2, FiniteNumbers
  <2> QED
    BY <1>3, <2>1, FS_Union
<1>5. \E n \in 1 .. Cardinality(U) + 1 : n \notin U
  BY <1>4, NumbersLeft
<1>6. NewRequest = CHOOSE n \in 1 .. Cardinality(U) + 1 : n \notin U
  BY <1>1, <1>3 DEF NewRequest, Numbers
<1>7. NewRequest \in 1 .. Cardinality(U) + 1 /\ NewRequest \notin U
  BY <1>5, <1>6
<1>8. NewRequest \in Nat
  BY <1>4, <1>7, FS_CardinalityType
<1> QED
  BY <1>1, <1>3, <1>7, <1>8 DEF Numbers, Asked, Abroad

-----------------------------------------------------------------------------
(* Types *)

LEMMA PutFunction ==
  ASSUME NEW f, NEW V, f \in [DOMAIN f -> V], NEW x, NEW y \in V
  PROVE  /\ DOMAIN Put(f, x, y) = DOMAIN f \cup {x}
         /\ Put(f, x, y) \in [DOMAIN Put(f, x, y) -> V]
         /\ Put(f, x, y)[x] = y
         /\ \A z \in DOMAIN f : z # x => Put(f, x, y)[z] = f[z]
BY DEF Put

LEMMA DropFunction ==
  ASSUME NEW f, NEW V, f \in [DOMAIN f -> V], NEW S
  PROVE  /\ DOMAIN Drop(f, S) = DOMAIN f \ S
         /\ Drop(f, S) \in [DOMAIN Drop(f, S) -> V]
         /\ \A z \in DOMAIN f \ S : Drop(f, S)[z] = f[z]
BY DEF Drop

Partial(f, D, V) == DOMAIN f \subseteq D /\ f \in [DOMAIN f -> V]

LEMMA PutPartial ==
  ASSUME NEW D, NEW V, NEW f, Partial(f, D, V), NEW x \in D, NEW y \in V
  PROVE  Partial(Put(f, x, y), D, V)
BY DEF Put, Partial

LEMMA DropPartial ==
  ASSUME NEW D, NEW V, NEW f, Partial(f, D, V), NEW S
  PROVE  Partial(Drop(f, S), D, V)
BY DEF Drop, Partial

LEMMA NoEntries ==
  <<>> \in Seq(Entries) /\ DOMAIN <<>> = {} /\ Len(<<>>) = 0
OBVIOUS

LEMMA InitType == Init => TypeOK
<1> SUFFICES ASSUME Init PROVE TypeOK
  OBVIOUS
<1>1. <<>> \in Tables
  BY OwedNothing
<1>2. store \in [Players -> Records] /\ inventory \in [Players -> [Resources -> Int]]
  BY <1>1, SettingsAssumption DEF Init, Records
<1>3. /\ link \in [Players -> [session : Nat, state : {"in", "left", "out"}]]
      /\ opened \in [Players -> SUBSET Nat]
  BY DEF Init
<1>4. /\ DOMAIN ledgers = {} /\ ledgers \in [DOMAIN ledgers -> Ledgers]
      /\ DOMAIN active_menus = {} /\ active_menus \in [DOMAIN active_menus -> Menus]
      /\ rejected_batches \in Seq(Entries)
  BY NoEntries DEF Init
<1> QED
  BY <1>2, <1>3, <1>4 DEF Init, TypeOK

(* start_catalog_read adds one read and what goes with it, or nothing. *)
ReadStarted(p, s) ==
  \E n \in Nat :
     /\ n = NewRequest
     /\ pending_reads' = pending_reads \cup {[request |-> n, player |-> p, session |-> s]}
     /\ rejected_batches' = Append(rejected_batches,
                                   [kind |-> "read", request |-> n, player |-> p, session |-> s])
     /\ outbox' = outbox \cup {[type |-> "get", request |-> n, player |-> p]}

LEMMA StartOf ==
  ASSUME Finite, NEW p, NEW s, NEW loaded, NEW transactions,
         StartCatalogRead(p, s, loaded, transactions)
  PROVE  \/ UNCHANGED <<pending_reads, rejected_batches, outbox>>
         \/ ReadStarted(p, s) /\ ~ Barred(p, loaded, transactions)
BY NewRequestIsNew DEF StartCatalogRead, ReadStarted, Noted, Send

LEMMA StartType ==
  ASSUME TypeOK, NEW p \in Players, NEW s \in Nat,
         UNCHANGED <<pending_reads, rejected_batches, outbox>> \/ ReadStarted(p, s)
  PROVE  /\ pending_reads' \subseteq Pending
         /\ rejected_batches' \in Seq(Entries)
         /\ outbox' \subseteq Closes \cup Opens \cup Gets \cup Transactions
<1>1. CASE UNCHANGED <<pending_reads, rejected_batches, outbox>>
  BY <1>1 DEF TypeOK
<1>2. CASE ReadStarted(p, s)
  <2>1. PICK n \in Nat :
           /\ pending_reads' = pending_reads \cup {[request |-> n, player |-> p, session |-> s]}
           /\ rejected_batches' = Append(rejected_batches,
                      [kind |-> "read", request |-> n, player |-> p, session |-> s])
           /\ outbox' = outbox \cup {[type |-> "get", request |-> n, player |-> p]}
    BY <1>2 DEF ReadStarted
  <2>2. [request |-> n, player |-> p, session |-> s] \in Pending
    BY DEF Pending
  <2>3. PICK e : e = [kind |-> "read", request |-> n, player |-> p, session |-> s]
    OBVIOUS
  <2>4. e \in Entries
    BY <2>3 DEF Entries
  <2>5. Append(rejected_batches, e) \in Seq(Entries)
    BY <2>4, AppendEntry DEF TypeOK
  <2>6. [type |-> "get", request |-> n, player |-> p] \in Gets
    BY DEF Gets
  <2> QED
    BY <2>1, <2>2, <2>3, <2>5, <2>6 DEF TypeOK
<1> QED
  BY <1>1, <1>2

LEMMA EnterType ==
  ASSUME TypeOK, Finite, NEW p \in Players, Enter(p)
  PROVE  TypeOK'
<1>1. link[p].session \in Nat
  BY DEF TypeOK
<1>2. StartCatalogRead(p, link[p].session, DOMAIN ledgers, pending_transactions)
  BY DEF Enter
<1>3. UNCHANGED <<pending_reads, rejected_batches, outbox>> \/ ReadStarted(p, link[p].session)
  BY <1>2, StartOf
<1>4. /\ pending_reads' \subseteq Pending
      /\ rejected_batches' \in Seq(Entries)
      /\ outbox' \subseteq Closes \cup Opens \cup Gets \cup Transactions
  BY <1>1, <1>3, StartType
<1> QED
  BY <1>4 DEF Enter, TypeOK, client

(* storage_read: the ledger comes and its menu is opened, or it does not.  *)
ReadOpens(answer, pending) ==
  LET p == pending.player
      s == pending.session
      v == answer.record.version
  IN  /\ answer.outcome = "read"
      /\ ledgers' = Put(ledgers, p, [session |-> s, version |-> v,
                                     records |-> answer.record.value])
      /\ active_menus' = Put(active_menus, p, [session |-> s, id |-> v])
      /\ rejected_batches' = Append(rejected_batches,
                                    [kind |-> "open", player |-> p, session |-> s])
      /\ outbox' = outbox \cup {Open(p, s, v)}

LEMMA StorageReadOf ==
  ASSUME NEW answer, StorageRead(answer)
  PROVE  /\ answer.type = "get" /\ UNCHANGED pending_transactions
         /\ \E pending \in pending_reads :
               /\ pending.request = answer.request
               /\ pending_reads' = pending_reads \ {pending}
               /\ \/ ReadOpens(answer, pending)
                  \/ UNCHANGED <<ledgers, active_menus, rejected_batches, outbox>>
BY DEF StorageRead, ReadOpens, Noted, Send

LEMMA ReadType ==
  ASSUME TypeOK, NEW answer \in answers, answer.type = "get", NEW pending \in pending_reads,
         pending_reads' = pending_reads \ {pending}, answers' = answers \ {answer},
         \/ ReadOpens(answer, pending)
         \/ UNCHANGED <<ledgers, active_menus, rejected_batches, outbox>>,
         UNCHANGED <<pending_transactions, catalog, client, clicks, inventory, store, calls>>
  PROVE  TypeOK'
<1>1. CASE UNCHANGED <<ledgers, active_menus, rejected_batches, outbox>>
  BY <1>1 DEF TypeOK, client
<1>2. CASE ReadOpens(answer, pending)
  <2>1. PICK p, s, v, w : /\ p = pending.player /\ s = pending.session
                          /\ v = answer.record.version /\ w = answer.record.value
    OBVIOUS
  <2>2. p \in Players /\ s \in Nat
    BY <2>1 DEF TypeOK, Pending
  <2>3. v \in Nat /\ w \in Tables
    BY <2>1 DEF TypeOK, ReadAnswers, TransactionAnswers, Records
  <2>4. PICK l, m, e, o : /\ l = [session |-> s, version |-> v, records |-> w]
                          /\ m = [session |-> s, id |-> v]
                          /\ e = [kind |-> "open", player |-> p, session |-> s]
                          /\ o = Open(p, s, v)
    OBVIOUS
  <2>5. l \in Ledgers /\ m \in Menus /\ e \in Entries /\ o \in Opens
    BY <2>2, <2>3, <2>4 DEF Ledgers, Menus, Entries, Opens, Open
  <2>6. /\ ledgers' = Put(ledgers, p, l) /\ active_menus' = Put(active_menus, p, m)
        /\ rejected_batches' = Append(rejected_batches, e) /\ outbox' = outbox \cup {o}
    BY <1>2, <2>1, <2>4 DEF ReadOpens
  <2>6a. Partial(ledgers, Players, Ledgers) /\ Partial(active_menus, Players, Menus)
    BY DEF TypeOK, Partial
  <2>7. Partial(ledgers', Players, Ledgers)
    BY <2>2, <2>5, <2>6, <2>6a, PutPartial
  <2>8. Partial(active_menus', Players, Menus)
    BY <2>2, <2>5, <2>6, <2>6a, PutPartial
  <2>9. rejected_batches' \in Seq(Entries)
    BY <2>5, <2>6, AppendEntry DEF TypeOK
  <2> QED
    BY <2>5, <2>6, <2>7, <2>8, <2>9 DEF TypeOK, client, Partial
<1> QED
  BY <1>1, <1>2

LEMMA TransactionAnsweredOf ==
  ASSUME Finite, NEW answer, TransactionAnswered(answer)
  PROVE  /\ answer.type = "transaction" /\ UNCHANGED active_menus
         /\ \E pending \in pending_transactions :
               /\ pending.request = answer.request
               /\ pending_transactions' = pending_transactions \ {pending}
               /\ ledgers' = Drop(ledgers, {pending.player})
               /\ \/ UNCHANGED <<pending_reads, rejected_batches, outbox>>
                  \/ /\ ReadStarted(pending.player, pending.session)
                     /\ ~ Barred(pending.player, DOMAIN ledgers \ {pending.player},
                                 pending_transactions \ {pending})
BY StartOf DEF TransactionAnswered

LEMMA AnsweredType ==
  ASSUME TypeOK, NEW answer \in answers, NEW pending \in pending_transactions,
         pending_transactions' = pending_transactions \ {pending},
         ledgers' = Drop(ledgers, {pending.player}), answers' = answers \ {answer},
         \/ UNCHANGED <<pending_reads, rejected_batches, outbox>>
         \/ ReadStarted(pending.player, pending.session),
         UNCHANGED <<active_menus, catalog, client, clicks, inventory, store, calls>>
  PROVE  TypeOK'
<1>1. pending.player \in Players /\ pending.session \in Nat
  BY DEF TypeOK, Pending
<1>2. /\ pending_reads' \subseteq Pending
      /\ rejected_batches' \in Seq(Entries)
      /\ outbox' \subseteq Closes \cup Opens \cup Gets \cup Transactions
  BY <1>1, StartType
<1>3. Partial(ledgers, Players, Ledgers)
  BY DEF TypeOK, Partial
<1>4. Partial(ledgers', Players, Ledgers)
  BY <1>3, DropPartial
<1> QED
  BY <1>2, <1>4 DEF TypeOK, client, Partial

LEMMA DeliverType ==
  ASSUME TypeOK, Finite, Deliver
  PROVE  TypeOK'
<1>1. PICK answer \in answers :
         /\ answers' = answers \ {answer}
         /\ StorageRead(answer) \/ TransactionAnswered(answer) \/ Ignored(answer)
         /\ UNCHANGED <<catalog, client, clicks, inventory, store, calls>>
  BY DEF Deliver
<1>2. CASE StorageRead(answer)
  BY <1>1, <1>2, StorageReadOf, ReadType
<1>3. CASE TransactionAnswered(answer)
  <2>1. PICK pending \in pending_transactions :
           /\ pending_transactions' = pending_transactions \ {pending}
           /\ ledgers' = Drop(ledgers, {pending.player})
           /\ \/ UNCHANGED <<pending_reads, rejected_batches, outbox>>
              \/ ReadStarted(pending.player, pending.session)
           /\ UNCHANGED active_menus
    BY <1>3, TransactionAnsweredOf
  <2> QED
    BY <1>1, <2>1, AnsweredType
<1>4. CASE Ignored(answer)
  BY <1>1, <1>4 DEF Ignored, TypeOK, tables, client
<1> QED
  BY <1>1, <1>2, <1>3, <1>4

(* click takes the deal and closes the menu, or does nothing. *)
ClickTakes(c, n, deal) ==
  LET p == c.player
  IN  /\ Valid(c) /\ deal \in Agreed(ledgers[p].records, c.product, c.click)
      /\ active_menus' = Drop(active_menus, {p})
      /\ pending_transactions' = pending_transactions \cup
           {[request |-> n, player |-> p, session |-> c.session]}
      /\ rejected_batches' = Append(rejected_batches,
           [kind |-> "transaction", request |-> n, player |-> p, session |-> c.session,
            menu |-> active_menus[p]])
      /\ outbox' = outbox \cup
           {Close(p, c.session),
            [type |-> "transaction", request |-> n, player |-> p, session |-> c.session,
             expected |-> ledgers[p].version, deal |-> deal]}

LEMMA ClickOf ==
  ASSUME NEW c, Click(c)
  PROVE  \/ UNCHANGED <<active_menus, pending_transactions, rejected_batches, outbox>>
         \/ \E deal : ClickTakes(c, NewRequest, deal)
<1>1. CASE Valid(c) /\ Agreed(ledgers[c.player].records, c.product, c.click) # {}
  BY <1>1 DEF Click, ClickTakes, Noted, Send
<1>2. CASE ~ (Valid(c) /\ Agreed(ledgers[c.player].records, c.product, c.click) # {})
  BY <1>2 DEF Click
<1> QED
  BY <1>1, <1>2

LEMMA TakenDeal ==
  ASSUME TypeOK, NEW c, NEW n, NEW deal, ClickTakes(c, n, deal)
  PROVE  /\ deal \in Deals /\ Fair(ledgers[c.player].records, deal)
         /\ c.player \in DOMAIN ledgers /\ c.player \in DOMAIN active_menus
         /\ active_menus[c.player] = [session |-> c.session, id |-> c.menu]
         /\ \A x \in pending_transactions : x.player # c.player
<1>1. /\ c.player \in DOMAIN ledgers /\ c.product \in DOMAIN catalog
      /\ c.player \in DOMAIN active_menus
      /\ active_menus[c.player] = [session |-> c.session, id |-> c.menu]
      /\ \A x \in pending_transactions : x.player # c.player
  BY DEF ClickTakes, Valid
<1>2. PICK records : records = ledgers[c.player].records
  OBVIOUS
<1>3. records \in Tables /\ catalog \in Catalogs
  BY <1>1, <1>2 DEF TypeOK, Ledgers
<1>4. deal \in Agreed(records, c.product, c.click)
  BY <1>2 DEF ClickTakes
<1>5. deal \in Deals /\ Fair(records, deal)
  BY <1>1, <1>3, <1>4, AgreedFair
<1> QED
  BY <1>1, <1>2, <1>5

LEMMA ClickType ==
  ASSUME TypeOK, Finite, NEW c \in clicks, Click(c)
  PROVE  TypeOK'
<1>1. /\ clicks' = clicks \ {c}
      /\ UNCHANGED <<ledgers, pending_reads, catalog, client, inventory, store, calls, answers>>
  BY DEF Click
<1>2. CASE UNCHANGED <<active_menus, pending_transactions, rejected_batches, outbox>>
  BY <1>1, <1>2 DEF TypeOK, client
<1>3. CASE \E deal : ClickTakes(c, NewRequest, deal)
  <2>1. PICK n, deal : n = NewRequest /\ ClickTakes(c, n, deal)
    BY <1>3
  <2>2. n \in Nat /\ c.player \in Players /\ c.session \in Nat
    BY <2>1, NewRequestIsNew DEF TypeOK
  <2>3. /\ deal \in Deals /\ c.player \in DOMAIN ledgers /\ c.player \in DOMAIN active_menus
    BY <2>1, TakenDeal
  <2>4. ledgers[c.player].version \in Nat /\ active_menus[c.player] \in Menus
    BY <2>3 DEF TypeOK, Ledgers
  <2>5. PICK x, e, k, t :
           /\ x = [request |-> n, player |-> c.player, session |-> c.session]
           /\ e = [kind |-> "transaction", request |-> n, player |-> c.player,
                   session |-> c.session, menu |-> active_menus[c.player]]
           /\ k = Close(c.player, c.session)
           /\ t = [type |-> "transaction", request |-> n, player |-> c.player,
                   session |-> c.session, expected |-> ledgers[c.player].version,
                   deal |-> deal]
    OBVIOUS
  <2>6. x \in Pending /\ e \in Entries /\ k \in Closes /\ t \in Transactions
    BY <2>2, <2>3, <2>4, <2>5 DEF Pending, Entries, Closes, Close, Transactions
  <2>7. /\ active_menus' = Drop(active_menus, {c.player})
        /\ pending_transactions' = pending_transactions \cup {x}
        /\ rejected_batches' = Append(rejected_batches, e)
        /\ outbox' = outbox \cup {k, t}
    BY <2>1, <2>5 DEF ClickTakes
  <2>7a. Partial(active_menus, Players, Menus)
    BY DEF TypeOK, Partial
  <2>8. Partial(active_menus', Players, Menus)
    BY <2>7, <2>7a, DropPartial
  <2>9. rejected_batches' \in Seq(Entries)
    BY <2>6, <2>7, AppendEntry DEF TypeOK
  <2> QED
    BY <1>1, <2>6, <2>7, <2>8, <2>9 DEF TypeOK, client, Partial
<1> QED
  BY <1>2, <1>3, ClickOf

(* clear_player_session *)
LEMMA ClearType ==
  ASSUME TypeOK, NEW p, NEW s, Clear(p, s)
  PROVE  /\ Partial(ledgers', Players, Ledgers) /\ Partial(active_menus', Players, Menus)
         /\ pending_reads' \subseteq Pending /\ pending_transactions' \subseteq Pending
         /\ rejected_batches' \in Seq(Entries)
<1>1. Partial(ledgers, Players, Ledgers) /\ Partial(active_menus, Players, Menus)
  BY DEF TypeOK, Partial
<1>2. Partial(ledgers', Players, Ledgers) /\ Partial(active_menus', Players, Menus)
  BY <1>1, DropPartial DEF Clear
<1>3. rejected_batches' \in Seq(Entries)
  BY RetainedOf DEF TypeOK, Clear
<1> QED
  BY <1>2, <1>3 DEF TypeOK, Clear

LEMMA ExitType ==
  ASSUME TypeOK, NEW p \in Players, Exit(p)
  PROVE  TypeOK'
<1>1. link[p].session \in Nat
  BY DEF TypeOK
<1>2. PICK s : s = link[p].session
  OBVIOUS
<1>3. Clear(p, s)
  BY <1>2 DEF Exit
<1>4. /\ Partial(ledgers', Players, Ledgers) /\ Partial(active_menus', Players, Menus)
      /\ pending_reads' \subseteq Pending /\ pending_transactions' \subseteq Pending
      /\ rejected_batches' \in Seq(Entries)
  BY <1>3, ClearType
<1>5. outbox' \subseteq outbox \cup {Close(p, s)}
  BY <1>2 DEF Exit, Send
<1>6. Close(p, s) \in Closes
  BY <1>1, <1>2 DEF Close, Closes
<1> QED
  BY <1>4, <1>5, <1>6 DEF Exit, TypeOK, client, Partial

LEMMA PlayerLeftType ==
  ASSUME TypeOK, NEW p \in Players, PlayerLeft(p)
  PROVE  TypeOK'
<1>1. PICK s : s = link[p].session
  OBVIOUS
<1>2. Clear(p, s)
  BY <1>1 DEF PlayerLeft
<1>3. /\ Partial(ledgers', Players, Ledgers) /\ Partial(active_menus', Players, Menus)
      /\ pending_reads' \subseteq Pending /\ pending_transactions' \subseteq Pending
      /\ rejected_batches' \in Seq(Entries)
  BY <1>2, ClearType
<1>4. link' \in [Players -> [session : Nat, state : {"in", "left", "out"}]]
  BY DEF TypeOK, PlayerLeft
<1> QED
  BY <1>3, <1>4 DEF PlayerLeft, TypeOK, Partial

(* The tables while a batch is undone, from the last entry to the first. *)
Undoing(T) ==
  /\ \A k \in 1 .. Len(rejected_batches) + 1 : T[k] \in Undos
  /\ T[Len(rejected_batches) + 1] = [reads |-> pending_reads, menus |-> active_menus,
                                     transactions |-> pending_transactions]
  /\ \A k \in 1 .. Len(rejected_batches) : T[k] = Undone(rejected_batches[k], T[k + 1])
  /\ pending_reads' = T[1].reads /\ active_menus' = T[1].menus
  /\ pending_transactions' = T[1].transactions

LEMMA RejectOf ==
  ASSUME TypeOK, RejectBatch
  PROVE  \E T : Undoing(T)
<1>1. PICK base : base = [reads |-> pending_reads, menus |-> active_menus,
                          transactions |-> pending_transactions]
  OBVIOUS
<1>2. active_menus \in MenuTables
  BY MenuTablesOf DEF TypeOK
<1>3. base \in Undos /\ rejected_batches \in Seq(Entries)
  BY <1>1, <1>2 DEF Undos, TypeOK
<1>4. PICK T : /\ \A k \in 1 .. Len(rejected_batches) + 1 : T[k] \in Undos
               /\ T[Len(rejected_batches) + 1] = base
               /\ \A k \in 1 .. Len(rejected_batches) :
                     T[k] = Undone(rejected_batches[k], T[k + 1])
               /\ FoldRight(Undone, rejected_batches, base) = T[1]
  BY <1>3, FoldRightDefined
<1>5. RejectLastBatch = T[1]
  BY <1>1, <1>4 DEF RejectLastBatch
<1> QED
  BY <1>1, <1>4, <1>5 DEF RejectBatch, Undoing

LEMMA RejectType ==
  ASSUME TypeOK, RejectBatch
  PROVE  TypeOK'
<1>1. PICK T : Undoing(T)
  BY RejectOf
<1>2. T[1] \in Undos
  <2>1. 1 \in 1 .. Len(rejected_batches) + 1
    BY DEF TypeOK
  <2> QED
    BY <1>1, <2>1 DEF Undoing
<1>3. Partial(active_menus', Players, Menus)
  BY <1>1, <1>2, MenuTablesOf DEF Undoing, Undos, Partial
<1>4. pending_reads' \subseteq Pending /\ pending_transactions' \subseteq Pending
  BY <1>1, <1>2 DEF Undoing, Undos
<1> QED
  BY <1>3, <1>4, NoEntries DEF RejectBatch, TypeOK, client, Partial

LEMMA AcceptType ==
  ASSUME TypeOK, AcceptBatch
  PROVE  TypeOK'
<1>1. calls' \subseteq Gets \cup Transactions
  BY DEF AcceptBatch, TypeOK, Closes, Opens, Gets, Transactions
<1>2. opened' \in [Players -> SUBSET Nat]
  <2>1. \A p \in Players : {c.menu : c \in {d \in outbox : d.type = "open" /\ d.player = p}}
                             \subseteq Nat
    BY DEF TypeOK, Closes, Opens, Gets, Transactions
  <2> QED
    BY <2>1 DEF AcceptBatch, TypeOK
<1> QED
  BY <1>1, <1>2, NoEntries DEF AcceptBatch, TypeOK, tables

LEMMA MovedOf ==
  ASSUME NEW inv \in [Resources -> Int], NEW terms \in Terms, NEW sign \in {1, -1}
  PROVE  /\ Moved(inv, terms, sign) \in [Resources -> Int]
         /\ \A r \in Resources : Moved(inv, terms, sign)[r] = inv[r] - sign * Unit(terms, r)
<1>1. \A r \in Resources :
         /\ Moved(inv, terms, sign)[r] \in Int
         /\ Moved(inv, terms, sign)[r] = inv[r] - sign * Unit(terms, r)
  <2> TAKE r \in Resources
  <2>1. PICK a, b : /\ a = IF r = terms.resource THEN terms.item_count ELSE 0
                    /\ b = IF r = terms.currency_resource THEN terms.price ELSE 0
    OBVIOUS
  <2>2. a \in Int /\ b \in Int /\ inv[r] \in Int
    BY <2>1 DEF Terms
  <2>3. Moved(inv, terms, sign)[r] = inv[r] + sign * (a - b)
    BY <2>1 DEF Moved
  <2>4. Unit(terms, r) = b - a
    BY <2>1 DEF Unit
  <2>5. CASE sign = 1
    BY <2>2, <2>3, <2>4, <2>5
  <2>6. CASE sign = -1
    BY <2>2, <2>3, <2>4, <2>6
  <2> QED
    BY <2>5, <2>6
<1>2. Moved(inv, terms, sign) = [r \in Resources |-> Moved(inv, terms, sign)[r]]
  BY DEF Moved
<1> QED
  BY <1>1, <1>2

(* A transaction that goes through. *)
Carried(call) ==
  LET p == call.player
  IN  /\ store[p].version = call.expected
      /\ inventory' = [inventory EXCEPT ![p] = Moved(inventory[p], call.deal.terms,
                                                     call.deal.sign)]
      /\ store' = [store EXCEPT ![p] = Written(@, call.deal.records)]

LEMMA ExecuteOf ==
  ASSUME NEW call, ExecuteGet(call) \/ ExecuteTransaction(call)
  PROVE  \/ /\ call.type = "get" /\ UNCHANGED <<inventory, store>>
            /\ \E outcome \in {"read", "failed"} :
                  answers' = answers \cup {[type |-> "get", request |-> call.request,
                                            outcome |-> outcome, record |-> store[call.player]]}
         \/ /\ call.type = "transaction"
            /\ answers' = answers \cup {[type |-> "transaction", request |-> call.request]}
            /\ UNCHANGED <<inventory, store>> \/ Carried(call)
<1>1. CASE ExecuteGet(call)
  BY <1>1 DEF ExecuteGet, ReadOutcomes
<1>2. CASE ExecuteTransaction(call)
  BY <1>2 DEF ExecuteTransaction, Carried
<1> QED
  BY <1>1, <1>2

LEMMA ExecuteType ==
  ASSUME TypeOK, Execute
  PROVE  TypeOK'
<1>1. PICK call \in calls :
         /\ calls' = calls \ {call}
         /\ ExecuteGet(call) \/ ExecuteTransaction(call)
         /\ UNCHANGED <<tables, rejected_batches, catalog, client, clicks, outbox>>
  BY DEF Execute
<1>2. CASE call.type = "get" /\ UNCHANGED <<inventory, store>>
  <2>1. PICK outcome \in {"read", "failed"} :
          answers' = answers \cup {[type |-> "get", request |-> call.request,
                                    outcome |-> outcome, record |-> store[call.player]]}
    BY <1>1, <1>2, ExecuteOf
  <2>2. call \in Gets
    BY <1>2 DEF TypeOK, Transactions
  <2>3. call.request \in Nat /\ store[call.player] \in Records
    BY <2>2 DEF Gets, TypeOK
  <2>4. [type |-> "get", request |-> call.request, outcome |-> outcome,
         record |-> store[call.player]] \in ReadAnswers
    BY <2>3 DEF ReadAnswers
  <2> QED
    BY <1>1, <1>2, <2>1, <2>4 DEF TypeOK, tables, client
<1>3. CASE /\ call.type = "transaction"
           /\ answers' = answers \cup {[type |-> "transaction", request |-> call.request]}
           /\ UNCHANGED <<inventory, store>> \/ Carried(call)
  <2>1. call \in Transactions
    BY <1>3 DEF TypeOK, Gets
  <2>2. /\ call.request \in Nat /\ call.player \in Players /\ call.deal.terms \in Terms
        /\ call.deal.sign \in {1, -1} /\ call.deal.records \in Tables
    BY <2>1 DEF Transactions, Deals
  <2>3. [type |-> "transaction", request |-> call.request] \in TransactionAnswers
    BY <2>2 DEF TransactionAnswers
  <2>4. store' \in [Players -> Records] /\ inventory' \in [Players -> [Resources -> Int]]
    <3>1. CASE UNCHANGED <<inventory, store>>
      BY <3>1 DEF TypeOK
    <3>2. CASE Carried(call)
      <4>1. PICK moved, written :
               /\ moved = Moved(inventory[call.player], call.deal.terms, call.deal.sign)
               /\ written = Written(store[call.player], call.deal.records)
        OBVIOUS
      <4>2. moved \in [Resources -> Int]
        BY <2>2, <4>1, MovedOf DEF TypeOK
      <4>3. written \in Records
        BY <2>2, <4>1 DEF TypeOK, Written, Records
      <4>4. /\ inventory' = [inventory EXCEPT ![call.player] = moved]
            /\ store' = [store EXCEPT ![call.player] = written]
        BY <3>2, <4>1 DEF Carried
      <4> QED
        BY <4>2, <4>3, <4>4 DEF TypeOK
    <3> QED
      BY <1>3, <3>1, <3>2
  <2> QED
    BY <1>1, <1>3, <2>3, <2>4 DEF TypeOK, tables, client
<1> QED
  BY <1>1, <1>2, <1>3, ExecuteOf

LEMMA PlayerType ==
  ASSUME TypeOK, NEW p \in Players,
         PlayerClicks(p) \/ PlayerCloses(p) \/ Quit(p) \/ Join(p)
  PROVE  TypeOK'
<1>1. CASE PlayerClicks(p)
  <2>1. PICK menu \in opened[p], id \in DOMAIN catalog, click \in {"primary", "secondary"} :
           clicks' = clicks \cup {[player |-> p, session |-> link[p].session, menu |-> menu,
                                   product |-> id, click |-> click]}
    BY <1>1 DEF PlayerClicks
  <2>2. /\ menu \in Nat /\ id \in Products /\ link[p].session \in Nat
    BY DEF TypeOK, Products
  <2> QED
    BY <1>1, <2>1, <2>2 DEF PlayerClicks, TypeOK, tables, client
<1>2. CASE PlayerCloses(p)
  BY <1>2 DEF PlayerCloses, TypeOK, tables
<1>3. CASE Quit(p)
  BY <1>3 DEF Quit, TypeOK, tables
<1>4. CASE Join(p)
  BY <1>4 DEF Join, TypeOK, tables
<1> QED
  BY <1>1, <1>2, <1>3, <1>4

LEMMA RestartType ==
  ASSUME TypeOK, Restart
  PROVE  TypeOK'
<1>1. /\ DOMAIN ledgers' = {} /\ ledgers' \in [DOMAIN ledgers' -> Ledgers]
      /\ DOMAIN active_menus' = {} /\ active_menus' \in [DOMAIN active_menus' -> Menus]
      /\ rejected_batches' \in Seq(Entries)
  BY NoEntries DEF Restart
<1> QED
  BY <1>1 DEF Restart, TypeOK

-----------------------------------------------------------------------------
(* What only touches the players leaves the invariant *)

LEMMA UnchangedSound ==
  ASSUME Sound,
         UNCHANGED <<ledgers, pending_reads, active_menus, pending_transactions,
                     rejected_batches, link, opened, inventory, store, outbox, calls, answers>>
  PROVE  Sound'
<1>1. Finite' /\ Distinct' /\ Copies' /\ NothingOfDeparted' /\ ActivePlayersBounded'
      /\ PurchasesAreRefundable'
  BY DEF Sound, Finite, Distinct, Copies, Copy, NothingOfDeparted, ActivePlayersBounded,
         PurchasesAreRefundable
<1>2. Awaited'
  BY DEF Sound, Awaited, Noting, Asked, Abroad
<1>3. Undoable'
  BY DEF Sound, Undoable, EntryNoted, Current, ReadNoted, TransactionNoted, OpenNoted,
         OpensMenu, Shown, Abroad
<1>4. MenusSound' /\ ClosesSound'
  BY DEF Sound, MenusSound, MenuSound, OpensMenu, Shown, ClosesSound, CloseSound, Noting
<1> QED
  BY <1>1, <1>2, <1>3, <1>4 DEF Sound

LEMMA OnlookerSound ==
  ASSUME Sound, NEW p \in Players, PlayerClicks(p) \/ PlayerCloses(p)
  PROVE  Sound'
BY UnchangedSound DEF PlayerClicks, PlayerCloses, tables, client

LEMMA IdleClickSound ==
  ASSUME Sound, NEW c, Click(c),
         UNCHANGED <<active_menus, pending_transactions, rejected_batches, outbox>>
  PROVE  Sound'
BY UnchangedSound DEF Click, client

LEMMA InitSound == Init => Sound
<1> SUFFICES ASSUME Init PROVE Sound
  OBVIOUS
<1>1. DOMAIN ledgers = {} /\ DOMAIN active_menus = {} /\ DOMAIN rejected_batches = {}
  BY NoEntries DEF Init
<1>2. /\ pending_reads = {} /\ pending_transactions = {} /\ outbox = {} /\ calls = {}
      /\ answers = {}
  BY DEF Init
<1>3. Finite
  BY <1>1, <1>2, FS_EmptySet DEF Finite
<1>4. Distinct /\ Awaited /\ Copies /\ NothingOfDeparted
  BY <1>1, <1>2 DEF Distinct, Awaited, Copies, NothingOfDeparted
<1>5. Undoable /\ MenusSound /\ ClosesSound
  BY <1>1, <1>2 DEF Undoable, MenusSound, ClosesSound
<1>6. ActivePlayersBounded
  <2>1. {x.player : x \in pending_reads} = {} /\ Cardinality({}) = 0
    BY <1>2, FS_EmptySet
  <2>2. MaxActivePlayers \in Nat \ {0}
    BY SettingsAssumption
  <2>3. {} \cup {} = {} /\ 0 <= MaxActivePlayers
    BY <2>2
  <2> QED
    BY <1>1, <2>1, <2>3 DEF ActivePlayersBounded
<1>7. PurchasesAreRefundable
  <2> SUFFICES ASSUME NEW p \in Players, NEW r \in Resources
               PROVE  inventory[p][r] + Owed(store[p].value, r) = InitialInventory[r]
    BY DEF PurchasesAreRefundable
  <2>1. inventory[p][r] = InitialInventory[r] /\ store[p].value = <<>>
    BY DEF Init
  <2>2. Owed(<<>>, r) = 0 /\ InitialInventory[r] \in Nat
    BY OwedNothing, SettingsAssumption
  <2> QED
    BY <2>1, <2>2
<1> QED
  BY <1>3, <1>4, <1>5, <1>6, <1>7 DEF Sound

LEMMA RestartSound ==
  ASSUME Sound, Restart
  PROVE  Sound'
<1>1. DOMAIN ledgers' = {} /\ DOMAIN active_menus' = {} /\ DOMAIN rejected_batches' = {}
  BY NoEntries DEF Restart
<1>2. /\ pending_reads' = {} /\ pending_transactions' = {} /\ outbox' = {} /\ calls' = {}
      /\ answers' = {} /\ UNCHANGED <<inventory, store>>
  BY DEF Restart
<1>3. Finite'
  BY <1>1, <1>2, FS_EmptySet DEF Finite
<1>4. Distinct' /\ Awaited' /\ Copies' /\ NothingOfDeparted'
  BY <1>1, <1>2 DEF Distinct, Awaited, Copies, NothingOfDeparted
<1>5. Undoable' /\ MenusSound' /\ ClosesSound'
  BY <1>1, <1>2 DEF Undoable, MenusSound, ClosesSound
<1>6. ActivePlayersBounded'
  <2>1. {x.player : x \in pending_reads'} = {} /\ Cardinality({}) = 0
    BY <1>2, FS_EmptySet
  <2>2. MaxActivePlayers \in Nat \ {0}
    BY SettingsAssumption
  <2>3. {} \cup {} = {} /\ 0 <= MaxActivePlayers
    BY <2>2
  <2> QED
    BY <1>1, <2>1, <2>3 DEF ActivePlayersBounded
<1>7. PurchasesAreRefundable'
  BY <1>2 DEF Sound, PurchasesAreRefundable
<1> QED
  BY <1>3, <1>4, <1>5, <1>6, <1>7 DEF Sound

LEMMA QuitSound ==
  ASSUME TypeOK, Sound, NEW p \in Players, Quit(p)
  PROVE  Sound'
<1>1. /\ UNCHANGED <<ledgers, pending_reads, active_menus, pending_transactions,
                     rejected_batches, inventory, store, outbox, calls, answers>>
      /\ \A q \in Players : link'[q].session = link[q].session
      /\ \A q \in Players : q # p => link'[q] = link[q] /\ opened'[q] = opened[q]
      /\ link'[p].state = "left" /\ link[p].state = "in"
  BY DEF Quit, tables, TypeOK
<1>2. Finite' /\ Distinct' /\ Copies' /\ ActivePlayersBounded' /\ PurchasesAreRefundable'
  BY <1>1 DEF Sound, Finite, Distinct, Copies, Copy, ActivePlayersBounded,
              PurchasesAreRefundable
<1>3. Awaited' /\ ClosesSound'
  <2>1. Awaited'
    BY <1>1 DEF Sound, Awaited, Noting, Asked, Abroad
  <2>2. ClosesSound'
    BY <1>1 DEF Sound, Noting, ClosesSound, CloseSound
  <2> QED
    BY <2>1, <2>2
<1>4. \A q \in Players : \A s : Current(q, s) => Current(q, s)'
  BY <1>1 DEF Current
<1>5. \A q \in Players : \A m : Shown(q, m) => Shown(q, m)'
  BY <1>1 DEF Shown
<1>6. \A i \in DOMAIN rejected_batches : rejected_batches[i].player \in Players
  BY DEF TypeOK, Entries
<1>7. Undoable'
  BY <1>1, <1>4, <1>5, <1>6 DEF Sound, Undoable, EntryNoted, ReadNoted, TransactionNoted,
                                OpenNoted, OpensMenu, Abroad
<1>8. MenusSound'
  BY <1>1, <1>5 DEF Sound, MenusSound, MenuSound, OpensMenu, TypeOK
<1>9. NothingOfDeparted'
  BY <1>1, <1>4 DEF Sound, NothingOfDeparted, Current, TypeOK, Pending
<1> QED
  BY <1>2, <1>3, <1>7, <1>8, <1>9 DEF Sound

(* Nothing is kept for a player that is out. *)
LEMMA JoinSound ==
  ASSUME TypeOK, Sound, NEW p \in Players, Join(p)
  PROVE  Sound'
<1>1. /\ UNCHANGED <<ledgers, pending_reads, active_menus, pending_transactions, opened,
                     rejected_batches, inventory, store, outbox, calls, answers>>
      /\ \A q \in Players : q # p => link'[q] = link[q]
      /\ link[p].state = "out"
  BY DEF Join, tables, TypeOK
<1>2. Finite' /\ Distinct' /\ Copies' /\ ActivePlayersBounded' /\ PurchasesAreRefundable'
  BY <1>1 DEF Sound, Finite, Distinct, Copies, Copy, ActivePlayersBounded,
              PurchasesAreRefundable
<1>3. Awaited' /\ ClosesSound'
  <2>1. Awaited'
    BY <1>1 DEF Sound, Awaited, Noting, Asked, Abroad
  <2>2. ClosesSound'
    BY <1>1 DEF Sound, Noting, ClosesSound, CloseSound
  <2> QED
    BY <2>1, <2>2
<1>4. \A q \in Players : \A s : Current(q, s) => q # p /\ Current(q, s)'
  BY <1>1 DEF Current
<1>5. \A q \in Players : \A m : q # p => (Shown(q, m) => Shown(q, m)')
  BY <1>1 DEF Shown
<1>6. \A i \in DOMAIN rejected_batches :
         /\ rejected_batches[i].player \in Players
         /\ rejected_batches[i].player # p
  <2> TAKE i \in DOMAIN rejected_batches
  <2>1. rejected_batches[i].player \in Players
    BY DEF TypeOK, Entries
  <2>2. Current(rejected_batches[i].player, rejected_batches[i].session)
    BY DEF Sound, Undoable, EntryNoted
  <2> QED
    BY <1>4, <2>1, <2>2
<1>7. Undoable'
  BY <1>1, <1>4, <1>5, <1>6 DEF Sound, Undoable, EntryNoted, ReadNoted, TransactionNoted,
                                OpenNoted, OpensMenu, Abroad
<1>8. \A q \in DOMAIN active_menus : q # p /\ q \in Players
  BY <1>1 DEF Sound, NothingOfDeparted, TypeOK
<1>9. MenusSound'
  BY <1>1, <1>5, <1>8 DEF Sound, MenusSound, MenuSound, OpensMenu
<1>10. NothingOfDeparted'
  BY <1>1, <1>4 DEF Sound, NothingOfDeparted, Current, TypeOK, Pending
<1> QED
  BY <1>2, <1>3, <1>7, <1>9, <1>10 DEF Sound

(* An answer that nobody awaits is dropped. *)
LEMMA IgnoredSound ==
  ASSUME TypeOK, Sound, NEW answer, Ignored(answer), answers' = answers \ {answer},
         UNCHANGED <<catalog, client, clicks, inventory, store, calls>>
  PROVE  Sound'
<1>1. UNCHANGED <<ledgers, pending_reads, active_menus, pending_transactions,
                  rejected_batches, link, opened, inventory, store, outbox, calls>>
  BY DEF Ignored, tables, client
<1>2. \A x \in pending_reads \cup pending_transactions : x.request # answer.request
  BY DEF Ignored
<1>3. Finite'
  BY <1>1, FS_Subset DEF Sound, Finite
<1>4. Distinct' /\ NothingOfDeparted' /\ ActivePlayersBounded' /\ PurchasesAreRefundable'
  BY <1>1 DEF Sound, Distinct, NothingOfDeparted, ActivePlayersBounded,
              PurchasesAreRefundable
<1>5. \A x \in pending_reads \cup pending_transactions :
         x.request \in Numbers(Abroad) => x.request \in Numbers(Abroad)'
  BY <1>1, <1>2 DEF Numbers, Abroad
<1>6. Awaited'
  BY <1>1, <1>5 DEF Sound, Awaited, Noting, Numbers, Asked
<1>7. \A n : n \notin Numbers(Abroad) => n \notin Numbers(Abroad)'
  BY <1>1 DEF Numbers, Abroad
<1>8. Undoable'
  BY <1>1, <1>7 DEF Sound, Undoable, EntryNoted, Current, ReadNoted, TransactionNoted,
                    OpenNoted, OpensMenu, Shown
<1>9. MenusSound' /\ ClosesSound'
  BY <1>1 DEF Sound, MenusSound, MenuSound, OpensMenu, Shown, ClosesSound, CloseSound, Noting
<1>10. Copies'
  BY <1>1 DEF Sound, Copies, Copy
<1> QED
  BY <1>3, <1>4, <1>6, <1>8, <1>9, <1>10 DEF Sound

-----------------------------------------------------------------------------
(* The host's steps *)

(* A call is answered with what is stored, or writes it. *)
LEMMA ExecuteCopies ==
  ASSUME TypeOK, Sound, NEW call \in calls,
         UNCHANGED <<ledgers, pending_reads, outbox>>, calls' = calls \ {call},
         \/ /\ call.type = "get" /\ UNCHANGED <<inventory, store>>
            /\ \E outcome \in {"read", "failed"} :
                  answers' = answers \cup {[type |-> "get", request |-> call.request,
                                            outcome |-> outcome, record |-> store[call.player]]}
         \/ /\ call.type = "transaction"
            /\ answers' = answers \cup {[type |-> "transaction", request |-> call.request]}
            /\ UNCHANGED <<inventory, store>> \/ Carried(call)
  PROVE  Copies' /\ PurchasesAreRefundable'
<1>1. CASE /\ call.type = "get" /\ UNCHANGED <<inventory, store>>
           /\ \E outcome \in {"read", "failed"} :
                 answers' = answers \cup {[type |-> "get", request |-> call.request,
                                           outcome |-> outcome, record |-> store[call.player]]}
  <2>1. PICK answer :
           /\ answers' = answers \cup {answer} /\ answer.request = call.request
           /\ answer.record = store[call.player]
    <3>1. PICK outcome \in {"read", "failed"} :
             answers' = answers \cup {[type |-> "get", request |-> call.request,
                                       outcome |-> outcome, record |-> store[call.player]]}
      BY <1>1
    <3>2. PICK a : a = [type |-> "get", request |-> call.request,
                        outcome |-> outcome, record |-> store[call.player]]
      OBVIOUS
    <3>3. /\ answers' = answers \cup {a} /\ a.request = call.request
          /\ a.record = store[call.player]
      BY <3>1, <3>2
    <3> QED
      BY <3>3
  <2>2. \A q \in Players : store[q].version \in Nat
    BY DEF TypeOK, Records
  <2>3. \A x \in pending_reads : x.player \in Players
    BY DEF TypeOK, Pending
  <2>4. \A x \in pending_reads : x.request = call.request => call.player = x.player
    BY <1>1 DEF Sound, Copies
  <2>5. \A x \in pending_reads : x.request = call.request =>
           Copy(x.player, answer.record.version, answer.record.value)
    BY <2>1, <2>2, <2>3, <2>4 DEF Copy
  <2>6. Copies'
    BY <1>1, <2>1, <2>5 DEF Sound, Copies, Copy
  <2>7. PurchasesAreRefundable'
    BY <1>1 DEF Sound, PurchasesAreRefundable
  <2> QED
    BY <2>6, <2>7
<1>2. CASE /\ call.type = "transaction"
           /\ answers' = answers \cup {[type |-> "transaction", request |-> call.request]}
           /\ UNCHANGED <<inventory, store>>
  BY <1>2 DEF Sound, Copies, Copy, PurchasesAreRefundable
<1>3. CASE /\ call.type = "transaction"
           /\ answers' = answers \cup {[type |-> "transaction", request |-> call.request]}
           /\ Carried(call)
  <2>1. PICK p, deal, moved, written :
           /\ p = call.player /\ deal = call.deal
           /\ moved = Moved(inventory[p], deal.terms, deal.sign)
           /\ written = Written(store[p], deal.records)
    OBVIOUS
  <2>2. call \in Transactions
    BY <1>3 DEF TypeOK, Gets
  <2>3. p \in Players /\ deal \in Deals /\ deal.terms \in Terms /\ deal.sign \in {1, -1}
    BY <2>1, <2>2 DEF Transactions, Deals
  <2>4. /\ store[p].version = call.expected
        /\ inventory' = [inventory EXCEPT ![p] = moved]
        /\ store' = [store EXCEPT ![p] = written]
    BY <1>3, <2>1 DEF Carried
  <2>5. \A q \in Players : store[q].version \in Nat /\ store[q].value \in Tables
    BY DEF TypeOK, Records
  <2>6. written.version = store[p].version + 1 /\ written.value = deal.records
    BY <2>1 DEF Written
  <2>7. /\ store'[p] = written /\ inventory'[p] = moved
        /\ \A q \in Players : q # p => store'[q] = store[q] /\ inventory'[q] = inventory[q]
    BY <2>3, <2>4 DEF TypeOK
  <2>8. ASSUME NEW q \in Players, NEW v, v \in Nat, NEW w, Copy(q, v, w)
        PROVE  Copy(q, v, w)'
    BY <2>3, <2>5, <2>6, <2>7, <2>8 DEF Copy
  <2>9. ASSUME NEW y \in outbox' \cup calls', y.type = "transaction"
        PROVE  /\ y.expected <= store'[y.player].version
               /\ y.expected = store'[y.player].version => Fair(store'[y.player].value, y.deal)
    <3>1. y \in outbox \cup calls
      OBVIOUS
    <3>2. y.player \in Players /\ y.expected \in Nat
      BY <2>9, <3>1 DEF TypeOK, Closes, Opens, Gets, Transactions
    <3>3. /\ y.expected <= store[y.player].version
          /\ y.expected = store[y.player].version => Fair(store[y.player].value, y.deal)
      BY <2>9, <3>1 DEF Sound, Copies
    <3>4. CASE y.player = p
      BY <2>5, <2>6, <2>7, <3>2, <3>3, <3>4
    <3>5. CASE y.player # p
      BY <2>7, <3>2, <3>3, <3>5
    <3> QED
      BY <3>4, <3>5
  <2>10. \A q \in DOMAIN ledgers : q \in Players /\ ledgers[q].version \in Nat
    BY DEF TypeOK, Ledgers
  <2>11. \A q \in DOMAIN ledgers' : Copy(q, ledgers[q].version, ledgers[q].records)'
    BY <2>8, <2>10 DEF Sound, Copies
  <2>12. ASSUME NEW x \in pending_reads', NEW y \in answers', y.type = "get",
                y.request = x.request
         PROVE  Copy(x.player, y.record.version, y.record.value)'
    <3>1. y \in answers /\ x \in pending_reads
      BY <1>3, <2>12
    <3>2. y.record.version \in Nat /\ x.player \in Players
      BY <2>12, <3>1 DEF TypeOK, ReadAnswers, TransactionAnswers, Records, Pending
    <3>3. Copy(x.player, y.record.version, y.record.value)
      BY <2>12, <3>1 DEF Sound, Copies
    <3> QED
      BY <2>8, <3>2, <3>3
  <2>13. \A x \in pending_reads' : \A y \in outbox' \cup calls' :
            y.type = "get" /\ y.request = x.request => y.player = x.player
    BY DEF Sound, Copies
  <2>14. Copies'
    BY <2>9, <2>11, <2>12, <2>13 DEF Copies
  <2>15. ASSUME NEW q \in Players, NEW r \in Resources
         PROVE  inventory'[q][r] + Owed(store'[q].value, r) = InitialInventory[r]
    <3>1. inventory[q][r] + Owed(store[q].value, r) = InitialInventory[r]
      BY DEF Sound, PurchasesAreRefundable
    <3>2. CASE q = p
      <4>1. PICK u, a, b, c, sg, i :
               /\ u = Unit(deal.terms, r) /\ a = Owed(store[p].value, r)
               /\ b = Owed(deal.records, r) /\ c = inventory[p][r] /\ sg = deal.sign
               /\ i = InitialInventory[r]
        OBVIOUS
      <4>2. u \in Int /\ a \in Int /\ c \in Int /\ sg \in {1, -1}
        BY <2>3, <2>5, <4>1, UnitOf, OwedIsInt DEF TypeOK
      <4>3. Fair(store[p].value, deal)
        BY <1>3, <2>1, <2>4 DEF Sound, Copies
      <4>4. b = a + sg * u
        BY <4>1, <4>3 DEF Fair
      <4>5. moved[r] = c - sg * u
        <5>1. PICK inv, terms : inv = inventory[p] /\ terms = deal.terms
          OBVIOUS
        <5>2. inv \in [Resources -> Int] /\ terms \in Terms /\ sg \in {1, -1}
          BY <2>3, <4>1, <5>1 DEF TypeOK
        <5>3. Moved(inv, terms, sg)[r] = inv[r] - sg * Unit(terms, r)
          BY <5>2, MovedOf
        <5> QED
          BY <2>1, <4>1, <5>1, <5>3
      <4>6. c + a = i
        BY <3>1, <3>2, <4>1
      <4>7. (c - sg * u) + (a + sg * u) = i
        <5>1. CASE sg = 1
          BY <4>2, <4>6, <5>1
        <5>2. CASE sg = -1
          BY <4>2, <4>6, <5>2
        <5> QED
          BY <4>2, <5>1, <5>2
      <4>8. inventory'[q][r] = c - sg * u /\ Owed(store'[q].value, r) = a + sg * u
        BY <2>6, <2>7, <3>2, <4>1, <4>4, <4>5
      <4> QED
        BY <4>1, <4>7, <4>8
    <3>3. CASE q # p
      BY <2>7, <3>1, <3>3
    <3> QED
      BY <3>2, <3>3
  <2> QED
    BY <2>14, <2>15 DEF PurchasesAreRefundable
<1> QED
  BY <1>1, <1>2, <1>3

LEMMA ExecuteSound ==
  ASSUME TypeOK, Sound, Execute
  PROVE  Sound'
<1>1. PICK call \in calls :
         /\ calls' = calls \ {call}
         /\ ExecuteGet(call) \/ ExecuteTransaction(call)
         /\ UNCHANGED <<tables, rejected_batches, catalog, client, clicks, outbox>>
  BY DEF Execute
<1>2. UNCHANGED <<ledgers, pending_reads, active_menus, pending_transactions,
                  rejected_batches, link, opened, outbox>>
  BY <1>1 DEF tables, client
<1>3. Copies' /\ PurchasesAreRefundable'
  BY <1>1, <1>2, ExecuteOf, ExecuteCopies
<1>4. \E answer : answers' = answers \cup {answer} /\ answer.request = call.request
  <2>1. CASE ExecuteGet(call)
    <3>1. PICK outcome \in ReadOutcomes :
             answers' = answers \cup {[type |-> "get", request |-> call.request,
                                       outcome |-> outcome, record |-> store[call.player]]}
      BY <2>1 DEF ExecuteGet
    <3>2. PICK a : a = [type |-> "get", request |-> call.request,
                        outcome |-> outcome, record |-> store[call.player]]
      OBVIOUS
    <3>3. answers' = answers \cup {a} /\ a.request = call.request
      BY <3>1, <3>2
    <3> QED
      BY <3>3
  <2>2. CASE ExecuteTransaction(call)
    <3>1. PICK a : a = [type |-> "transaction", request |-> call.request]
      OBVIOUS
    <3>2. answers' = answers \cup {a} /\ a.request = call.request
      BY <2>2, <3>1 DEF ExecuteTransaction
    <3> QED
      BY <3>2
  <2> QED
    BY <1>1, <2>1, <2>2
<1>5. PICK answer : answers' = answers \cup {answer} /\ answer.request = call.request
  BY <1>4
<1>6. Numbers(Abroad)' = Numbers(Abroad)
  BY <1>1, <1>5 DEF Numbers, Abroad
<1>7. Finite'
  BY <1>1, <1>2, <1>5, FS_AddElement, FS_Subset DEF Sound, Finite
<1>8. Distinct' /\ NothingOfDeparted' /\ ActivePlayersBounded'
  BY <1>2 DEF Sound, Distinct, NothingOfDeparted, ActivePlayersBounded
<1>9. Awaited'
  BY <1>2, <1>6 DEF Sound, Awaited, Noting, Numbers, Asked
<1>10. Undoable'
  BY <1>2, <1>6 DEF Sound, Undoable, EntryNoted, Current, ReadNoted, TransactionNoted,
                    OpenNoted, OpensMenu, Shown
<1>11. MenusSound' /\ ClosesSound'
  BY <1>2 DEF Sound, MenusSound, MenuSound, OpensMenu, Shown, ClosesSound, CloseSound, Noting
<1> QED
  BY <1>3, <1>7, <1>8, <1>9, <1>10, <1>11 DEF Sound

(* The player sees the last menu opened for it, which is the one it has.   *)
LEMMA AcceptSound ==
  ASSUME TypeOK, Sound, AcceptBatch
  PROVE  Sound'
<1>1. /\ calls' = calls \cup Asked
      /\ outbox' = {} /\ DOMAIN rejected_batches' = {}
      /\ UNCHANGED <<ledgers, pending_reads, active_menus, pending_transactions, link,
                     inventory, store, answers>>
  BY NoEntries DEF AcceptBatch, Asked, tables
<1>2. Finite'
  <2>1. IsFiniteSet(Asked)
    BY FS_Subset DEF Sound, Finite, Asked
  <2> QED
    BY <1>1, <2>1, FS_EmptySet, FS_Union DEF Sound, Finite
<1>3. Distinct' /\ NothingOfDeparted' /\ ActivePlayersBounded' /\ PurchasesAreRefundable'
  BY <1>1 DEF Sound, Distinct, NothingOfDeparted, ActivePlayersBounded,
              PurchasesAreRefundable
<1>4. \A n : n \in Numbers(Asked) \/ n \in Numbers(Abroad) => n \in Numbers(Abroad)'
  BY <1>1 DEF Numbers, Abroad
<1>5. Awaited'
  <2>1. \A x \in pending_reads \cup pending_transactions : x.request \in Numbers(Abroad)'
    BY <1>4 DEF Sound, Awaited
  <2>2. \A x, kind : ~ Noting(x, kind)'
    BY <1>1 DEF Noting
  <2> QED
    BY <1>1, <2>1, <2>2 DEF Awaited
<1>6. Undoable' /\ ClosesSound'
  BY <1>1 DEF Undoable, ClosesSound
<1>7. Copies'
  BY <1>1 DEF Sound, Copies, Copy, Asked
<1>8. ASSUME NEW p \in DOMAIN active_menus PROVE MenuSound(p)'
  <2>1. MenuSound(p) /\ p \in Players
    BY DEF Sound, MenusSound, TypeOK
  <2>2. PICK m : m = active_menus[p]
    OBVIOUS
  <2>3. Shown(p, m)'
    <3>1. CASE link[p].state = "left"
      BY <1>1, <3>1 DEF Shown
    <3>2. CASE link[p].state # "left"
      <4>1. PICK shown, closed :
               /\ shown = {c.menu : c \in {d \in outbox : d.type = "open" /\ d.player = p}}
               /\ closed = {c.player : c \in {d \in outbox : d.type = "close"}}
        OBVIOUS
      <4>2. p \notin closed
        BY <4>1 DEF Sound, ClosesSound, CloseSound
      <4>3. opened'[p] = IF shown # {} THEN shown ELSE opened[p]
        BY <2>1, <4>1, <4>2 DEF AcceptBatch
      <4>4. CASE shown # {}
        <5>1. Open(p, m.session, m.id) \in outbox
          BY <2>1, <2>2, <4>1, <4>4 DEF MenuSound
        <5>2. m.id \in shown
          BY <4>1, <5>1 DEF Open
        <5> QED
          BY <4>3, <4>4, <5>2 DEF Shown
      <4>5. CASE shown = {}
        <5>1. ~ OpensMenu(p)
          <6> SUFFICES ASSUME NEW i \in DOMAIN rejected_batches,
                              rejected_batches[i].kind = "open",
                              rejected_batches[i].player = p
                       PROVE  FALSE
            BY DEF OpensMenu
          <6>1. OpenNoted(i, rejected_batches[i])
            BY DEF Sound, Undoable, EntryNoted
          <6>2. \A s, id : Open(p, s, id) \notin outbox
            BY <4>1, <4>5 DEF Open
          <6>3. PICK j \in DOMAIN rejected_batches :
                   /\ rejected_batches[j].kind = "transaction"
                   /\ rejected_batches[j].player = p
            BY <6>1, <6>2 DEF OpenNoted
          <6>4. TransactionNoted(rejected_batches[j])
            BY <6>3 DEF Sound, Undoable, EntryNoted
          <6>5. \E x \in pending_transactions : x.player = p
            BY <6>3, <6>4 DEF TransactionNoted
          <6> QED
            BY <2>1, <6>5 DEF MenuSound
        <5>2. Shown(p, m)
          BY <2>1, <2>2, <5>1 DEF MenuSound
        <5> QED
          BY <3>2, <4>3, <4>5, <5>2 DEF Shown
      <4> QED
        BY <4>4, <4>5
    <3> QED
      BY <3>1, <3>2
  <2> QED
    BY <1>1, <2>1, <2>2, <2>3 DEF MenuSound
<1>9. MenusSound'
  BY <1>1, <1>8 DEF MenusSound
<1> QED
  BY <1>2, <1>3, <1>5, <1>6, <1>7, <1>9 DEF Sound

-----------------------------------------------------------------------------
(* Answers *)

Untouched(p) == \A i \in DOMAIN rejected_batches : rejected_batches[i].player # p

(* The batch did nothing for a player that has no menu and waits for       *)
(* nothing, or only for what the host has answered.                        *)
LEMMA Settled ==
  ASSUME TypeOK, Sound, NEW p, p \notin DOMAIN active_menus,
         \A x \in pending_reads \cup pending_transactions :
            x.player = p => x.request \in Numbers(Abroad)
  PROVE  Untouched(p)
<1> SUFFICES ASSUME NEW i \in DOMAIN rejected_batches, rejected_batches[i].player = p
             PROVE  FALSE
  BY DEF Untouched
<1>1. \A j \in DOMAIN rejected_batches :
         EntryNoted(j, rejected_batches[j])
  BY DEF Sound, Undoable
<1>2. ASSUME NEW j \in DOMAIN rejected_batches, rejected_batches[j].player = p,
             rejected_batches[j].kind \in {"read", "transaction"}
      PROVE  FALSE
  <2>1. PICK e : e = rejected_batches[j]
    OBVIOUS
  <2>2. /\ [request |-> e.request, player |-> e.player, session |-> e.session]
              \in pending_reads \cup pending_transactions
        /\ e.request \notin Numbers(Abroad)
    BY <1>1, <1>2, <2>1 DEF EntryNoted, ReadNoted, TransactionNoted
  <2> QED
    BY <1>2, <2>1, <2>2
<1>3. OpenNoted(i, rejected_batches[i]) \/ rejected_batches[i].kind # "open"
  BY <1>1 DEF EntryNoted
<1>4. rejected_batches[i].kind # "open"
  BY <1>2, <1>3 DEF OpenNoted
<1>5. rejected_batches[i].kind \in {"read", "transaction"}
  BY <1>4 DEF TypeOK, Entries
<1> QED
  BY <1>2, <1>5

(* No more players than before. *)
LEMMA FewerActive ==
  ASSUME Sound,
         DOMAIN ledgers' \cup {x.player : x \in pending_reads'}
           \subseteq DOMAIN ledgers \cup {x.player : x \in pending_reads}
  PROVE  ActivePlayersBounded'
<1>1. PICK A, B : /\ A = DOMAIN ledgers \cup {x.player : x \in pending_reads}
                  /\ B = DOMAIN ledgers' \cup {x.player : x \in pending_reads'}
  OBVIOUS
<1>2. B \subseteq A
  BY <1>1
<1>3. IsFiniteSet(A)
  BY <1>1, FinitePlayers, FS_Union DEF Sound, Finite
<1>4. Cardinality(B) <= Cardinality(A) /\ Cardinality(B) \in Nat /\ Cardinality(A) \in Nat
  BY <1>2, <1>3, FS_Subset, FS_CardinalityType
<1>5. Cardinality(A) <= MaxActivePlayers /\ MaxActivePlayers \in Nat
  BY <1>1, SettingsAssumption DEF Sound, ActivePlayersBounded
<1>6. Cardinality(B) <= MaxActivePlayers
  BY <1>4, <1>5
<1> QED
  BY <1>1, <1>6 DEF ActivePlayersBounded

(* A read that fails leaves the player without a ledger. *)
LEMMA ReadFailsSound ==
  ASSUME TypeOK, Sound, NEW answer \in answers, NEW pending \in pending_reads,
         pending.request = answer.request,
         pending_reads' = pending_reads \ {pending}, answers' = answers \ {answer},
         UNCHANGED <<ledgers, active_menus, rejected_batches, outbox, pending_transactions,
                     link, opened, inventory, store, calls>>
  PROVE  Sound'
<1>1. pending.request \in Numbers(Abroad)
  BY DEF Numbers, Abroad
<1>2. \A x \in pending_reads' \cup pending_transactions : x.request # pending.request
  BY DEF Sound, Distinct
<1>3. \A n : n # pending.request => (n \in Numbers(Abroad)' <=> n \in Numbers(Abroad))
  BY DEF Numbers, Abroad
<1>4. \A n : n \notin Numbers(Abroad) => n \notin Numbers(Abroad)'
  BY DEF Numbers, Abroad
<1>5. Finite'
  BY FS_Subset DEF Sound, Finite
<1>6. Distinct' /\ PurchasesAreRefundable'
  BY DEF Sound, Distinct, PurchasesAreRefundable
<1>7. NothingOfDeparted'
  BY DEF Sound, NothingOfDeparted
<1>8. Awaited'
  <2>1. \A x, kind : Noting(x, kind)' <=> Noting(x, kind)
    BY DEF Noting
  <2>2. Numbers(Asked)' = Numbers(Asked)
    BY DEF Numbers, Asked
  <2> QED
    BY <1>2, <1>3, <2>1, <2>2 DEF Sound, Awaited
<1>9. \A e : ReadNoted(e) => ReadNoted(e)'
  BY <1>1, <1>4 DEF ReadNoted
<1>10. Undoable'
  BY <1>4, <1>9 DEF Sound, Undoable, EntryNoted, Current, TransactionNoted,
                    OpenNoted, OpensMenu, Shown
<1>11. MenusSound' /\ ClosesSound'
  BY DEF Sound, MenusSound, MenuSound, OpensMenu, Shown, ClosesSound, CloseSound, Noting
<1>12. Copies'
  BY DEF Sound, Copies, Copy
<1>13. ActivePlayersBounded'
  BY FewerActive
<1> QED
  BY <1>5, <1>6, <1>7, <1>8, <1>10, <1>11, <1>12, <1>13 DEF Sound

(* One entry more at the end. *)
Appended(e, l) ==
  /\ DOMAIN rejected_batches' = DOMAIN rejected_batches \cup {l}
  /\ rejected_batches'[l] = e
  /\ l \in Nat /\ l \notin DOMAIN rejected_batches
  /\ \A i \in DOMAIN rejected_batches :
        rejected_batches'[i] = rejected_batches[i] /\ i \in Nat /\ i < l

LEMMA AppendKeeps ==
  ASSUME TypeOK, NEW e \in Entries, rejected_batches' = Append(rejected_batches, e)
  PROVE  \E l : Appended(e, l)
<1>1. PICK l : l = Len(rejected_batches) + 1
  OBVIOUS
<1>2. /\ l \in Nat /\ DOMAIN rejected_batches = 1 .. (l - 1)
      /\ rejected_batches \in Seq(Entries)
  BY <1>1 DEF TypeOK
<1>3. /\ rejected_batches' \in Seq(Entries) /\ DOMAIN rejected_batches' = 1 .. l
      /\ \A i \in 1 .. (l - 1) : rejected_batches'[i] = rejected_batches[i]
      /\ rejected_batches'[l] = e
  BY <1>1, <1>2, AppendEntry
<1>4. Appended(e, l)
  BY <1>2, <1>3 DEF Appended
<1> QED
  BY <1>4

(* A player of whom nothing is left but, perhaps, its ledger. *)
Freed(p) ==
  /\ p \in Players /\ p \notin DOMAIN active_menus /\ Untouched(p)
  /\ \A x \in pending_reads : x.player # p
  /\ DOMAIN ledgers' \subseteq DOMAIN ledgers
  /\ \A q \in DOMAIN ledgers : q # p => q \in DOMAIN ledgers'
  /\ \A q \in DOMAIN ledgers' : ledgers'[q] = ledgers[q]
  /\ pending_transactions' = {x \in pending_transactions : x.player # p}
  /\ answers' \subseteq answers
  /\ \A x \in pending_reads \cup pending_transactions' :
        x.request \in Numbers(Abroad) => x.request \in Numbers(Abroad)'
  /\ UNCHANGED <<active_menus, link, opened, inventory, store, calls>>

LEMMA FreedEntries ==
  ASSUME TypeOK, Sound, NEW p, Freed(p), pending_reads \subseteq pending_reads',
         outbox \subseteq outbox',
         NEW i \in DOMAIN rejected_batches,
         \A q : OpensMenu(q) => OpensMenu(q)',
         \A j \in DOMAIN rejected_batches :
            /\ j \in DOMAIN rejected_batches' /\ rejected_batches'[j] = rejected_batches[j]
  PROVE  EntryNoted(i, rejected_batches[i])'
<1>1. PICK e : e = rejected_batches[i]
  OBVIOUS
<1>2. EntryNoted(i, e) /\ e.player # p /\ e' = e
  BY <1>1 DEF Sound, Undoable, Freed, Untouched
<1>3. \A n : n \notin Numbers(Abroad) => n \notin Numbers(Abroad)'
  BY DEF Numbers, Abroad, Freed
<1>4. Current(e.player, e.session)'
  BY <1>2 DEF EntryNoted, Current, Freed
<1>5. e.kind = "read" => ReadNoted(e)'
  BY <1>2, <1>3 DEF EntryNoted, ReadNoted
<1>6. e.kind = "open" => OpenNoted(i, e)'
  BY <1>2 DEF EntryNoted, OpenNoted, Freed
<1>7. e.kind = "transaction" => TransactionNoted(e)'
  <2> SUFFICES ASSUME TransactionNoted(e), e.kind = "transaction" PROVE TransactionNoted(e)'
    BY <1>2 DEF EntryNoted
  <2>1. [request |-> e.request, player |-> e.player, session |-> e.session]
           \in pending_transactions'
    BY <1>2 DEF TransactionNoted, Freed
  <2>2. e.player \in DOMAIN ledgers' /\ ledgers'[e.player] = ledgers[e.player]
    BY <1>2 DEF TransactionNoted, Freed
  <2>3. \A m : Shown(e.player, m) => Shown(e.player, m)'
    BY DEF Shown, Freed
  <2> QED
    BY <1>3, <2>1, <2>2, <2>3 DEF TransactionNoted
<1>8. EntryNoted(i, e)'
  BY <1>4, <1>5, <1>6, <1>7 DEF EntryNoted
<1>9. rejected_batches'[i] = e
  BY <1>1
<1> QED
  BY <1>8, <1>9

(* What does not depend on whether the player is read a ledger. *)
LEMMA FreedRest ==
  ASSUME TypeOK, Sound, NEW p, Freed(p),
         \A x \in pending_reads' : x \in pending_reads \/ x.player = p,
         \A c \in outbox' : c \in outbox \/ c.type = "get",
         outbox \subseteq outbox',
         \A q : OpensMenu(q) => OpensMenu(q)'
  PROVE  MenusSound' /\ PurchasesAreRefundable'
<1>1. \A q \in DOMAIN active_menus : \A m : Shown(q, m) => Shown(q, m)'
  BY DEF Shown, Freed
<1>2. ASSUME NEW q \in DOMAIN active_menus PROVE MenuSound(q)'
  <2>1. MenuSound(q) /\ q # p
    BY DEF Sound, MenusSound, Freed
  <2>2. q \in DOMAIN ledgers' /\ ledgers'[q] = ledgers[q]
    BY <2>1 DEF MenuSound, Freed
  <2>3. \A x \in pending_reads' \cup pending_transactions' : x.player # q
    BY <2>1 DEF MenuSound, Freed
  <2>4. UNCHANGED active_menus
    BY DEF Freed
  <2> QED
    BY <1>1, <2>1, <2>2, <2>3, <2>4 DEF MenuSound
<1> QED
  BY <1>2 DEF MenusSound, Sound, PurchasesAreRefundable, Freed

LEMMA FreedSound ==
  ASSUME TypeOK, Sound, NEW p, Freed(p), UNCHANGED <<pending_reads, rejected_batches, outbox>>
  PROVE  Sound'
<1>1. Finite'
  BY FS_Subset DEF Sound, Finite, Freed
<1>2. Distinct'
  BY DEF Sound, Distinct, Freed
<1>3. Awaited'
  <2>1. \A x, kind : Noting(x, kind)' <=> Noting(x, kind)
    BY DEF Noting
  <2>2. Numbers(Asked)' = Numbers(Asked)
    BY DEF Numbers, Asked
  <2> QED
    BY <2>1, <2>2 DEF Sound, Awaited, Freed
<1>4. \A q : OpensMenu(q) => OpensMenu(q)'
  BY DEF OpensMenu
<1>5. Undoable'
  <2>1. \A i \in DOMAIN rejected_batches : EntryNoted(i, rejected_batches[i])'
    BY <1>4, FreedEntries
  <2> QED
    BY <2>1 DEF Sound, Undoable
<1>6. MenusSound' /\ PurchasesAreRefundable'
  BY <1>4, FreedRest
<1>7. ClosesSound'
  BY DEF Sound, ClosesSound, CloseSound, Noting, Freed
<1>8. Copies'
  BY DEF Sound, Copies, Copy, Freed
<1>9. NothingOfDeparted'
  BY DEF Sound, NothingOfDeparted, Freed
<1>10. ActivePlayersBounded'
  BY FewerActive DEF Freed
<1> QED
  BY <1>1, <1>2, <1>3, <1>5, <1>6, <1>7, <1>8, <1>9, <1>10 DEF Sound

(* One player more than there were, unless it has a ledger already. *)
LEMMA OneMoreActive ==
  ASSUME Sound, NEW p, NEW loaded, loaded \subseteq DOMAIN ledgers,
         p \notin loaded => Cardinality(loaded) + Cardinality(pending_reads) < MaxActivePlayers,
         DOMAIN ledgers' = loaded,
         {x.player : x \in pending_reads'} = {x.player : x \in pending_reads} \cup {p}
  PROVE  ActivePlayersBounded'
<1>1. CASE p \in loaded
  BY <1>1, FewerActive
<1>2. CASE p \notin loaded
  <2>1. PICK A, B, U : /\ A = loaded /\ B = {x.player : x \in pending_reads}
                       /\ U = A \cup B
    OBVIOUS
  <2>2. /\ IsFiniteSet(A) /\ IsFiniteSet(B) /\ Cardinality(A) \in Nat /\ Cardinality(B) \in Nat
        /\ Cardinality(B) <= Cardinality(pending_reads) /\ Cardinality(pending_reads) \in Nat
    BY <2>1, FS_Subset, FinitePlayers, FS_CardinalityType DEF Sound, Finite
  <2>3. /\ IsFiniteSet(U) /\ Cardinality(A \cap B) \in Nat
        /\ Cardinality(U) = Cardinality(A) + Cardinality(B) - Cardinality(A \cap B)
    BY <2>1, <2>2, FS_Union, FS_Intersection, FS_CardinalityType
  <2>4. Cardinality(U \cup {p}) \in Nat /\ Cardinality(U \cup {p}) <= Cardinality(U) + 1
    <3>1. IsFiniteSet(U \cup {p})
      BY <2>3, FS_AddElement
    <3>2. Cardinality(U \cup {p}) = IF p \in U THEN Cardinality(U) ELSE Cardinality(U) + 1
      BY <2>3, FS_AddElement, Zenon
    <3>3. Cardinality(U \cup {p}) \in Nat /\ Cardinality(U) \in Nat
      BY <2>3, <3>1, FS_CardinalityType
    <3> QED
      BY <3>2, <3>3
  <2>5. Cardinality(U) \in Nat /\ MaxActivePlayers \in Nat
    BY <2>3, FS_CardinalityType, SettingsAssumption
  <2>6. Cardinality(A) + Cardinality(pending_reads) < MaxActivePlayers
    BY <1>2, <2>1
  <2>7. Cardinality(U \cup {p}) <= MaxActivePlayers
    BY <2>2, <2>3, <2>4, <2>5, <2>6
  <2>8. DOMAIN ledgers' \cup {x.player : x \in pending_reads'} = U \cup {p}
    BY <2>1
  <2> QED
    BY <2>7, <2>8 DEF ActivePlayersBounded
<1> QED
  BY <1>1, <1>2

LEMMA StartSound ==
  ASSUME TypeOK, Sound, NEW p, Freed(p), NEW s, s \in Nat, Current(p, s), ReadStarted(p, s),
         p \notin DOMAIN ledgers' =>
           Cardinality(DOMAIN ledgers') + Cardinality(pending_reads) < MaxActivePlayers
  PROVE  Sound'
<1>1. PICK n : n = NewRequest
  OBVIOUS
<1>2. PICK y, e, c : /\ y = [request |-> n, player |-> p, session |-> s]
                     /\ e = [kind |-> "read", request |-> n, player |-> p, session |-> s]
                     /\ c = [type |-> "get", request |-> n, player |-> p]
  OBVIOUS
<1>3. /\ n \in Nat
      /\ \A x \in pending_reads \cup pending_transactions : x.request # n
      /\ n \notin Numbers(Asked) /\ n \notin Numbers(Abroad)
  BY <1>1, NewRequestIsNew DEF Sound
<1>4. /\ pending_reads' = pending_reads \cup {y}
      /\ rejected_batches' = Append(rejected_batches, e)
      /\ outbox' = outbox \cup {c}
  BY <1>1, <1>2 DEF ReadStarted
<1>5. y.request = n /\ y.player = p /\ y.session = s /\ c.type = "get" /\ c.request = n
      /\ c.player = p /\ e.kind = "read" /\ e.request = n /\ e.player = p /\ e.session = s
  BY <1>2
<1>6. e \in Entries
  BY <1>2, <1>3 DEF Entries, Freed
<1>7. PICK l : Appended(e, l)
  BY <1>4, <1>6, AppendKeeps
<1>8. \A q : OpensMenu(q) => OpensMenu(q)'
  BY <1>7 DEF OpensMenu, Appended
<1>9. Finite'
  BY <1>4, FS_AddElement, FS_Subset DEF Sound, Finite, Freed
<1>10. Distinct'
  BY <1>3, <1>4, <1>5 DEF Sound, Distinct, Freed
<1>11. \A x \in pending_reads \cup pending_transactions, kind \in {"read", "transaction"} :
          Noting(x, kind)' <=> Noting(x, kind)
  BY <1>3, <1>5, <1>7 DEF Noting, Appended
<1>12. Noting(y, "read")'
  BY <1>5, <1>7 DEF Noting, Appended
<1>13. \A k : k \in Numbers(Asked) => k \in Numbers(Asked)'
  BY <1>4 DEF Numbers, Asked
<1>14. n \in Numbers(Asked)'
  BY <1>4, <1>5 DEF Numbers, Asked
<1>15. n \notin Numbers(Abroad)'
  BY <1>3 DEF Numbers, Abroad, Freed
<1>16. Awaited'
  <2>1. ASSUME NEW x \in pending_reads'
        PROVE  x.request \in IF Noting(x, "read")' THEN Numbers(Asked)' ELSE Numbers(Abroad)'
    <3>1. CASE x = y
      BY <1>5, <1>12, <1>14, <3>1
    <3>2. CASE x \in pending_reads
      BY <1>11, <1>13, <3>2 DEF Sound, Awaited, Freed
    <3> QED
      BY <1>4, <3>1, <3>2
  <2>2. ASSUME NEW x \in pending_transactions'
        PROVE  x.request \in IF Noting(x, "transaction")' THEN Numbers(Asked)'
                             ELSE Numbers(Abroad)'
    <3>1. x \in pending_transactions
      BY DEF Freed
    <3> QED
      BY <1>11, <1>13, <3>1 DEF Sound, Awaited, Freed
  <2> QED
    BY <2>1, <2>2 DEF Awaited
<1>17. Undoable'
  <2>1. ASSUME NEW i \in DOMAIN rejected_batches'
        PROVE  EntryNoted(i, rejected_batches[i])'
    <3>1. CASE i \in DOMAIN rejected_batches
      <4>1. \A j \in DOMAIN rejected_batches :
               /\ j \in DOMAIN rejected_batches'
               /\ rejected_batches'[j] = rejected_batches[j]
        BY <1>7 DEF Appended
      <4>2. pending_reads \subseteq pending_reads' /\ outbox \subseteq outbox'
        BY <1>4
      <4> QED
        BY <1>8, <3>1, <4>1, <4>2, FreedEntries
    <3>2. CASE i = l
      <4>1. rejected_batches'[i] = e
        BY <1>7, <3>2 DEF Appended
      <4>2. Current(p, s)'
        BY DEF Current, Freed
      <4>3. ReadNoted(e)'
        BY <1>2, <1>4, <1>5, <1>15 DEF ReadNoted
      <4>4. EntryNoted(i, e)'
        BY <1>5, <4>2, <4>3 DEF EntryNoted
      <4> QED
        BY <4>1, <4>4
    <3> QED
      BY <1>7, <3>1, <3>2 DEF Appended
  <2>2. ASSUME NEW i \in DOMAIN rejected_batches', NEW j \in DOMAIN rejected_batches', i < j,
               rejected_batches'[i].player = rejected_batches'[j].player
        PROVE  /\ rejected_batches'[i].kind = "open"
               /\ rejected_batches'[j].kind = "transaction"
    <3>1. i \in DOMAIN rejected_batches
      BY <1>7, <2>2 DEF Appended
    <3>2. rejected_batches'[i] = rejected_batches[i] /\ rejected_batches[i].player # p
      BY <1>7, <3>1 DEF Appended, Freed, Untouched
    <3>3. j # l
      BY <1>5, <1>7, <2>2, <3>2 DEF Appended
    <3>4. j \in DOMAIN rejected_batches /\ rejected_batches'[j] = rejected_batches[j]
      BY <1>7, <3>3 DEF Appended
    <3> QED
      BY <2>2, <3>1, <3>2, <3>4 DEF Sound, Undoable
  <2> QED
    BY <2>1, <2>2 DEF Undoable
<1>18. MenusSound' /\ PurchasesAreRefundable'
  BY <1>4, <1>5, <1>8, FreedRest
<1>19. ClosesSound'
  <2> SUFFICES ASSUME NEW d \in outbox', d.type = "close" PROVE CloseSound(d)'
    BY DEF ClosesSound
  <2>1. d \in outbox
    BY <1>4, <1>5
  <2>2. CloseSound(d)
    BY <2>1 DEF Sound, ClosesSound
  <2> QED
    BY <1>4, <1>11, <1>12, <2>2 DEF CloseSound, Freed
<1>20. Copies'
  <2>1. \A k \in Asked \cup Abroad : k.request # n
    BY <1>3 DEF Numbers
  <2>2. \A k \in outbox \cup calls : k.type = "get" => k.request # n
    BY <2>1 DEF Asked, Abroad
  <2>3. \A k \in answers' : k.request # n
    BY <2>1 DEF Abroad, Freed
  <2>4. \A q \in DOMAIN ledgers' : Copy(q, ledgers[q].version, ledgers[q].records)'
    BY DEF Sound, Copies, Copy, Freed
  <2>5. ASSUME NEW x \in pending_reads'
        PROVE  /\ \A k \in outbox' \cup calls' :
                     k.type = "get" /\ k.request = x.request => k.player = x.player
               /\ \A k \in answers' :
                     k.type = "get" /\ k.request = x.request =>
                       Copy(x.player, k.record.version, k.record.value)'
    <3>1. CASE x = y
      BY <1>4, <1>5, <2>2, <2>3, <3>1 DEF Freed
    <3>2. CASE x \in pending_reads
      BY <1>3, <1>4, <1>5, <3>2 DEF Sound, Copies, Copy, Freed
    <3> QED
      BY <1>4, <3>1, <3>2
  <2>6. \A k \in outbox' \cup calls' : k.type = "transaction" =>
           /\ k.expected <= store'[k.player].version
           /\ k.expected = store'[k.player].version => Fair(store'[k.player].value, k.deal)
    BY <1>4, <1>5 DEF Sound, Copies, Freed
  <2> QED
    BY <2>4, <2>5, <2>6 DEF Copies
<1>21. NothingOfDeparted'
  BY <1>4, <1>5 DEF Sound, NothingOfDeparted, Current, Freed
<1>22. ActivePlayersBounded'
  <2>1. {x.player : x \in pending_reads'} = {x.player : x \in pending_reads} \cup {p}
    BY <1>4, <1>5
  <2> QED
    BY <2>1, OneMoreActive DEF Freed
<1> QED
  BY <1>9, <1>10, <1>16, <1>17, <1>18, <1>19, <1>20, <1>21, <1>22 DEF Sound

LEMMA EnterSound ==
  ASSUME TypeOK, Sound, NEW p \in Players, Enter(p)
  PROVE  Sound'
<1>1. PICK s : s = link[p].session
  OBVIOUS
<1>2. /\ s \in Nat /\ Current(p, s)
      /\ StartCatalogRead(p, s, DOMAIN ledgers, pending_transactions)
      /\ UNCHANGED <<ledgers, active_menus, pending_transactions, link, opened,
                     inventory, store, calls, answers>>
  BY <1>1 DEF Enter, Current, client, TypeOK
<1>3. CASE UNCHANGED <<pending_reads, rejected_batches, outbox>>
  BY <1>2, <1>3, UnchangedSound
<1>4. CASE ReadStarted(p, s) /\ ~ Barred(p, DOMAIN ledgers, pending_transactions)
  <2>1. /\ p \notin DOMAIN active_menus
        /\ \A x \in pending_reads \cup pending_transactions : x.player # p
        /\ p \notin DOMAIN ledgers =>
             ~ (Cardinality(DOMAIN ledgers) + Cardinality(pending_reads) >= MaxActivePlayers)
    BY <1>4 DEF Barred, Reading
  <2>2. Untouched(p)
    BY <2>1, Settled
  <2>3. Numbers(Abroad)' = Numbers(Abroad)
    BY <1>2 DEF Numbers, Abroad
  <2>4. Freed(p)
    BY <1>2, <2>1, <2>2, <2>3 DEF Freed
  <2>5. /\ Cardinality(DOMAIN ledgers) \in Nat /\ Cardinality(pending_reads) \in Nat
        /\ MaxActivePlayers \in Nat
    BY FS_CardinalityType, SettingsAssumption DEF Sound, Finite
  <2>6. p \notin DOMAIN ledgers' =>
           Cardinality(DOMAIN ledgers') + Cardinality(pending_reads) < MaxActivePlayers
    BY <1>2, <2>1, <2>5
  <2> QED
    BY <1>2, <1>4, <2>4, <2>6, StartSound
<1>5. Finite
  BY DEF Sound
<1> QED
  BY <1>2, <1>3, <1>4, <1>5, StartOf

(* The ledger is gone with the transaction, and read again unless there    *)
(* are too many players by now.                                            *)
LEMMA AnsweredSound ==
  ASSUME TypeOK, Sound, NEW answer \in answers, NEW pending \in pending_transactions,
         pending.request = answer.request,
         pending_transactions' = pending_transactions \ {pending},
         ledgers' = Drop(ledgers, {pending.player}), answers' = answers \ {answer},
         \/ UNCHANGED <<pending_reads, rejected_batches, outbox>>
         \/ /\ ReadStarted(pending.player, pending.session)
            /\ ~ Barred(pending.player, DOMAIN ledgers \ {pending.player},
                        pending_transactions \ {pending}),
         UNCHANGED <<active_menus, link, opened, inventory, store, calls>>
  PROVE  Sound'
<1>1. PICK p, s : p = pending.player /\ s = pending.session
  OBVIOUS
<1>2. p \in Players /\ s \in Nat
  BY <1>1 DEF TypeOK, Pending
<1>3. Current(p, s)
  BY <1>1 DEF Sound, NothingOfDeparted, Current
<1>4. p \notin DOMAIN active_menus
  BY <1>1 DEF Sound, MenusSound, MenuSound
<1>5. \A x \in pending_reads : x.player # p
  BY <1>1 DEF Sound, Distinct
<1>6. pending.request \in Numbers(Abroad)
  BY DEF Numbers, Abroad
<1>7. \A x \in pending_transactions : x.player = p <=> x = pending
  BY <1>1 DEF Sound, Distinct
<1>8. Untouched(p)
  BY <1>4, <1>5, <1>6, <1>7, Settled
<1>9. /\ DOMAIN ledgers' = DOMAIN ledgers \ {p}
      /\ \A q \in DOMAIN ledgers' : ledgers'[q] = ledgers[q]
  BY <1>1 DEF Drop
<1>10. \A x \in pending_reads \cup pending_transactions' :
          x.request \in Numbers(Abroad) => x.request \in Numbers(Abroad)'
  <2>1. \A x \in pending_reads \cup pending_transactions' : x.request # answer.request
    BY DEF Sound, Distinct
  <2> QED
    BY <2>1 DEF Numbers, Abroad
<1>11. pending_transactions' = {x \in pending_transactions : x.player # p}
  BY <1>7
<1>12. Freed(p)
  BY <1>2, <1>4, <1>5, <1>8, <1>9, <1>10, <1>11 DEF Freed
<1>13. CASE UNCHANGED <<pending_reads, rejected_batches, outbox>>
  BY <1>12, <1>13, FreedSound
<1>14. CASE /\ ReadStarted(p, s)
            /\ ~ Barred(p, DOMAIN ledgers \ {p}, pending_transactions \ {pending})
  <2>1. ~ (Cardinality(DOMAIN ledgers') + Cardinality(pending_reads) >= MaxActivePlayers)
    BY <1>9, <1>14 DEF Barred
  <2>2. /\ Cardinality(DOMAIN ledgers') \in Nat /\ Cardinality(pending_reads) \in Nat
        /\ MaxActivePlayers \in Nat
    BY <1>9, FS_CardinalityType, FS_Subset, SettingsAssumption DEF Sound, Finite
  <2>3. p \notin DOMAIN ledgers' =>
           Cardinality(DOMAIN ledgers') + Cardinality(pending_reads) < MaxActivePlayers
    BY <2>1, <2>2
  <2> QED
    BY <1>2, <1>3, <1>12, <1>14, <2>3, StartSound
<1> QED
  BY <1>1, <1>13, <1>14

LEMMA AppendedPairs ==
  ASSUME Sound, NEW e, NEW l, Appended(e, l),
         \A i \in DOMAIN rejected_batches : rejected_batches[i].player = e.player =>
            rejected_batches[i].kind = "open" /\ e.kind = "transaction"
  PROVE  \A i, j \in DOMAIN rejected_batches' :
            i < j /\ rejected_batches'[i].player = rejected_batches'[j].player =>
              rejected_batches'[i].kind = "open" /\ rejected_batches'[j].kind = "transaction"
<1> SUFFICES ASSUME NEW i \in DOMAIN rejected_batches', NEW j \in DOMAIN rejected_batches', i < j,
                    rejected_batches'[i].player = rejected_batches'[j].player
             PROVE  /\ rejected_batches'[i].kind = "open"
                    /\ rejected_batches'[j].kind = "transaction"
  OBVIOUS
<1>1. i \in DOMAIN rejected_batches /\ rejected_batches'[i] = rejected_batches[i]
  BY DEF Appended
<1>2. CASE j = l
  BY <1>1, <1>2 DEF Appended
<1>3. CASE j \in DOMAIN rejected_batches
  BY <1>1, <1>3 DEF Appended, Sound, Undoable
<1> QED
  BY <1>2, <1>3 DEF Appended

(* A menu is opened for a player the batch has not touched yet. *)
LEMMA ReadOpensSound ==
  ASSUME TypeOK, Sound, NEW answer \in answers, answer.type = "get",
         NEW pending \in pending_reads, pending.request = answer.request,
         pending_reads' = pending_reads \ {pending}, answers' = answers \ {answer},
         ReadOpens(answer, pending),
         UNCHANGED <<pending_transactions, link, opened, inventory, store, calls>>
  PROVE  Sound'
<1>1. PICK p, s, v, w : /\ p = pending.player /\ s = pending.session
                        /\ v = answer.record.version /\ w = answer.record.value
  OBVIOUS
<1>2. PICK g, m, e, o : /\ g = [session |-> s, version |-> v, records |-> w]
                        /\ m = [session |-> s, id |-> v]
                        /\ e = [kind |-> "open", player |-> p, session |-> s]
                        /\ o = Open(p, s, v)
  OBVIOUS
<1>3. p \in Players /\ s \in Nat
  BY <1>1 DEF TypeOK, Pending
<1>4. /\ ledgers' = Put(ledgers, p, g) /\ active_menus' = Put(active_menus, p, m)
      /\ rejected_batches' = Append(rejected_batches, e)
      /\ outbox' = outbox \cup {o}
  BY <1>1, <1>2 DEF ReadOpens
<1>5. /\ g.session = s /\ g.version = v /\ g.records = w /\ m.session = s /\ m.id = v
      /\ e.kind = "open" /\ e.player = p /\ e.session = s
      /\ o.type = "open" /\ o.player = p /\ o = Open(p, m.session, m.id)
  BY <1>2 DEF Open
<1>6. /\ DOMAIN ledgers' = DOMAIN ledgers \cup {p} /\ ledgers'[p] = g
      /\ \A q \in DOMAIN ledgers : q # p => ledgers'[q] = ledgers[q]
  BY <1>4 DEF Put
<1>7. /\ DOMAIN active_menus' = DOMAIN active_menus \cup {p} /\ active_menus'[p] = m
      /\ \A q \in DOMAIN active_menus : q # p => active_menus'[q] = active_menus[q]
  BY <1>4 DEF Put
<1>8. e \in Entries
  BY <1>2, <1>3 DEF Entries
<1>9. PICK l : Appended(e, l)
  BY <1>4, <1>8, AppendKeeps
<1>10. Current(p, s)
  BY <1>1 DEF Sound, NothingOfDeparted, Current
<1>11. p \notin DOMAIN active_menus
  BY <1>1 DEF Sound, MenusSound, MenuSound
<1>12. pending.request \in Numbers(Abroad)
  BY DEF Numbers, Abroad
<1>13. /\ \A x \in pending_reads' \cup pending_transactions : x.player # p
       /\ \A x \in pending_reads' \cup pending_transactions : x.request # pending.request
  BY <1>1 DEF Sound, Distinct
<1>14. Untouched(p)
  BY <1>1, <1>11, <1>12, <1>13, Settled
<1>15. \A c \in outbox : c.type = "close" => c.player # p
  <2> SUFFICES ASSUME NEW c \in outbox, c.type = "close", c.player = p PROVE FALSE
    OBVIOUS
  <2>1. Noting(pending, "read")
    BY <1>1 DEF Sound, ClosesSound, CloseSound
  <2>2. PICK i \in DOMAIN rejected_batches :
           /\ rejected_batches[i].kind = "read"
           /\ rejected_batches[i].request = pending.request
    BY <2>1 DEF Noting
  <2>3. ReadNoted(rejected_batches[i])
    BY <2>2 DEF Sound, Undoable, EntryNoted
  <2> QED
    BY <1>12, <2>2, <2>3 DEF ReadNoted
<1>16. Copy(p, v, w)
  BY <1>1 DEF Sound, Copies
<1>17. \A q : OpensMenu(q) => OpensMenu(q)'
  BY <1>9 DEF OpensMenu, Appended
<1>18. OpensMenu(p)'
  BY <1>5, <1>9 DEF OpensMenu, Appended
<1>19. \A x, kind : kind \in {"read", "transaction"} => (Noting(x, kind)' <=> Noting(x, kind))
  BY <1>5, <1>9 DEF Noting, Appended
<1>20. Numbers(Asked)' = Numbers(Asked)
  BY <1>4, <1>5 DEF Numbers, Asked
<1>21. \A k : k # pending.request /\ k \in Numbers(Abroad) => k \in Numbers(Abroad)'
  BY DEF Numbers, Abroad
<1>22. \A k : k \notin Numbers(Abroad) => k \notin Numbers(Abroad)'
  BY DEF Numbers, Abroad
<1>23. Finite'
  BY <1>4, <1>6, FS_AddElement, FS_Subset DEF Sound, Finite
<1>24. Distinct' /\ PurchasesAreRefundable'
  BY DEF Sound, Distinct, PurchasesAreRefundable
<1>25. Awaited'
  BY <1>13, <1>19, <1>20, <1>21 DEF Sound, Awaited
<1>26. \A q, k : Shown(q, k)' <=> Shown(q, k)
  BY DEF Shown
<1>27. ASSUME NEW i \in DOMAIN rejected_batches
       PROVE  EntryNoted(i, rejected_batches[i])'
  <2>1. PICK f : f = rejected_batches[i]
    OBVIOUS
  <2>2. EntryNoted(i, f) /\ f.player # p
    BY <1>14, <2>1 DEF Sound, Undoable, Untouched
  <2>3. Current(f.player, f.session)'
    BY <2>2 DEF EntryNoted, Current
  <2>4. f.kind = "read" => ReadNoted(f)'
    BY <1>1, <1>22, <2>2 DEF EntryNoted, ReadNoted
  <2>5. f.kind = "open" => OpenNoted(i, f)'
    BY <1>4, <1>7, <1>9, <2>2 DEF EntryNoted, OpenNoted, Appended
  <2>6. f.kind = "transaction" => TransactionNoted(f)'
    BY <1>6, <1>17, <1>22, <1>26, <2>2 DEF EntryNoted, TransactionNoted
  <2>7. EntryNoted(i, f)'
    BY <2>3, <2>4, <2>5, <2>6 DEF EntryNoted
  <2>8. rejected_batches'[i] = f
    BY <1>9, <2>1 DEF Appended
  <2> QED
    BY <2>7, <2>8
<1>28. EntryNoted(l, rejected_batches[l])'
  <2>1. Current(p, s)'
    BY <1>10 DEF Current
  <2>2. OpenNoted(l, e)'
    BY <1>2, <1>4, <1>5, <1>7 DEF OpenNoted
  <2>3. EntryNoted(l, e)'
    BY <1>5, <2>1, <2>2 DEF EntryNoted
  <2>4. rejected_batches'[l] = e
    BY <1>9 DEF Appended
  <2> QED
    BY <2>3, <2>4
<1>29. Undoable'
  <2>1. \A i \in DOMAIN rejected_batches' : EntryNoted(i, rejected_batches[i])'
    BY <1>9, <1>27, <1>28 DEF Appended
  <2>2. \A i \in DOMAIN rejected_batches : rejected_batches[i].player = e.player =>
           rejected_batches[i].kind = "open" /\ e.kind = "transaction"
    BY <1>5, <1>14 DEF Untouched
  <2>3. \A i, j \in DOMAIN rejected_batches' :
           i < j /\ rejected_batches'[i].player = rejected_batches'[j].player =>
             rejected_batches'[i].kind = "open" /\ rejected_batches'[j].kind = "transaction"
    BY <1>9, <2>2, AppendedPairs
  <2> QED
    BY <2>1, <2>3 DEF Undoable
<1>30. MenusSound'
  <2>1. ASSUME NEW q \in DOMAIN active_menus PROVE MenuSound(q)'
    <3>1. MenuSound(q) /\ q # p
      BY <1>11 DEF Sound, MenusSound
    <3> QED
      BY <1>4, <1>5, <1>6, <1>7, <1>17, <1>26, <3>1 DEF MenuSound
  <2>2. MenuSound(p)'
    <3>1. active_menus'[p] = [session |-> ledgers'[p].session, id |-> ledgers'[p].version]
      BY <1>2, <1>5, <1>6, <1>7
    <3>2. Open(p, active_menus'[p].session, active_menus'[p].id) \in outbox'
      BY <1>4, <1>5, <1>7
    <3> QED
      BY <1>6, <1>13, <1>18, <3>1, <3>2 DEF MenuSound
  <2> QED
    BY <1>7, <2>1, <2>2 DEF MenusSound
<1>31. ClosesSound'
  <2> SUFFICES ASSUME NEW c \in outbox', c.type = "close" PROVE CloseSound(c)'
    BY DEF ClosesSound
  <2>1. c \in outbox /\ c.player # p
    BY <1>4, <1>5, <1>15
  <2>2. CloseSound(c)
    BY <2>1 DEF Sound, ClosesSound
  <2> QED
    BY <1>7, <1>19, <2>1, <2>2 DEF CloseSound
<1>32. Copies'
  <2>1. \A q \in DOMAIN ledgers' : Copy(q, ledgers[q].version, ledgers[q].records)'
    BY <1>5, <1>6, <1>16 DEF Sound, Copies, Copy
  <2>2. \A k \in outbox' : k.type \in {"get", "transaction"} => k \in outbox
    BY <1>4, <1>5
  <2> QED
    BY <2>1, <2>2 DEF Sound, Copies, Copy
<1>33. NothingOfDeparted'
  BY <1>5, <1>6, <1>7, <1>10 DEF Sound, NothingOfDeparted, Current
<1>34. ActivePlayersBounded'
  <2>1. DOMAIN ledgers' \cup {x.player : x \in pending_reads'}
          \subseteq DOMAIN ledgers \cup {x.player : x \in pending_reads}
    BY <1>1, <1>6
  <2> QED
    BY <2>1, FewerActive
<1> QED
  BY <1>23, <1>24, <1>25, <1>29, <1>30, <1>31, <1>32, <1>33, <1>34 DEF Sound

LEMMA DeliverSound ==
  ASSUME TypeOK, Sound, Deliver
  PROVE  Sound'
<1>1. PICK answer \in answers :
         /\ answers' = answers \ {answer}
         /\ StorageRead(answer) \/ TransactionAnswered(answer) \/ Ignored(answer)
         /\ UNCHANGED <<catalog, client, clicks, inventory, store, calls>>
  BY DEF Deliver
<1>2. UNCHANGED <<link, opened, inventory, store, calls>>
  BY <1>1 DEF client
<1>3. CASE StorageRead(answer)
  <2>1. PICK pending \in pending_reads :
           /\ answer.type = "get" /\ UNCHANGED pending_transactions
           /\ pending.request = answer.request
           /\ pending_reads' = pending_reads \ {pending}
           /\ \/ ReadOpens(answer, pending)
              \/ UNCHANGED <<ledgers, active_menus, rejected_batches, outbox>>
    BY <1>3, StorageReadOf
  <2>2. CASE ReadOpens(answer, pending)
    BY <1>1, <1>2, <2>1, <2>2, ReadOpensSound
  <2>3. CASE UNCHANGED <<ledgers, active_menus, rejected_batches, outbox>>
    BY <1>1, <1>2, <2>1, <2>3, ReadFailsSound
  <2> QED
    BY <2>1, <2>2, <2>3
<1>4. CASE TransactionAnswered(answer)
  <2>1. Finite
    BY DEF Sound
  <2>2. PICK pending \in pending_transactions :
           /\ pending.request = answer.request /\ UNCHANGED active_menus
           /\ pending_transactions' = pending_transactions \ {pending}
           /\ ledgers' = Drop(ledgers, {pending.player})
           /\ \/ UNCHANGED <<pending_reads, rejected_batches, outbox>>
              \/ /\ ReadStarted(pending.player, pending.session)
                 /\ ~ Barred(pending.player, DOMAIN ledgers \ {pending.player},
                             pending_transactions \ {pending})
    BY <1>4, <2>1, TransactionAnsweredOf
  <2> QED
    BY <1>1, <1>2, <2>2, AnsweredSound
<1>5. CASE Ignored(answer)
  BY <1>1, <1>5, IgnoredSound
<1> QED
  BY <1>1, <1>3, <1>4, <1>5

-----------------------------------------------------------------------------
(* Clicks *)

(* The menu is closed for a transaction that can be undone to it. *)
LEMMA ClickTakesSound ==
  ASSUME TypeOK, Sound, NEW click \in clicks, NEW n, n = NewRequest, NEW deal,
         ClickTakes(click, n, deal),
         UNCHANGED <<ledgers, pending_reads, link, opened, inventory, store, calls, answers>>
  PROVE  Sound'
<1>1. PICK p, s : p = click.player /\ s = click.session
  OBVIOUS
<1>2. p \in Players /\ s \in Nat
  BY <1>1 DEF TypeOK
<1>3. PICK x, e, k, t :
         /\ x = [request |-> n, player |-> p, session |-> s]
         /\ e = [kind |-> "transaction", request |-> n, player |-> p, session |-> s,
                 menu |-> active_menus[p]]
         /\ k = Close(p, s)
         /\ t = [type |-> "transaction", request |-> n, player |-> p, session |-> s,
                 expected |-> ledgers[p].version, deal |-> deal]
  OBVIOUS
<1>4. /\ active_menus' = Drop(active_menus, {p})
      /\ pending_transactions' = pending_transactions \cup {x}
      /\ rejected_batches' = Append(rejected_batches, e)
      /\ outbox' = outbox \cup {k, t}
  BY <1>1, <1>3 DEF ClickTakes
<1>5. /\ x.request = n /\ x.player = p /\ x.session = s
      /\ e.kind = "transaction" /\ e.request = n /\ e.player = p /\ e.session = s
      /\ e.menu = active_menus[p]
      /\ k.type = "close" /\ k.player = p
      /\ t.type = "transaction" /\ t.request = n /\ t.player = p
      /\ t.expected = ledgers[p].version /\ t.deal = deal
  BY <1>3 DEF Close
<1>6. /\ DOMAIN active_menus' = DOMAIN active_menus \ {p}
      /\ \A q \in DOMAIN active_menus' : active_menus'[q] = active_menus[q]
  BY <1>4 DEF Drop
<1>7. /\ Fair(ledgers[p].records, deal) /\ p \in DOMAIN ledgers /\ p \in DOMAIN active_menus
      /\ active_menus[p] = [session |-> s, id |-> click.menu]
  BY <1>1, TakenDeal
<1>8. /\ n \in Nat
      /\ \A y \in pending_reads \cup pending_transactions : y.request # n
      /\ n \notin Numbers(Asked) /\ n \notin Numbers(Abroad)
  BY NewRequestIsNew DEF Sound
<1>9. MenuSound(p)
  BY <1>7 DEF Sound, MenusSound
<1>10. /\ ledgers[p].session = s
       /\ active_menus[p] = [session |-> s, id |-> ledgers[p].version]
       /\ \A y \in pending_reads \cup pending_transactions : y.player # p
       /\ OpensMenu(p) \/ Shown(p, active_menus[p])
  BY <1>7, <1>9 DEF MenuSound
<1>11. e \in Entries
  BY <1>2, <1>3, <1>7, <1>8 DEF Entries, TypeOK
<1>12. PICK l : Appended(e, l)
  BY <1>4, <1>11, AppendKeeps
<1>13. Current(p, s)
  BY <1>7, <1>10 DEF Sound, NothingOfDeparted, Current
<1>14. ASSUME NEW i \in DOMAIN rejected_batches, rejected_batches[i].player = p
       PROVE  rejected_batches[i].kind = "open"
  <2>1. EntryNoted(i, rejected_batches[i])
    BY DEF Sound, Undoable
  <2>2. rejected_batches[i].kind \notin {"read", "transaction"}
    BY <1>10, <1>14, <2>1 DEF EntryNoted, ReadNoted, TransactionNoted
  <2> QED
    BY <2>2 DEF TypeOK, Entries
<1>15. \A q : OpensMenu(q) => OpensMenu(q)'
  BY <1>12 DEF OpensMenu, Appended
<1>16. /\ \A y : Noting(y, "read")' <=> Noting(y, "read")
       /\ \A y \in pending_transactions : Noting(y, "transaction")' <=> Noting(y, "transaction")
       /\ Noting(x, "transaction")'
  BY <1>5, <1>8, <1>12 DEF Noting, Appended
<1>17. \A i : i \in Numbers(Asked) => i \in Numbers(Asked)'
  BY <1>4 DEF Numbers, Asked
<1>18. n \in Numbers(Asked)'
  BY <1>4, <1>5 DEF Numbers, Asked
<1>19. Numbers(Abroad)' = Numbers(Abroad)
  BY DEF Numbers, Abroad
<1>20. \A q, m : Shown(q, m)' <=> Shown(q, m)
  BY DEF Shown
<1>21. Finite'
  <2>1. IsFiniteSet(outbox \cup {k, t})
    <3>1. outbox \cup {k, t} = (outbox \cup {k}) \cup {t}
      OBVIOUS
    <3> QED
      BY <3>1, FS_AddElement DEF Sound, Finite
  <2>2. IsFiniteSet(pending_transactions')
    BY <1>4, FS_AddElement DEF Sound, Finite
  <2> QED
    BY <1>4, <2>1, <2>2 DEF Sound, Finite
<1>22. Distinct'
  BY <1>4, <1>5, <1>8, <1>10 DEF Sound, Distinct
<1>23. Awaited'
  <2>1. \A y \in pending_reads :
           y.request \in IF Noting(y, "read")' THEN Numbers(Asked)' ELSE Numbers(Abroad)'
    BY <1>16, <1>17, <1>19 DEF Sound, Awaited
  <2>2. ASSUME NEW y \in pending_transactions'
        PROVE  y.request \in IF Noting(y, "transaction")' THEN Numbers(Asked)'
                             ELSE Numbers(Abroad)'
    <3>1. CASE y = x
      BY <1>5, <1>16, <1>18, <3>1
    <3>2. CASE y \in pending_transactions
      BY <1>16, <1>17, <1>19, <3>2 DEF Sound, Awaited
    <3> QED
      BY <1>4, <3>1, <3>2
  <2> QED
    BY <2>1, <2>2 DEF Awaited
<1>24. ASSUME NEW i \in DOMAIN rejected_batches
       PROVE  EntryNoted(i, rejected_batches[i])'
  <2>1. PICK f : f = rejected_batches[i]
    OBVIOUS
  <2>2. EntryNoted(i, f)
    BY <2>1 DEF Sound, Undoable
  <2>3. Current(f.player, f.session)'
    BY <2>2 DEF EntryNoted, Current
  <2>4. f.kind = "read" => ReadNoted(f)'
    BY <1>19, <2>2 DEF EntryNoted, ReadNoted
  <2>5. f.kind = "open" => OpenNoted(i, f)'
    <3>1. CASE f.player = p
      BY <1>5, <1>12, <3>1 DEF OpenNoted, Appended
    <3>2. CASE f.player # p
      BY <1>4, <1>6, <1>12, <2>2, <3>2 DEF EntryNoted, OpenNoted, Appended
    <3> QED
      BY <3>1, <3>2
  <2>6. f.kind = "transaction" => TransactionNoted(f)'
    BY <1>4, <1>15, <1>19, <1>20, <2>2 DEF EntryNoted, TransactionNoted
  <2>7. EntryNoted(i, f)'
    BY <2>3, <2>4, <2>5, <2>6 DEF EntryNoted
  <2>8. rejected_batches'[i] = f
    BY <1>12, <2>1 DEF Appended
  <2> QED
    BY <2>7, <2>8
<1>25. EntryNoted(l, rejected_batches[l])'
  <2>1. Current(p, s)'
    BY <1>13 DEF Current
  <2>2. TransactionNoted(e)'
    <3>1. [request |-> e.request, player |-> e.player, session |-> e.session]
             \in pending_transactions'
      BY <1>3, <1>4, <1>5
    <3>2. e.menu = [session |-> e.session, id |-> ledgers'[e.player].version]
      BY <1>5, <1>10
    <3>3. OpensMenu(p)' \/ Shown(p, e.menu)'
      BY <1>5, <1>10, <1>15, <1>20
    <3> QED
      BY <1>5, <1>7, <1>8, <1>10, <1>19, <3>1, <3>2, <3>3 DEF TransactionNoted
  <2>3. EntryNoted(l, e)'
    BY <1>5, <2>1, <2>2 DEF EntryNoted
  <2>4. rejected_batches'[l] = e
    BY <1>12 DEF Appended
  <2> QED
    BY <2>3, <2>4
<1>26. Undoable'
  <2>1. \A i \in DOMAIN rejected_batches' : EntryNoted(i, rejected_batches[i])'
    BY <1>12, <1>24, <1>25 DEF Appended
  <2>2. \A i \in DOMAIN rejected_batches : rejected_batches[i].player = e.player =>
           rejected_batches[i].kind = "open" /\ e.kind = "transaction"
    BY <1>5, <1>14
  <2>3. \A i, j \in DOMAIN rejected_batches' :
           i < j /\ rejected_batches'[i].player = rejected_batches'[j].player =>
             rejected_batches'[i].kind = "open" /\ rejected_batches'[j].kind = "transaction"
    BY <1>12, <2>2, AppendedPairs
  <2> QED
    BY <2>1, <2>3 DEF Undoable
<1>27. MenusSound'
  <2> SUFFICES ASSUME NEW q \in DOMAIN active_menus' PROVE MenuSound(q)'
    BY DEF MenusSound
  <2>1. MenuSound(q) /\ q # p /\ active_menus'[q] = active_menus[q]
    BY <1>6 DEF Sound, MenusSound
  <2> QED
    BY <1>4, <1>5, <1>15, <1>20, <2>1 DEF MenuSound
<1>28. ClosesSound'
  <2> SUFFICES ASSUME NEW d \in outbox', d.type = "close" PROVE CloseSound(d)'
    BY DEF ClosesSound
  <2>1. CASE d \in outbox
    BY <1>6, <1>16, <2>1 DEF Sound, ClosesSound, CloseSound
  <2>2. CASE d = k
    BY <1>5, <1>6, <1>10, <2>2 DEF CloseSound
  <2> QED
    BY <1>4, <1>5, <2>1, <2>2
<1>29. Copies'
  <2>1. \A d \in outbox' : d.type = "get" => d \in outbox
    BY <1>4, <1>5
  <2>2. \A d \in outbox' : d.type = "transaction" => d \in outbox \/ d = t
    BY <1>4, <1>5
  <2>3. /\ t.expected <= store[t.player].version
        /\ t.expected = store[t.player].version => Fair(store[t.player].value, t.deal)
    BY <1>5, <1>7 DEF Sound, Copies, Copy
  <2>4. \A q \in DOMAIN ledgers' : Copy(q, ledgers[q].version, ledgers[q].records)'
    BY DEF Sound, Copies, Copy
  <2>5. \A y \in pending_reads' :
           /\ \A d \in outbox' \cup calls' :
                 d.type = "get" /\ d.request = y.request => d.player = y.player
           /\ \A d \in answers' :
                 d.type = "get" /\ d.request = y.request =>
                   Copy(y.player, d.record.version, d.record.value)'
    BY <2>1 DEF Sound, Copies, Copy
  <2>6. \A d \in outbox' \cup calls' : d.type = "transaction" =>
           /\ d.expected <= store'[d.player].version
           /\ d.expected = store'[d.player].version => Fair(store'[d.player].value, d.deal)
    BY <2>2, <2>3 DEF Sound, Copies
  <2> QED
    BY <2>4, <2>5, <2>6 DEF Copies
<1>30. NothingOfDeparted'
  BY <1>4, <1>5, <1>6, <1>13 DEF Sound, NothingOfDeparted, Current
<1>31. ActivePlayersBounded' /\ PurchasesAreRefundable'
  BY FewerActive DEF Sound, PurchasesAreRefundable
<1> QED
  BY <1>21, <1>22, <1>23, <1>26, <1>27, <1>28, <1>29, <1>30, <1>31 DEF Sound

LEMMA ClickSound ==
  ASSUME TypeOK, Sound, NEW click \in clicks, Click(click)
  PROVE  Sound'
<1>1. UNCHANGED <<ledgers, pending_reads, link, opened, inventory, store, calls, answers>>
  BY DEF Click, client
<1>2. CASE UNCHANGED <<active_menus, pending_transactions, rejected_batches, outbox>>
  BY <1>2, IdleClickSound
<1>3. CASE \E deal : ClickTakes(click, NewRequest, deal)
  <2>1. PICK n, deal : n = NewRequest /\ ClickTakes(click, n, deal)
    BY <1>3
  <2> QED
    BY <1>1, <2>1, ClickTakesSound
<1> QED
  BY <1>2, <1>3, ClickOf

-----------------------------------------------------------------------------
(* Leaving *)

(* The entries of other players, all of them and in their order. *)
OthersKept(h, p) ==
  /\ \A i \in DOMAIN rejected_batches' :
        /\ i \in Nat /\ h[i] \in DOMAIN rejected_batches /\ h[i] \in Nat
        /\ rejected_batches'[i] = rejected_batches[h[i]] /\ rejected_batches'[i].player # p
  /\ \A i, j \in DOMAIN rejected_batches' : i < j => h[i] < h[j]
  /\ \A j \in DOMAIN rejected_batches : rejected_batches[j].player # p =>
        \E i \in DOMAIN rejected_batches' : h[i] = j

Cleared(p) ==
  /\ DOMAIN ledgers' = DOMAIN ledgers \ {p}
  /\ \A q \in DOMAIN ledgers' : ledgers'[q] = ledgers[q]
  /\ DOMAIN active_menus' = DOMAIN active_menus \ {p}
  /\ \A q \in DOMAIN active_menus' : active_menus'[q] = active_menus[q]
  /\ pending_reads' = {x \in pending_reads : x.player # p}
  /\ pending_transactions' = {x \in pending_transactions : x.player # p}
  /\ \E h : OthersKept(h, p)

(* All there is of a player is of its session, so all of it goes. *)
LEMMA ClearAll ==
  ASSUME TypeOK, Sound, NEW p, NEW s, s = link[p].session, Clear(p, s)
  PROVE  Cleared(p)
<1>1. {q \in {p} \cap DOMAIN ledgers : ledgers[q].session = s} = {p} \cap DOMAIN ledgers
  BY DEF Sound, NothingOfDeparted
<1>2. {q \in {p} \cap DOMAIN active_menus : active_menus[q].session = s}
         = {p} \cap DOMAIN active_menus
  BY DEF Sound, NothingOfDeparted
<1>3. /\ ledgers' = Drop(ledgers, {p} \cap DOMAIN ledgers)
      /\ active_menus' = Drop(active_menus, {p} \cap DOMAIN active_menus)
  BY <1>1, <1>2 DEF Clear
<1>4. /\ DOMAIN ledgers' = DOMAIN ledgers \ {p}
      /\ \A q \in DOMAIN ledgers' : ledgers'[q] = ledgers[q]
  BY <1>3 DEF Drop
<1>5. /\ DOMAIN active_menus' = DOMAIN active_menus \ {p}
      /\ \A q \in DOMAIN active_menus' : active_menus'[q] = active_menus[q]
  BY <1>3 DEF Drop
<1>6. \A x \in pending_reads \cup pending_transactions : x.player = p => x.session = s
  BY DEF Sound, NothingOfDeparted
<1>7. /\ pending_reads' = {x \in pending_reads : x.player # p}
      /\ pending_transactions' = {x \in pending_transactions : x.player # p}
  BY <1>6 DEF Clear
<1>8. PICK k, m : k = Retained(rejected_batches, p, s) /\ m = Len(rejected_batches)
  OBVIOUS
<1>9. /\ m \in Nat /\ DOMAIN rejected_batches = 1 .. m
      /\ k \in Seq(Entries) /\ rejected_batches' = k
  BY <1>8, RetainedOf DEF TypeOK, Clear
<1>10. PICK h : Places(h, k, rejected_batches, m, p, s)
  BY <1>8, RetainedOf DEF TypeOK
<1>11. \A j \in DOMAIN rejected_batches :
          rejected_batches[j].player = p => rejected_batches[j].session = s
  BY DEF Sound, Undoable, EntryNoted, Current
<1>12. OthersKept(h, p)
  <2>1. \A i \in DOMAIN k :
           /\ h[i] \in 1 .. m /\ k[i] = rejected_batches[h[i]]
           /\ ~ (k[i].player = p /\ k[i].session = s)
    BY <1>10 DEF Places
  <2>2. \A i, j \in DOMAIN k : i < j => h[i] < h[j]
    BY <1>10 DEF Places
  <2>3. \A j \in DOMAIN rejected_batches : rejected_batches[j].player # p =>
           \E i \in DOMAIN k : h[i] = j
    BY <1>9, <1>10 DEF Places
  <2>4. \A i \in DOMAIN k : k[i].player # p
    BY <1>9, <1>11, <2>1
  <2>5. \A i \in DOMAIN k : i \in Nat
    BY <1>9
  <2>6. \A i \in DOMAIN k : h[i] \in DOMAIN rejected_batches /\ h[i] \in Nat
    BY <1>9, <2>1
  <2> QED
    BY <1>9, <2>1, <2>2, <2>3, <2>4, <2>5, <2>6 DEF OthersKept
<1> QED
  BY <1>4, <1>5, <1>7, <1>12 DEF Cleared

LEMMA ClearedSound ==
  ASSUME TypeOK, Sound, NEW p, NEW s, Cleared(p),
         outbox \subseteq outbox', outbox' \subseteq outbox \cup {Close(p, s)},
         \A q \in Players : q # p => link'[q] = link[q],
         UNCHANGED <<opened, inventory, store, calls, answers>>
  PROVE  Sound'
<1>1. PICK h : OthersKept(h, p)
  BY DEF Cleared
<1>2. PICK k : k = Close(p, s)
  OBVIOUS
<1>3. /\ k.type = "close" /\ k.player = p
      /\ \A c \in outbox' : c \in outbox \/ c = k
  BY <1>2 DEF Close
<1>4. Finite'
  <2>1. IsFiniteSet(outbox \cup {k})
    BY FS_AddElement DEF Sound, Finite
  <2>2. IsFiniteSet(outbox')
    BY <1>2, <2>1, FS_Subset
  <2> QED
    BY <2>2, FS_Subset DEF Sound, Finite, Cleared
<1>5. Distinct'
  BY DEF Sound, Distinct, Cleared
<1>6. Numbers(Asked)' = Numbers(Asked) /\ Numbers(Abroad)' = Numbers(Abroad)
  <2>1. Asked' = Asked
    BY <1>3 DEF Asked
  <2> QED
    BY <2>1 DEF Numbers, Abroad
<1>7. ASSUME NEW x \in pending_reads', NEW kind \in {"read"}
      PROVE  Noting(x, kind)' <=> Noting(x, kind)
  <2>1. Noting(x, kind)' => Noting(x, kind)
    BY <1>1 DEF Noting, OthersKept
  <2>2. ASSUME NEW i \in DOMAIN rejected_batches, rejected_batches[i].kind = kind,
               rejected_batches[i].request = x.request
        PROVE  Noting(x, kind)'
    <3>1. ReadNoted(rejected_batches[i])
      BY <2>2 DEF Sound, Undoable, EntryNoted
    <3>2. rejected_batches[i].player = x.player /\ x.player # p
      BY <2>2, <3>1 DEF Sound, Distinct, ReadNoted, Cleared
    <3> QED
      BY <1>1, <2>2, <3>2 DEF Noting, OthersKept
  <2> QED
    BY <2>1, <2>2 DEF Noting
<1>8. ASSUME NEW x \in pending_transactions', NEW kind \in {"transaction"}
      PROVE  Noting(x, kind)' <=> Noting(x, kind)
  <2>1. Noting(x, kind)' => Noting(x, kind)
    BY <1>1 DEF Noting, OthersKept
  <2>2. ASSUME NEW i \in DOMAIN rejected_batches, rejected_batches[i].kind = kind,
               rejected_batches[i].request = x.request
        PROVE  Noting(x, kind)'
    <3>1. TransactionNoted(rejected_batches[i])
      BY <2>2 DEF Sound, Undoable, EntryNoted
    <3>2. rejected_batches[i].player = x.player /\ x.player # p
      BY <2>2, <3>1 DEF Sound, Distinct, TransactionNoted, Cleared
    <3> QED
      BY <1>1, <2>2, <3>2 DEF Noting, OthersKept
  <2> QED
    BY <2>1, <2>2 DEF Noting
<1>9. Awaited'
  BY <1>6, <1>7, <1>8 DEF Sound, Awaited, Cleared
<1>10. \A q : q # p /\ OpensMenu(q) => OpensMenu(q)'
  BY <1>1 DEF OpensMenu, OthersKept
<1>11. \A q \in Players : \A m : q # p => (Shown(q, m)' <=> Shown(q, m))
  BY DEF Shown
<1>12. ASSUME NEW i \in DOMAIN rejected_batches'
       PROVE  EntryNoted(i, rejected_batches[i])'
  <2>1. PICK f, g : f = rejected_batches'[i] /\ g = h[i]
    OBVIOUS
  <2>2. /\ i \in Nat /\ g \in DOMAIN rejected_batches /\ g \in Nat
        /\ f = rejected_batches[g] /\ f.player # p
    BY <1>1, <2>1 DEF OthersKept
  <2>3. EntryNoted(g, f) /\ f.player \in Players
    BY <2>2 DEF Sound, Undoable, TypeOK, Entries
  <2>4. Current(f.player, f.session)'
    BY <2>2, <2>3 DEF EntryNoted, Current
  <2>5. f.kind = "read" => ReadNoted(f)'
    BY <1>6, <2>2, <2>3 DEF EntryNoted, ReadNoted, Cleared
  <2>6. f.kind = "open" => OpenNoted(i, f)'
    <3> SUFFICES ASSUME OpenNoted(g, f) PROVE OpenNoted(i, f)'
      BY <2>3 DEF EntryNoted
    <3>1. CASE /\ f.player \in DOMAIN active_menus /\ active_menus[f.player].session = f.session
               /\ Open(f.player, f.session, active_menus[f.player].id) \in outbox
      BY <2>2, <3>1 DEF OpenNoted, Cleared
    <3>2. CASE \E j \in DOMAIN rejected_batches :
                  /\ g < j /\ rejected_batches[j].kind = "transaction"
                  /\ rejected_batches[j].player = f.player
      <4>1. PICK j \in DOMAIN rejected_batches :
               /\ g < j /\ rejected_batches[j].kind = "transaction"
               /\ rejected_batches[j].player = f.player
        BY <3>2
      <4>2. PICK b \in DOMAIN rejected_batches' : h[b] = j
        BY <1>1, <2>2, <4>1 DEF OthersKept
      <4>3. b \in Nat /\ j \in Nat /\ rejected_batches'[b] = rejected_batches[j]
        BY <1>1, <4>2 DEF OthersKept
      <4>4. ~ (b < i) /\ b # i
        <5>1. b < i => j < g
          BY <1>1, <2>1, <4>2 DEF OthersKept
        <5>2. b = i => j = g
          BY <2>1, <4>2
        <5> QED
          BY <2>2, <4>1, <4>3, <5>1, <5>2
      <4>5. i < b
        BY <2>2, <4>3, <4>4
      <4> QED
        BY <4>1, <4>3, <4>5 DEF OpenNoted
    <3> QED
      BY <3>1, <3>2 DEF OpenNoted
  <2>7. f.kind = "transaction" => TransactionNoted(f)'
    <3> SUFFICES ASSUME TransactionNoted(f) PROVE TransactionNoted(f)'
      BY <2>3 DEF EntryNoted
    <3>1. [request |-> f.request, player |-> f.player, session |-> f.session]
             \in pending_transactions'
      BY <2>2 DEF TransactionNoted, Cleared
    <3>2. f.player \in DOMAIN ledgers' /\ ledgers'[f.player] = ledgers[f.player]
      BY <2>2 DEF TransactionNoted, Cleared
    <3>3. (OpensMenu(f.player) \/ Shown(f.player, f.menu))'
      BY <1>10, <1>11, <2>2, <2>3 DEF TransactionNoted
    <3> QED
      BY <1>6, <3>1, <3>2, <3>3 DEF TransactionNoted
  <2>8. EntryNoted(i, f)'
    BY <2>4, <2>5, <2>6, <2>7 DEF EntryNoted
  <2> QED
    BY <2>1, <2>8
<1>13. Undoable'
  <2>1. ASSUME NEW i \in DOMAIN rejected_batches', NEW j \in DOMAIN rejected_batches', i < j,
               rejected_batches'[i].player = rejected_batches'[j].player
        PROVE  /\ rejected_batches'[i].kind = "open"
               /\ rejected_batches'[j].kind = "transaction"
    <3>1. /\ h[i] \in DOMAIN rejected_batches /\ h[j] \in DOMAIN rejected_batches
          /\ rejected_batches'[i] = rejected_batches[h[i]]
          /\ rejected_batches'[j] = rejected_batches[h[j]] /\ h[i] < h[j]
      BY <1>1, <2>1 DEF OthersKept
    <3> QED
      BY <2>1, <3>1 DEF Sound, Undoable
  <2> QED
    BY <1>12, <2>1 DEF Undoable
<1>14. MenusSound'
  <2> SUFFICES ASSUME NEW q \in DOMAIN active_menus' PROVE MenuSound(q)'
    BY DEF MenusSound
  <2>1. MenuSound(q) /\ q # p /\ q \in Players /\ active_menus'[q] = active_menus[q]
    BY DEF Sound, MenusSound, Cleared, TypeOK
  <2>2. q \in DOMAIN ledgers' /\ ledgers'[q] = ledgers[q]
    BY <2>1 DEF MenuSound, Cleared
  <2>3. \A x \in pending_reads' \cup pending_transactions' : x.player # q
    BY <2>1 DEF MenuSound, Cleared
  <2>4. \A c \in outbox' : c.type = "open" => c \in outbox
    BY <1>3
  <2> QED
    BY <1>10, <1>11, <2>1, <2>2, <2>3, <2>4 DEF MenuSound
<1>15. ClosesSound'
  <2> SUFFICES ASSUME NEW d \in outbox', d.type = "close" PROVE CloseSound(d)'
    BY DEF ClosesSound
  <2>1. CASE d \in outbox
    <3>1. CloseSound(d)
      BY <2>1 DEF Sound, ClosesSound
    <3>2. d.player \notin DOMAIN active_menus'
      BY <3>1 DEF CloseSound, Cleared
    <3>3. \A x \in pending_reads' : x.player = d.player => Noting(x, "read")'
      BY <1>7, <3>1 DEF CloseSound, Cleared
    <3> QED
      BY <3>2, <3>3 DEF CloseSound
  <2>2. CASE d = k
    BY <1>3, <2>2 DEF CloseSound, Cleared
  <2> QED
    BY <1>3, <2>1, <2>2
<1>16. Copies'
  <2>1. \A d \in outbox' : d.type \in {"get", "transaction"} => d \in outbox
    BY <1>3
  <2> QED
    BY <2>1 DEF Sound, Copies, Copy, Cleared
<1>17. NothingOfDeparted'
  <2>1. \A q \in DOMAIN ledgers' : q # p /\ q \in Players /\ link'[q] = link[q]
    BY DEF Cleared, TypeOK
  <2>2. \A q \in DOMAIN active_menus' : q # p /\ q \in Players /\ link'[q] = link[q]
    BY DEF Cleared, TypeOK
  <2>3. \A x \in pending_reads' \cup pending_transactions' : link'[x.player] = link[x.player]
    BY DEF Cleared, TypeOK, Pending
  <2> QED
    BY <2>1, <2>2, <2>3 DEF Sound, NothingOfDeparted, Cleared
<1>18. ActivePlayersBounded' /\ PurchasesAreRefundable'
  <2>1. DOMAIN ledgers' \cup {x.player : x \in pending_reads'}
          \subseteq DOMAIN ledgers \cup {x.player : x \in pending_reads}
    BY DEF Cleared
  <2> QED
    BY <2>1, FewerActive DEF Sound, PurchasesAreRefundable
<1> QED
  BY <1>4, <1>5, <1>9, <1>13, <1>14, <1>15, <1>16, <1>17, <1>18 DEF Sound

LEMMA ExitSound ==
  ASSUME TypeOK, Sound, NEW p \in Players, Exit(p)
  PROVE  Sound'
<1>1. PICK s : s = link[p].session
  OBVIOUS
<1>2. Cleared(p)
  BY <1>1, ClearAll DEF Exit
<1>3. outbox \subseteq outbox' /\ outbox' \subseteq outbox \cup {Close(p, s)}
  BY <1>1 DEF Exit, Send
<1>4. UNCHANGED <<link, opened, inventory, store, calls, answers>>
  BY DEF Exit, client
<1> QED
  BY <1>2, <1>3, <1>4, ClearedSound

LEMMA PlayerLeftSound ==
  ASSUME TypeOK, Sound, NEW p \in Players, PlayerLeft(p)
  PROVE  Sound'
<1>1. PICK s : s = link[p].session
  OBVIOUS
<1>2. Cleared(p)
  BY <1>1, ClearAll DEF PlayerLeft
<1>3. \A q \in Players : q # p => link'[q] = link[q]
  BY DEF PlayerLeft, TypeOK
<1>4. outbox' = outbox /\ UNCHANGED <<opened, inventory, store, calls, answers>>
  BY DEF PlayerLeft
<1>5. outbox \subseteq outbox' /\ outbox' \subseteq outbox \cup {Close(p, s)}
  BY <1>4
<1> QED
  BY <1>2, <1>3, <1>4, <1>5, ClearedSound

-----------------------------------------------------------------------------
(* A refused batch *)

OpensFrom(q, k) ==
  \E i \in DOMAIN rejected_batches :
     k <= i /\ rejected_batches[i].kind = "open" /\ rejected_batches[i].player = q

(* Undoing the entries from k on takes back their requests and the menus   *)
(* they opened, gives back the menus they closed and touches no other.     *)
UndoneFrom(t, k) ==
  /\ t.reads = {x \in pending_reads : \A i \in DOMAIN rejected_batches :
                  k <= i => ~ (/\ rejected_batches[i].kind = "read"
                               /\ rejected_batches[i].request = x.request)}
  /\ t.transactions = {x \in pending_transactions : \A i \in DOMAIN rejected_batches :
                         k <= i => ~ (/\ rejected_batches[i].kind = "transaction"
                                      /\ rejected_batches[i].request = x.request)}
  /\ \A q : OpensFrom(q, k) => q \notin DOMAIN t.menus
  /\ \A i \in DOMAIN rejected_batches :
        /\ k <= i /\ rejected_batches[i].kind = "transaction"
        /\ ~ OpensFrom(rejected_batches[i].player, k)
        => /\ rejected_batches[i].player \in DOMAIN t.menus
           /\ t.menus[rejected_batches[i].player] = rejected_batches[i].menu
  /\ \A q :
        (\A i \in DOMAIN rejected_batches :
            k <= i /\ rejected_batches[i].player = q => rejected_batches[i].kind = "read")
        => /\ q \in DOMAIN t.menus <=> q \in DOMAIN active_menus
           /\ q \in DOMAIN active_menus => t.menus[q] = active_menus[q]

(* Whatever menu a player has on the way is of its session. *)
LEMMA MenusOnTheWay ==
  ASSUME TypeOK, Sound, NEW t, NEW k, UndoneFrom(t, k), NEW q \in DOMAIN t.menus
  PROVE  t.menus[q].session = link[q].session
<1>1. ~ OpensFrom(q, k)
  BY DEF UndoneFrom
<1>2. CASE \E i \in DOMAIN rejected_batches :
              /\ k <= i /\ rejected_batches[i].kind = "transaction"
              /\ rejected_batches[i].player = q
  <2>1. PICK i \in DOMAIN rejected_batches :
           /\ k <= i /\ rejected_batches[i].kind = "transaction"
           /\ rejected_batches[i].player = q
    BY <1>2
  <2>2. t.menus[q] = rejected_batches[i].menu
    BY <1>1, <2>1 DEF UndoneFrom
  <2>3. /\ Current(q, rejected_batches[i].session)
        /\ rejected_batches[i].menu.session = rejected_batches[i].session
    <3>1. PICK f : f = rejected_batches[i]
      OBVIOUS
    <3>2. EntryNoted(i, f)
      BY <3>1 DEF Sound, Undoable
    <3>3. Current(q, f.session) /\ TransactionNoted(f)
      BY <2>1, <3>1, <3>2 DEF EntryNoted
    <3>4. f.menu.session = f.session
      BY <3>3 DEF TransactionNoted
    <3> QED
      BY <3>1, <3>3, <3>4
  <2> QED
    BY <2>2, <2>3 DEF Current
<1>3. CASE ~ \E i \in DOMAIN rejected_batches :
                /\ k <= i /\ rejected_batches[i].kind = "transaction"
                /\ rejected_batches[i].player = q
  <2>1. \A i \in DOMAIN rejected_batches :
           k <= i /\ rejected_batches[i].player = q => rejected_batches[i].kind = "read"
    BY <1>1, <1>3 DEF OpensFrom, TypeOK, Entries
  <2>2. q \in DOMAIN active_menus /\ t.menus[q] = active_menus[q]
    BY <2>1 DEF UndoneFrom
  <2> QED
    BY <2>2 DEF Sound, NothingOfDeparted
<1> QED
  BY <1>2, <1>3

LEMMA UndoneOf ==
  ASSUME NEW e \in Entries, NEW o \in Undos
  PROVE  /\ Undone(e, o).reads = IF e.kind = "read" THEN {x \in o.reads : x.request # e.request}
                                 ELSE o.reads
         /\ Undone(e, o).transactions =
              IF e.kind = "transaction" THEN {x \in o.transactions : x.request # e.request}
              ELSE o.transactions
         /\ e.kind = "read" => Undone(e, o).menus = o.menus
         /\ e.kind = "open" =>
              Undone(e, o).menus = Drop(o.menus, {q \in {e.player} \cap DOMAIN o.menus :
                                                    o.menus[q].session = e.session})
         /\ e.kind = "transaction" => Undone(e, o).menus = Put(o.menus, e.player, e.menu)
<1>1. CASE e.kind = "read"
  BY <1>1 DEF Undone, Undos
<1>2. CASE e.kind = "open"
  BY <1>2 DEF Undone, Undos
<1>3. CASE e.kind = "transaction"
  BY <1>3 DEF Undone, Undos
<1> QED
  BY <1>1, <1>2, <1>3 DEF Entries

LEMMA UndoStep ==
  ASSUME TypeOK, Sound, NEW k \in DOMAIN rejected_batches, NEW o \in Undos, NEW t,
         UndoneFrom(o, k + 1), t = Undone(rejected_batches[k], o)
  PROVE  UndoneFrom(t, k)
<1>1. PICK e, p : e = rejected_batches[k] /\ p = e.player
  OBVIOUS
<1>2. PICK j : j = k + 1
  OBVIOUS
<1>3. /\ k \in Nat /\ j \in Nat /\ UndoneFrom(o, j) /\ t = Undone(e, o)
      /\ e.kind \in {"read", "open", "transaction"}
  BY <1>1, <1>2 DEF TypeOK, Entries
<1>4. \A i \in DOMAIN rejected_batches : k <= i <=> i = k \/ j <= i
  BY <1>2 DEF TypeOK
<1>5. \A i \in DOMAIN rejected_batches : j <= i => k < i
  BY <1>2 DEF TypeOK
<1>6. EntryNoted(k, e)
  BY <1>1 DEF Sound, Undoable
<1>7. \A i \in DOMAIN rejected_batches :
         j <= i /\ rejected_batches[i].player = p =>
           e.kind = "open" /\ rejected_batches[i].kind = "transaction"
  BY <1>1, <1>5 DEF Sound, Undoable
<1>8. \A q : OpensFrom(q, k) <=> OpensFrom(q, j) \/ (e.kind = "open" /\ q = p)
  BY <1>1, <1>4 DEF OpensFrom
<1>9. e \in Entries
  BY <1>1 DEF TypeOK
<1>10. PICK reads, transactions, menus :
          reads = t.reads /\ transactions = t.transactions /\ menus = t.menus
  OBVIOUS
<1>11. reads = IF e.kind = "read" THEN {x \in o.reads : x.request # e.request} ELSE o.reads
  BY <1>3, <1>9, <1>10, UndoneOf
<1>12. transactions = IF e.kind = "transaction"
                      THEN {x \in o.transactions : x.request # e.request} ELSE o.transactions
  BY <1>3, <1>9, <1>10, UndoneOf
<1>13. reads = {x \in pending_reads : \A i \in DOMAIN rejected_batches :
                  k <= i => ~ (/\ rejected_batches[i].kind = "read"
                               /\ rejected_batches[i].request = x.request)}
  BY <1>1, <1>3, <1>4, <1>11 DEF UndoneFrom
<1>14. transactions =
         {x \in pending_transactions : \A i \in DOMAIN rejected_batches :
            k <= i => ~ (/\ rejected_batches[i].kind = "transaction"
                         /\ rejected_batches[i].request = x.request)}
  BY <1>1, <1>3, <1>4, <1>12 DEF UndoneFrom
<1>15. /\ DOMAIN menus = CASE e.kind = "read" -> DOMAIN o.menus
                           [] e.kind = "open" -> DOMAIN o.menus \ {p}
                           [] e.kind = "transaction" -> DOMAIN o.menus \cup {p}
       /\ e.kind = "transaction" => menus[p] = e.menu
       /\ \A q \in DOMAIN menus : q # p \/ e.kind # "transaction" => menus[q] = o.menus[q]
  <2>1. CASE e.kind = "read"
    BY <1>3, <1>9, <1>10, <2>1, UndoneOf
  <2>2. CASE e.kind = "open"
    <3>1. {q \in {e.player} \cap DOMAIN o.menus : o.menus[q].session = e.session}
             = {p} \cap DOMAIN o.menus
      <4>1. \A q \in DOMAIN o.menus : o.menus[q].session = link[q].session
        BY <1>3, MenusOnTheWay
      <4>2. link[p].session = e.session
        BY <1>1, <1>6 DEF EntryNoted, Current
      <4> QED
        BY <1>1, <4>1, <4>2
    <3>2. menus = Drop(o.menus, {p} \cap DOMAIN o.menus)
      BY <1>3, <1>9, <1>10, <2>2, <3>1, UndoneOf
    <3> QED
      BY <2>2, <3>2 DEF Drop
  <2>3. CASE e.kind = "transaction"
    <3>1. menus = Put(o.menus, p, e.menu)
      BY <1>1, <1>3, <1>9, <1>10, <2>3, UndoneOf
    <3> QED
      BY <2>3, <3>1 DEF Put
  <2> QED
    BY <1>3, <2>1, <2>2, <2>3
<1>16. ASSUME NEW q, OpensFrom(q, k) PROVE q \notin DOMAIN menus
  <2>1. CASE e.kind = "open" /\ q = p
    BY <1>15, <2>1
  <2>2. CASE OpensFrom(q, j)
    <3>1. q \notin DOMAIN o.menus
      BY <1>3, <2>2 DEF UndoneFrom
    <3>2. e.kind = "transaction" => q # p
      BY <1>7, <2>2 DEF OpensFrom
    <3> QED
      BY <1>3, <1>15, <3>1, <3>2
  <2> QED
    BY <1>8, <1>16, <2>1, <2>2
<1>17. ASSUME NEW i \in DOMAIN rejected_batches, k <= i,
              rejected_batches[i].kind = "transaction",
              ~ OpensFrom(rejected_batches[i].player, k)
       PROVE  /\ rejected_batches[i].player \in DOMAIN menus
              /\ menus[rejected_batches[i].player] = rejected_batches[i].menu
  <2>1. CASE i = k
    BY <1>1, <1>15, <1>17, <2>1
  <2>2. CASE j <= i
    <3> PICK q : q = rejected_batches[i].player
      OBVIOUS
    <3>1. ~ OpensFrom(q, j) /\ ~ (e.kind = "open" /\ q = p)
      BY <1>8, <1>17
    <3>2. q \in DOMAIN o.menus /\ o.menus[q] = rejected_batches[i].menu
      BY <1>3, <1>17, <2>2, <3>1 DEF UndoneFrom
    <3>3. q # p
      BY <1>7, <2>2, <3>1
    <3> QED
      BY <1>3, <1>15, <3>2, <3>3
  <2> QED
    BY <1>4, <1>17, <2>1, <2>2
<1>18. ASSUME NEW q,
              \A i \in DOMAIN rejected_batches :
                 k <= i /\ rejected_batches[i].player = q => rejected_batches[i].kind = "read"
       PROVE  /\ q \in DOMAIN menus <=> q \in DOMAIN active_menus
              /\ q \in DOMAIN active_menus => menus[q] = active_menus[q]
  <2>1. /\ q \in DOMAIN o.menus <=> q \in DOMAIN active_menus
        /\ q \in DOMAIN active_menus => o.menus[q] = active_menus[q]
    BY <1>3, <1>4, <1>18 DEF UndoneFrom
  <2>2. q # p \/ e.kind = "read"
    BY <1>1, <1>4, <1>18
  <2> QED
    BY <1>3, <1>15, <2>1, <2>2
<1> QED
  BY <1>10, <1>13, <1>14, <1>16, <1>17, <1>18 DEF UndoneFrom

(* By induction from the last entry to the first. *)
LEMMA AllUndone ==
  ASSUME TypeOK, Sound, NEW T, Undoing(T)
  PROVE  UndoneFrom(T[1], 1)
<1>1. PICK n : n = Len(rejected_batches)
  OBVIOUS
<1>2. n \in Nat /\ DOMAIN rejected_batches = 1 .. n
  BY <1>1 DEF TypeOK
<1>3. /\ \A k \in 1 .. n + 1 : T[k] \in Undos
      /\ T[n + 1] = [reads |-> pending_reads, menus |-> active_menus,
                     transactions |-> pending_transactions]
      /\ \A k \in 1 .. n : T[k] = Undone(rejected_batches[k], T[k + 1])
  BY <1>1 DEF Undoing
<1>4. UndoneFrom(T[n + 1], n + 1)
  <2>1. PICK t, j : t = T[n + 1] /\ j = n + 1
    OBVIOUS
  <2>2. t.reads = pending_reads /\ t.menus = active_menus
        /\ t.transactions = pending_transactions
    BY <1>3, <2>1
  <2>3. \A i \in DOMAIN rejected_batches : ~ (j <= i)
    BY <1>2, <2>1
  <2>4. UndoneFrom(t, j)
    BY <2>2, <2>3 DEF UndoneFrom, OpensFrom
  <2> QED
    BY <2>1, <2>4
<1> PICK D : D = {d \in Nat : d <= n => UndoneFrom(T[n + 1 - d], n + 1 - d)}
  OBVIOUS
<1>5. 0 \in D
  <2>1. n + 1 - 0 = n + 1
    BY <1>2
  <2> QED
    BY <1>4, <2>1
<1>6. ASSUME NEW d \in Nat, d \in D PROVE d + 1 \in D
  <2>1. PICK b, k : b = d + 1 /\ k = n + 1 - b
    OBVIOUS
  <2>2. b \in Nat
    BY <2>1
  <2>3. ASSUME b <= n PROVE UndoneFrom(T[n + 1 - b], n + 1 - b)
    <3>1. k \in 1 .. n /\ k + 1 = n + 1 - d /\ d <= n /\ k + 1 \in 1 .. n + 1
      BY <1>2, <2>1, <2>3
    <3>2. UndoneFrom(T[k + 1], k + 1)
      BY <1>6, <3>1
    <3>3. T[k] = Undone(rejected_batches[k], T[k + 1]) /\ T[k + 1] \in Undos
      BY <1>3, <3>1
    <3>4. k \in DOMAIN rejected_batches
      BY <1>2, <3>1
    <3>5. UndoneFrom(T[k], k)
      BY <3>2, <3>3, <3>4, UndoStep
    <3> QED
      BY <2>1, <3>5
  <2>4. b \in D
    BY <2>2, <2>3
  <2> QED
    BY <2>1, <2>4
<1>7. n \in D
  BY <1>2, <1>5, <1>6, AllNat
<1>8. UndoneFrom(T[n + 1 - n], n + 1 - n)
  BY <1>2, <1>7
<1>9. n + 1 - n = 1
  BY <1>2
<1> QED
  BY <1>8, <1>9

(* A refused batch leaves each player as the batch before it did. *)
LEMMA RejectSound ==
  ASSUME TypeOK, Sound, RejectBatch
  PROVE  Sound'
<1>1. PICK T : Undoing(T)
  BY RejectOf
<1>2. UndoneFrom(T[1], 1)
  BY <1>1, AllUndone
<1>3. \A i \in DOMAIN rejected_batches : 1 <= i
  BY DEF TypeOK
<1>4. \A x : x \in pending_reads' <=> x \in pending_reads /\ ~ Noting(x, "read")
  BY <1>1, <1>2, <1>3 DEF Undoing, UndoneFrom, Noting
<1>5. \A x : x \in pending_transactions' <=>
               x \in pending_transactions /\ ~ Noting(x, "transaction")
  BY <1>1, <1>2, <1>3 DEF Undoing, UndoneFrom, Noting
<1>6. \A q : OpensFrom(q, 1) <=> OpensMenu(q)
  BY <1>3 DEF OpensFrom, OpensMenu
<1>7. PICK menus : menus = active_menus' /\ menus = T[1].menus
  BY <1>1 DEF Undoing
<1>8. \A q : OpensMenu(q) => q \notin DOMAIN menus
  BY <1>2, <1>6, <1>7 DEF UndoneFrom
<1>9. ASSUME NEW q \in DOMAIN menus
      PROVE  /\ ~ OpensMenu(q)
             /\ \/ \E i \in DOMAIN rejected_batches :
                      /\ rejected_batches[i].kind = "transaction"
                      /\ rejected_batches[i].player = q
                      /\ menus[q] = rejected_batches[i].menu
                \/ q \in DOMAIN active_menus /\ menus[q] = active_menus[q]
  <2>1. ~ OpensMenu(q)
    BY <1>8
  <2>2. CASE \E i \in DOMAIN rejected_batches :
                /\ rejected_batches[i].kind = "transaction"
                /\ rejected_batches[i].player = q
    <3>1. PICK i \in DOMAIN rejected_batches :
             /\ rejected_batches[i].kind = "transaction"
             /\ rejected_batches[i].player = q
      BY <2>2
    <3>2. menus[q] = rejected_batches[i].menu
      BY <1>2, <1>3, <1>6, <1>7, <2>1, <3>1 DEF UndoneFrom
    <3> QED
      BY <2>1, <3>1, <3>2
  <2>3. CASE ~ \E i \in DOMAIN rejected_batches :
                  /\ rejected_batches[i].kind = "transaction"
                  /\ rejected_batches[i].player = q
    <3>1. \A i \in DOMAIN rejected_batches :
             1 <= i /\ rejected_batches[i].player = q => rejected_batches[i].kind = "read"
      BY <2>1, <2>3 DEF OpensMenu, TypeOK, Entries
    <3>2. q \in DOMAIN active_menus /\ menus[q] = active_menus[q]
      BY <1>2, <1>7, <3>1 DEF UndoneFrom
    <3> QED
      BY <2>1, <3>2
  <2> QED
    BY <2>2, <2>3
<1>10. /\ outbox' = {} /\ DOMAIN rejected_batches' = {}
       /\ UNCHANGED <<ledgers, link, opened, inventory, store, calls, answers>>
  BY NoEntries DEF RejectBatch, client
<1>11. pending_reads' \subseteq pending_reads /\ pending_transactions' \subseteq pending_transactions
  BY <1>4, <1>5
<1>12. Finite'
  BY <1>10, <1>11, FS_Subset, FS_EmptySet DEF Sound, Finite
<1>13. Distinct'
  BY <1>11 DEF Sound, Distinct
<1>14. Awaited'
  <2>1. Numbers(Abroad)' = Numbers(Abroad)
    BY <1>10 DEF Numbers, Abroad
  <2>2. \A x, kind : ~ Noting(x, kind)'
    BY <1>10 DEF Noting
  <2>3. \A x \in pending_reads' \cup pending_transactions' : x.request \in Numbers(Abroad)
    BY <1>4, <1>5 DEF Sound, Awaited
  <2> QED
    BY <2>1, <2>2, <2>3 DEF Awaited
<1>15. Undoable' /\ ClosesSound'
  BY <1>10 DEF Undoable, ClosesSound
<1>16. Copies'
  BY <1>10, <1>11 DEF Sound, Copies, Copy
<1>17. ASSUME NEW q \in DOMAIN menus
       PROVE  /\ q \in DOMAIN ledgers
              /\ menus[q] = [session |-> ledgers[q].session, id |-> ledgers[q].version]
              /\ \A x \in pending_reads' \cup pending_transactions' : x.player # q
              /\ Shown(q, menus[q])
              /\ Current(q, menus[q].session)
  <2>1. ~ OpensMenu(q)
    BY <1>9
  <2>2. CASE \E i \in DOMAIN rejected_batches :
                /\ rejected_batches[i].kind = "transaction"
                /\ rejected_batches[i].player = q
                /\ menus[q] = rejected_batches[i].menu
    <3>1. PICK i, e : /\ i \in DOMAIN rejected_batches /\ e = rejected_batches[i]
                      /\ e.kind = "transaction" /\ e.player = q /\ menus[q] = e.menu
      BY <2>2
    <3>2. EntryNoted(i, e)
      BY <3>1 DEF Sound, Undoable
    <3>3. TransactionNoted(e) /\ Current(q, e.session)
      BY <3>1, <3>2 DEF EntryNoted
    <3>4. /\ q \in DOMAIN ledgers /\ ledgers[q].session = e.session
          /\ menus[q] = [session |-> e.session, id |-> ledgers[q].version]
          /\ Shown(q, menus[q])
      BY <2>1, <3>1, <3>3 DEF TransactionNoted
    <3>5. PICK y : y = [request |-> e.request, player |-> q, session |-> e.session]
      OBVIOUS
    <3>6. y \in pending_transactions /\ y.player = q /\ Noting(y, "transaction")
      BY <3>1, <3>3, <3>5 DEF TransactionNoted, Noting
    <3>7. \A x \in pending_reads \cup pending_transactions : x.player = q => x = y
      BY <3>6 DEF Sound, Distinct
    <3>8. y \notin pending_reads
      BY <3>6 DEF Sound, Distinct
    <3>9. \A x \in pending_reads' \cup pending_transactions' : x.player # q
      BY <1>4, <1>5, <3>6, <3>7, <3>8
    <3>10. menus[q].session = e.session
      BY <3>4
    <3> QED
      BY <3>3, <3>4, <3>9, <3>10
  <2>3. CASE q \in DOMAIN active_menus /\ menus[q] = active_menus[q]
    <3>1. MenuSound(q)
      BY <2>3 DEF Sound, MenusSound
    <3>2. Current(q, menus[q].session)
      BY <2>3 DEF Sound, NothingOfDeparted, Current
    <3> QED
      BY <1>11, <2>1, <2>3, <3>1, <3>2 DEF MenuSound
  <2> QED
    BY <1>9, <2>2, <2>3
<1>18. \A q, m : Shown(q, m)' <=> Shown(q, m)
  BY <1>10 DEF Shown
<1>19. MenusSound'
  <2> SUFFICES ASSUME NEW q \in DOMAIN menus PROVE MenuSound(q)'
    BY <1>7 DEF MenusSound
  <2> QED
    BY <1>7, <1>10, <1>17, <1>18 DEF MenuSound
<1>20. NothingOfDeparted'
  <2>1. \A q \in DOMAIN menus :
           link'[q].session = menus[q].session /\ link'[q].state # "out"
    BY <1>10, <1>17 DEF Current
  <2> QED
    BY <1>7, <1>10, <1>11, <2>1 DEF Sound, NothingOfDeparted
<1>21. ActivePlayersBounded' /\ PurchasesAreRefundable'
  <2>1. DOMAIN ledgers' \cup {x.player : x \in pending_reads'}
          \subseteq DOMAIN ledgers \cup {x.player : x \in pending_reads}
    BY <1>10, <1>11
  <2> QED
    BY <1>10, <2>1, FewerActive DEF Sound, PurchasesAreRefundable
<1> QED
  BY <1>12, <1>13, <1>14, <1>15, <1>16, <1>19, <1>20, <1>21 DEF Sound

-----------------------------------------------------------------------------
(* Every step, and the properties *)

LEMMA NextType ==
  ASSUME TypeOK, Sound, Next
  PROVE  TypeOK'
<1>1. Finite
  BY DEF Sound
<1>2. CASE Deliver
  BY <1>1, <1>2, DeliverType
<1>3. CASE AcceptBatch
  BY <1>3, AcceptType
<1>4. CASE RejectBatch
  BY <1>4, RejectType
<1>5. CASE Execute
  BY <1>5, ExecuteType
<1>6. CASE Restart
  BY <1>6, RestartType
<1>7. CASE \E c \in clicks : Click(c)
  BY <1>1, <1>7, ClickType
<1>8. ASSUME NEW p \in Players, Enter(p) PROVE TypeOK'
  BY <1>1, <1>8, EnterType
<1>9. ASSUME NEW p \in Players, Exit(p) PROVE TypeOK'
  BY <1>9, ExitType
<1>10. ASSUME NEW p \in Players, PlayerLeft(p) PROVE TypeOK'
  BY <1>10, PlayerLeftType
<1>11. ASSUME NEW p \in Players, PlayerClicks(p) \/ PlayerCloses(p) \/ Quit(p) \/ Join(p)
       PROVE  TypeOK'
  BY <1>11, PlayerType
<1> QED
  BY <1>2, <1>3, <1>4, <1>5, <1>6, <1>7, <1>8, <1>9, <1>10, <1>11 DEF Next

LEMMA NextSound ==
  ASSUME TypeOK, Sound, Next
  PROVE  Sound'
<1>1. CASE Deliver
  BY <1>1, DeliverSound
<1>2. CASE AcceptBatch
  BY <1>2, AcceptSound
<1>3. CASE RejectBatch
  BY <1>3, RejectSound
<1>4. CASE Execute
  BY <1>4, ExecuteSound
<1>5. CASE Restart
  BY <1>5, RestartSound
<1>6. CASE \E c \in clicks : Click(c)
  BY <1>6, ClickSound
<1>7. ASSUME NEW p \in Players, Enter(p) PROVE Sound'
  BY <1>7, EnterSound
<1>8. ASSUME NEW p \in Players, Exit(p) PROVE Sound'
  BY <1>8, ExitSound
<1>9. ASSUME NEW p \in Players, PlayerLeft(p) PROVE Sound'
  BY <1>9, PlayerLeftSound
<1>10. ASSUME NEW p \in Players, PlayerClicks(p) \/ PlayerCloses(p) PROVE Sound'
  BY <1>10, OnlookerSound
<1>11. ASSUME NEW p \in Players, Quit(p) PROVE Sound'
  BY <1>11, QuitSound
<1>12. ASSUME NEW p \in Players, Join(p) PROVE Sound'
  BY <1>12, JoinSound
<1> QED
  BY <1>1, <1>2, <1>3, <1>4, <1>5, <1>6, <1>7, <1>8, <1>9, <1>10, <1>11, <1>12 DEF Next

(* Whatever the players do, however calls and answers are interleaved,     *)
(* batches refused and the plugin restarted: the batch under way can be    *)
(* undone, a menu in memory is the ledger's, requests are awaited once,    *)
(* and what was read or promised is no newer than what is stored.          *)
THEOREM AlwaysSound == Spec => [](TypeOK /\ Sound)
<1>1. Init => TypeOK /\ Sound
  BY InitType, InitSound
<1>2. TypeOK /\ Sound /\ [Next]_vars => (TypeOK /\ Sound)'
  <2> SUFFICES ASSUME TypeOK, Sound, [Next]_vars PROVE TypeOK' /\ Sound'
    OBVIOUS
  <2>1. CASE Next
    BY <2>1, NextType, NextSound
  <2>2. CASE UNCHANGED vars
    <3>1. TypeOK'
      BY <2>2 DEF TypeOK, vars, tables, client
    <3>2. Sound'
      BY <2>2, UnchangedSound DEF vars, tables, client
    <3> QED
      BY <3>1, <3>2
  <2> QED
    BY <2>1, <2>2
<1> QED
  BY <1>1, <1>2, PTL DEF Spec

(* A player's inventory with its stored purchases refunded, each at the    *)
(* terms it was made at, is the one it came with: a transaction moves what *)
(* it writes into the ledger, once, and only against the ledger it names.  *)
THEOREM PurchasesAreRefundableAlways == Spec => []PurchasesAreRefundable
<1>1. Sound => PurchasesAreRefundable
  BY DEF Sound
<1> QED
  BY <1>1, AlwaysSound, PTL

(* The menu a player has names the ledger in memory, the player can see it *)
(* or is about to, and waits for nothing, also when a refused batch gave   *)
(* the menu back.                                                          *)
THEOREM MenuMatchesLedgerAlways == Spec => []MenuMatchesLedger
<1>1. ASSUME TypeOK, Sound, NEW p \in DOMAIN active_menus
      PROVE  /\ MenuSound(p)
             /\ \/ active_menus[p].id \in opened[p]
                \/ Open(p, active_menus[p].session, active_menus[p].id) \in outbox
                \/ link[p].state = "left"
  <2>1. MenuSound(p)
    BY <1>1 DEF Sound, MenusSound
  <2>2. CASE Shown(p, active_menus[p])
    BY <2>1, <2>2 DEF Shown
  <2>3. CASE OpensMenu(p)
    <3>1. PICK i, e : /\ i \in DOMAIN rejected_batches /\ e = rejected_batches[i]
                      /\ e.kind = "open" /\ e.player = p
      BY <2>3 DEF OpensMenu
    <3>2. EntryNoted(i, e)
      BY <1>1, <3>1 DEF Sound, Undoable
    <3>3. OpenNoted(i, e)
      BY <3>1, <3>2 DEF EntryNoted
    <3>4. ASSUME NEW j \in DOMAIN rejected_batches, rejected_batches[j].kind = "transaction",
                 rejected_batches[j].player = p
          PROVE  FALSE
      <4>1. PICK f : f = rejected_batches[j]
        OBVIOUS
      <4>2. EntryNoted(j, f)
        BY <1>1, <4>1 DEF Sound, Undoable
      <4>3. TransactionNoted(f)
        BY <3>4, <4>1, <4>2 DEF EntryNoted
      <4>4. [request |-> f.request, player |-> p, session |-> f.session]
               \in pending_transactions
        BY <3>4, <4>1, <4>3 DEF TransactionNoted
      <4> QED
        BY <2>1, <4>4 DEF MenuSound
    <3> QED
      BY <2>1, <3>1, <3>3, <3>4 DEF OpenNoted
  <2> QED
    BY <2>1, <2>2, <2>3 DEF MenuSound
<1>2. TypeOK /\ Sound => MenuMatchesLedger
  BY <1>1 DEF MenuMatchesLedger, MenuSound, Reading
<1> QED
  BY <1>2, AlwaysSound, PTL

(* What a player waits for is on its way to the host or back, and the      *)
(* player waits for one thing only.                                        *)
THEOREM WaitingEndsAlways == Spec => []WaitingEnds
<1>1. ASSUME TypeOK, Sound, NEW x \in pending_reads \cup pending_transactions
      PROVE  \E y \in outbox \cup calls \cup answers :
                y.type \in {"get", "transaction"} /\ y.request = x.request
  <2>1. x.request \in Numbers(Asked) \/ x.request \in Numbers(Abroad)
    BY <1>1 DEF Sound, Awaited
  <2>2. \A y \in Abroad : y.type \in {"get", "transaction"}
    BY <1>1 DEF TypeOK, Abroad, Gets, Transactions, ReadAnswers, TransactionAnswers
  <2> QED
    BY <2>1, <2>2 DEF Numbers, Asked, Abroad
<1>2. TypeOK /\ Sound => WaitingEnds
  BY <1>1 DEF WaitingEnds, Sound, Distinct
<1> QED
  BY <1>2, AlwaysSound, PTL

(* Ledgers, menus and requests are of the session the player is in, and of *)
(* no player that is out.                                                  *)
THEOREM NothingOfDepartedAlways == Spec => []NothingOfDeparted
<1>1. Sound => NothingOfDeparted
  BY DEF Sound
<1> QED
  BY <1>1, AlwaysSound, PTL

(* No more than max_active_players players have a ledger in memory or on   *)
(* its way, though the limit is checked where a read starts and the two    *)
(* tables change elsewhere.                                                *)
THEOREM ActivePlayersBoundedAlways == Spec => []ActivePlayersBounded
<1>1. Sound => ActivePlayersBounded
  BY DEF Sound
<1> QED
  BY <1>1, AlwaysSound, PTL
=============================================================================
