---------------------------- MODULE TownsProofs ----------------------------
(***************************************************************************)
(* Theorems about Towns for any players, names, chunks, limits and bounds; *)
(* which faults a theorem allows is its hypothesis.                        *)
(***************************************************************************)
EXTENDS Towns, TLAPS, FiniteSetTheorems, SequenceTheorems, WellFoundedInduction

Roles == {"leader", "officer", "member"}

-----------------------------------------------------------------------------
(* What the charter counts is what the plugin counts *)

LEMMA Counted == ASSUME NEW S PROVE Charter!Cardinality(S) = Cardinality(S)
BY DEF Charter!Cardinality, Cardinality

Claimed(r) == UNION {r[name].claims : name \in DOMAIN r}

(* Charter!LawfulTown and Charter!Lawful, as far as the proofs need them   *)
(* apart.                                                                  *)
LEMMA LawfulTownIs ==
  ASSUME NEW t
  PROVE  Charter!LawfulTown(t) <=>
           /\ \A p \in DOMAIN t.members : t.members[p] = "leader" <=> p = t.leader
           /\ t.leader \in DOMAIN t.members
           /\ DOMAIN t.members \cap t.trusted = {}
           /\ Cardinality(DOMAIN t.members) <= MaxMembers
           /\ Cardinality(t.trusted) <= MaxTrusted
BY Counted DEF Charter!LawfulTown, Charter!Members

LEMMA LawfulIs ==
  ASSUME NEW r
  PROVE  Charter!Lawful(r) <=>
           /\ Charter!IsRegister(r)
           /\ Cardinality(DOMAIN r) <= MaxTowns
           /\ \A name \in DOMAIN r : Charter!LawfulTown(r[name])
           /\ \A one, other \in DOMAIN r : one # other =>
                 /\ DOMAIN r[one].members \cap DOMAIN r[other].members = {}
                 /\ r[one].claims \cap r[other].claims = {}
           /\ Cardinality(Claimed(r)) <= MaxClaims
BY Counted DEF Charter!Lawful, Charter!Members, Claimed

-----------------------------------------------------------------------------
(* Numbers, and the order of a finite set *)

(* Induction in the only form the provers here can use: a set of numbers   *)
(* that is not empty has a least one.                                      *)
LEMMA LeastNat ==
  ASSUME NEW T \in SUBSET Nat, T # {}
  PROVE  \E m \in T : \A n \in T : m <= n
<1>1. \A n, m \in Nat : <<n, m>> \in OpToRel(<, Nat) <=> n < m
  BY DEF OpToRel
<1>2. \E R : IsWellFoundedOn(R, Nat) /\ \A n, m \in Nat : <<n, m>> \in R <=> n < m
  BY <1>1, NatLessThanWellFounded
<1>3. PICK R : IsWellFoundedOn(R, Nat) /\ \A n, m \in Nat : <<n, m>> \in R <=> n < m
  BY <1>2
<1>4. IsWellFoundedOn(R, Nat) /\ T \subseteq Nat /\ T # {}
  BY <1>3
<1>5. \E x \in T : \A y \in T : ~ (<<y, x>> \in R)
  BY <1>4, WFMin, Zenon
<1>6. PICK m \in T : \A n \in T : ~ (<<n, m>> \in R)
  BY <1>5
<1>7. ASSUME NEW n \in T PROVE m <= n
  <2>1. n \in Nat /\ m \in Nat
    OBVIOUS
  <2>2. ~ (n < m)
    BY <1>3, <1>6, <2>1
  <2> QED
    BY <2>1, <2>2
<1> QED
  BY <1>7

LEMMA AllNat ==
  ASSUME NEW T, 0 \in T, \A n \in Nat : n \in T => n + 1 \in T
  PROVE  \A n \in Nat : n \in T
<1> SUFFICES ASSUME NEW k \in Nat, k \notin T PROVE FALSE
  OBVIOUS
<1> PICK B : B = {n \in Nat : n \notin T}
  OBVIOUS
<1>1. PICK m \in B : \A n \in B : m <= n
  <2>1. B \in SUBSET Nat /\ B # {}
    OBVIOUS
  <2> QED
    BY <2>1, LeastNat
<1>2. m \in Nat /\ m # 0 /\ m \notin T
  OBVIOUS
<1>3. m - 1 \in Nat /\ m - 1 \notin B
  BY <1>1, <1>2
<1>4. m - 1 \in T
  BY <1>3
<1> QED
  BY <1>2, <1>3, <1>4

(* A finite set of numbers has a largest one. *)
LEMMA LargestNat ==
  ASSUME NEW S \in SUBSET Nat, NEW b \in Nat, \A n \in S : n <= b, S # {}
  PROVE  \E m \in S : \A n \in S : n <= m
<1> PICK T : T = {k \in Nat : \A n \in S : n <= k}
  OBVIOUS
<1>1. T \in SUBSET Nat /\ b \in T
  OBVIOUS
<1>2. PICK k \in T : \A j \in T : k <= j
  BY <1>1, LeastNat
<1>3. k \in Nat /\ \A n \in S : n <= k
  OBVIOUS
<1>4. CASE k \in S
  BY <1>3, <1>4
<1>5. CASE k \notin S
  <2>1. \A n \in S : n <= k - 1 /\ n \in Nat
    BY <1>3, <1>5
  <2> PICK n : n \in S
    OBVIOUS
  <2> PICK j : j = k - 1
    OBVIOUS
  <2>2. j \in Nat
    BY <1>3, <2>1
  <2>3. j \in T
    BY <2>1, <2>2
  <2>4. k <= j
    BY <1>2, <2>3
  <2> QED
    BY <1>3, <2>4
<1> QED
  BY <1>4, <1>5

(* s lists the numbers of S in their order. *)
Lists(s, S, n) ==
  /\ s \in [1 .. n -> S] /\ ToSet(s) = S
  /\ \A i, j \in DOMAIN s : i < j => s[i] < s[j]

LEMMA OrderExists ==
  ASSUME NEW b \in Nat
  PROVE  \A S \in SUBSET (1 .. b) : IsFiniteSet(S) /\ \E s : Lists(s, S, Cardinality(S))
<1>1. \A S \in SUBSET (1 .. b) : IsFiniteSet(S) /\ Cardinality(S) \in Nat
  <2>1. IsFiniteSet(1 .. b)
    BY FS_Interval
  <2>2. \A S \in SUBSET (1 .. b) : IsFiniteSet(S)
    BY <2>1, FS_Subset
  <2> QED
    BY <2>2, FS_CardinalityType
<1> PICK T : T = {n \in Nat : \A S \in SUBSET (1 .. b) :
                    Cardinality(S) = n => \E s : Lists(s, S, Cardinality(S))}
  OBVIOUS
<1>2. 0 \in T
  <2> SUFFICES ASSUME NEW S \in SUBSET (1 .. b), Cardinality(S) = 0
               PROVE  \E s : Lists(s, S, Cardinality(S))
    OBVIOUS
  <2>1. S = {}
    BY <1>1, FS_EmptySet
  <2> PICK e : e = [i \in 1 .. 0 |-> i]
    OBVIOUS
  <2>2. Lists(e, S, 0)
    BY <2>1 DEF Lists, ToSet
  <2> QED
    BY <2>2
<1>3. ASSUME NEW n \in Nat, n \in T PROVE n + 1 \in T
  <2> SUFFICES ASSUME NEW S \in SUBSET (1 .. b), Cardinality(S) = n + 1
               PROVE  \E s : Lists(s, S, n + 1)
    BY <1>3
  <2>1. S # {}
    BY FS_EmptySet
  <2>2. PICK m \in S : \A k \in S : k <= m
    <3>1. S \in SUBSET Nat /\ \A k \in S : k <= b
      OBVIOUS
    <3> QED
      BY <2>1, <3>1, LargestNat
  <2> PICK R : R = S \ {m}
    OBVIOUS
  <2>3. R \in SUBSET (1 .. b) /\ Cardinality(R) = n
    BY <1>1, FS_RemoveElement
  <2>4. PICK r : Lists(r, R, n)
    BY <1>3, <2>3
  <2>5. r \in [1 .. n -> R] /\ ToSet(r) = R /\ \A i, j \in 1 .. n : i < j => r[i] < r[j]
    BY <2>4 DEF Lists
  <2> PICK s : s = [i \in 1 .. n + 1 |-> IF i = n + 1 THEN m ELSE r[i]]
    OBVIOUS
  <2>6. s[n + 1] = m /\ \A i \in 1 .. n : s[i] = r[i] /\ r[i] \in R
    BY <2>5
  <2>7. \A i \in 1 .. n + 1 : i = n + 1 \/ i \in 1 .. n
    OBVIOUS
  <2>8. s \in [1 .. n + 1 -> S]
    BY <2>6, <2>7
  <2>9. ToSet(s) = S
    <3>1. \A k \in R : \E i \in 1 .. n : r[i] = k
      BY <2>5 DEF ToSet
    <3>2. ASSUME NEW k \in S PROVE \E i \in 1 .. n + 1 : s[i] = k
      <4>1. CASE k = m
        BY <2>6, <4>1
      <4>2. CASE k # m
        <5>1. PICK i \in 1 .. n : r[i] = k
          BY <3>1, <4>2
        <5> QED
          BY <2>6, <5>1
      <4> QED
        BY <4>1, <4>2
    <3> QED
      BY <2>8, <3>2 DEF ToSet
  <2>10. ASSUME NEW i \in 1 .. n + 1, NEW j \in 1 .. n + 1, i < j PROVE s[i] < s[j]
    <3>1. i \in 1 .. n
      BY <2>10
    <3>2. CASE j = n + 1
      <4> PICK k : k = r[i]
        OBVIOUS
      <4>1. k \in S /\ k # m /\ m \in S
        BY <2>6, <3>1
      <4>2. k <= m
        BY <2>2, <4>1
      <4>3. k \in Nat /\ m \in Nat
        BY <4>1
      <4> QED
        BY <2>6, <3>1, <3>2, <4>1, <4>2, <4>3
    <3>3. CASE j \in 1 .. n
      BY <2>5, <2>6, <2>10, <3>1, <3>3
    <3> QED
      BY <2>7, <3>2, <3>3
  <2>11. Lists(s, S, n + 1)
    BY <2>8, <2>9, <2>10 DEF Lists
  <2> QED
    BY <2>11
<1>4. \A n \in Nat : n \in T
  BY <1>2, <1>3, AllNat
<1> QED
  BY <1>1, <1>4

LEMMA InOrderOf ==
  ASSUME NEW b \in Nat, NEW S \in SUBSET (1 .. b)
  PROVE  Lists(InOrder(S), S, Cardinality(S)) /\ Cardinality(S) \in Nat
<1>1. IsFiniteSet(S) /\ \E s : Lists(s, S, Cardinality(S))
  BY OrderExists
<1>2. Cardinality(S) \in Nat
  BY <1>1, FS_CardinalityType
<1>3. \E s \in [1 .. Cardinality(S) -> S] :
         ToSet(s) = S /\ \A i, j \in DOMAIN s : i < j => s[i] < s[j]
  BY <1>1 DEF Lists
<1> QED
  BY <1>2, <1>3 DEF InOrder, Lists

-----------------------------------------------------------------------------
(* Tables and towns *)

LEMMA WithType ==
  ASSUME NEW K, NEW V, NEW t, DOMAIN t \subseteq K, t \in [DOMAIN t -> V],
         NEW k \in K, NEW v \in V
  PROVE  /\ DOMAIN With(t, k, v) \subseteq K
         /\ With(t, k, v) \in [DOMAIN With(t, k, v) -> V]
BY DEF With

LEMMA WithoutType ==
  ASSUME NEW K, NEW V, NEW t, DOMAIN t \subseteq K, t \in [DOMAIN t -> V], NEW S
  PROVE  /\ DOMAIN Without(t, S) \subseteq K
         /\ Without(t, S) \in [DOMAIN Without(t, S) -> V]
BY DEF Without

LEMMA TownOf ==
  ASSUME NEW t, Charter!IsTown(t)
  PROVE  /\ t.leader \in Players
         /\ DOMAIN t.members \subseteq Players
         /\ t.members \in [DOMAIN t.members -> Roles]
         /\ t.claims \in SUBSET Chunks
         /\ t.trusted \in SUBSET Players
         /\ t.public_use \in BOOLEAN
         /\ t = [leader |-> t.leader, members |-> t.members, claims |-> t.claims,
                 trusted |-> t.trusted, public_use |-> t.public_use]
         /\ IsFiniteSet(DOMAIN t.members) /\ IsFiniteSet(t.claims)
         /\ IsFiniteSet(t.trusted)
<1>1. /\ DOMAIN t.members \subseteq Players
      /\ t \in [leader: Players, members: [DOMAIN t.members -> Roles],
                claims: SUBSET Chunks, trusted: SUBSET Players, public_use: BOOLEAN]
  BY DEF Charter!IsTown, Charter!Members, Charter!Roles, Roles
<1>2. IsFiniteSet(DOMAIN t.members) /\ IsFiniteSet(t.claims) /\ IsFiniteSet(t.trusted)
  BY <1>1, FinitenessAssumption, FS_Subset
<1> QED
  BY <1>1, <1>2

LEMMA IsTownOf ==
  ASSUME NEW l \in Players, NEW m, DOMAIN m \subseteq Players, m \in [DOMAIN m -> Roles],
         NEW c \in SUBSET Chunks, NEW g \in SUBSET Players, NEW b \in BOOLEAN
  PROVE  Charter!IsTown([leader |-> l, members |-> m, claims |-> c, trusted |-> g,
                         public_use |-> b])
BY DEF Charter!IsTown, Charter!Members, Charter!Roles, Roles

LEMMA RegisterWith ==
  ASSUME NEW r, Charter!IsRegister(r), NEW name \in Names, NEW town, Charter!IsTown(town)
  PROVE  Charter!IsRegister(With(r, name, town))
<1> PICK w : w = With(r, name, town)
  OBVIOUS
<1>1. /\ DOMAIN w = DOMAIN r \cup {name} /\ w[name] = town
      /\ \A x \in DOMAIN r \ {name} : w[x] = r[x]
      /\ w = [x \in DOMAIN w |-> w[x]]
  BY DEF With
<1>2. DOMAIN r \subseteq Names /\ \A x \in DOMAIN r : Charter!IsTown(r[x])
  BY DEF Charter!IsRegister
<1>3. \A x \in DOMAIN w : Charter!IsTown(w[x])
  BY <1>1, <1>2, Zenon
<1>4. DOMAIN w \subseteq Names
  BY <1>1, <1>2
<1> QED
  BY <1>1, <1>3, <1>4 DEF Charter!IsRegister

LEMMA EmptyRegister == Charter!IsRegister(NoTowns) /\ DOMAIN NoTowns = {}
BY DEF Charter!IsRegister, NoTowns

LEMMA RegisterOf ==
  ASSUME NEW r, Charter!IsRegister(r)
  PROVE  /\ DOMAIN r \subseteq Names /\ IsFiniteSet(DOMAIN r)
         /\ \A name \in DOMAIN r : Charter!IsTown(r[name])
         /\ r = [name \in DOMAIN r |-> r[name]]
BY FinitenessAssumption, FS_Subset DEF Charter!IsRegister

-----------------------------------------------------------------------------
(* The claims of a register *)

LEMMA ClaimedOf ==
  ASSUME NEW r, Charter!IsRegister(r)
  PROVE  /\ Claimed(r) \subseteq Chunks /\ IsFiniteSet(Claimed(r))
         /\ ClaimZones(r) \subseteq ZoneIds /\ IsFiniteSet(ClaimZones(r))
         /\ IsFiniteSet(ZoneIds)
         /\ Cardinality(Claimed(r)) <= TotalClaims(r)
         /\ Cardinality(Claimed(r)) \in Nat /\ TotalClaims(r) \in Nat
<1>1. \A name \in DOMAIN r : r[name].claims \subseteq Chunks /\ name \in Names
  BY RegisterOf, TownOf
<1>2. Claimed(r) \subseteq Chunks
  BY <1>1 DEF Claimed
<1>3. IsFiniteSet(Claimed(r))
  BY <1>2, FinitenessAssumption, FS_Subset
<1>4. IsFiniteSet(ZoneIds)
  BY FinitenessAssumption, FS_Product DEF ZoneIds
<1>5. ClaimZones(r) \subseteq ZoneIds
  BY DEF ClaimZones
<1>6. IsFiniteSet(ClaimZones(r))
  BY <1>4, <1>5, FS_Subset
<1> PICK f, S, T : f = [zone \in S |-> zone[2]] /\ S = ClaimZones(r) /\ T = Claimed(r)
  OBVIOUS
<1>7. f \in Surjection(S, T)
  <2>1. ASSUME NEW zone \in S PROVE f[zone] \in T
    BY <2>1 DEF ClaimZones, Claimed
  <2>2. ASSUME NEW c \in T PROVE \E zone \in S : f[zone] = c
    <3>1. PICK name \in DOMAIN r : c \in r[name].claims
      BY DEF Claimed
    <3>2. <<name, c>> \in S
      BY <1>1, <3>1 DEF ClaimZones, ZoneIds
    <3> QED
      BY <3>2
  <2>3. f \in [S -> T]
    BY <2>1
  <2> QED
    BY <2>2, <2>3 DEF Surjection
<1>8. Cardinality(T) <= Cardinality(S)
  BY <1>6, <1>7, FS_Surjection
<1> QED
  BY <1>2, <1>3, <1>4, <1>5, <1>6, <1>8, FS_CardinalityType DEF TotalClaims

-----------------------------------------------------------------------------
(* The zones of a change *)

ZonesOf(acts, r) == UNION {ZonesFor(act, r) : act \in acts}

LEMMA ZonesOfRegister ==
  ASSUME NEW acts \in SUBSET ZoneActions, NEW r, Charter!IsRegister(r),
         \A act \in acts : act.town \in DOMAIN r
  PROVE  ZonesOf(acts, r) \in SUBSET ZoneIds /\ \A zone \in ZonesOf(acts, r) : zone[1] \in DOMAIN r
<1>1. ASSUME NEW act \in acts, NEW zone \in ZonesFor(act, r)
      PROVE  zone \in ZoneIds /\ zone[1] \in DOMAIN r
  <2>1. act.town \in DOMAIN r /\ act.town \in Names /\ act.chunks \subseteq Chunks
    BY DEF ZoneActions
  <2>2. r[act.town].claims \subseteq Chunks
    BY <2>1, RegisterOf, TownOf
  <2> PICK C : C = IF act.action = "sync" THEN r[act.town].claims ELSE act.chunks
    OBVIOUS
  <2>3. C \subseteq Chunks
    BY <2>1, <2>2
  <2>4. zone \in {act.town} \X C
    BY <1>1 DEF ZonesFor
  <2> QED
    BY <2>1, <2>3, <2>4 DEF ZoneIds
<1> QED
  BY <1>1 DEF ZonesOf

(* The rights the zone should grant for the register, as an Option. *)
Want(register, zone) ==
  IF zone \in ClaimZones(register) THEN {Rights(register[zone[1]])} ELSE {}

Syncs(acts) == {act \in acts : act.action = "sync"}
Removes(acts) == \E act \in acts : act.action = "remove"

(* The zones that the change from before to after rewrites are all that    *)
(* have to be; they are those of the claims there are, before it too, or   *)
(* one zone.                                                               *)
Zonal(before, after, acts) ==
  /\ ZonesOf(acts, after) \subseteq ZoneIds
  /\ ZonesOf(Syncs(acts), before) \subseteq ClaimZones(before)
  /\ \A z \in ZoneIds \ ZonesOf(acts, after) : Want(before, z) = Want(after, z)
  /\ IF Removes(acts) THEN ZonesOf(acts, after) \cap ClaimZones(after) = {}
     ELSE ZonesOf(acts, after) \subseteq ClaimZones(after)
  /\ \/ ZonesOf(acts, after) = ZonesOf(Syncs(acts), before)
     \/ /\ ZonesOf(Syncs(acts), before) = {}
        /\ \A y, z \in ZonesOf(acts, after) : y = z

(* What a command asks the zones of a town for when it is changed. *)
Acts(name, old, new, acts) ==
  \/ acts = {} /\ new.claims = old.claims /\ Rights(new) = Rights(old)
  \/ acts = Sync(name) /\ new.claims = old.claims
  \/ \E c \in Chunks : /\ acts = Add(name, c) /\ new.claims = old.claims \cup {c}
                       /\ Rights(new) = Rights(old)
  \/ \E c \in Chunks : /\ acts = Drop(name, c) /\ new.claims = old.claims \ {c}
                       /\ Rights(new) = Rights(old)

LEMMA SyncZonal ==
  ASSUME NEW r, Charter!IsRegister(r), NEW name \in DOMAIN r
  PROVE  /\ ZonesOf(Sync(name), r) = {z \in ClaimZones(r) : z[1] = name}
         /\ Syncs(Sync(name)) = Sync(name) /\ ~ Removes(Sync(name))
<1> PICK act : act = [action |-> "sync", town |-> name, chunks |-> {}]
  OBVIOUS
<1>1. Sync(name) = {act} /\ act.action = "sync" /\ act.town = name
  BY DEF Sync
<1>2. ZonesOf(Sync(name), r) = {name} \X r[name].claims
  BY <1>1 DEF ZonesOf, ZonesFor
<1>3. name \in Names /\ r[name].claims \subseteq Chunks
  BY RegisterOf, TownOf
<1>4. {name} \X r[name].claims = {z \in ClaimZones(r) : z[1] = name}
  BY <1>3 DEF ClaimZones, ZoneIds
<1> QED
  BY <1>1, <1>2, <1>4 DEF Syncs, Removes

LEMMA OneZonal ==
  ASSUME NEW name, NEW c, NEW r
  PROVE  /\ ZonesOf(Add(name, c), r) = {<<name, c>>} /\ Syncs(Add(name, c)) = {}
         /\ ~ Removes(Add(name, c))
         /\ ZonesOf(Drop(name, c), r) = {<<name, c>>} /\ Syncs(Drop(name, c)) = {}
         /\ Removes(Drop(name, c))
         /\ ZonesOf({}, r) = {} /\ Syncs({}) = {} /\ ~ Removes({})
<1> PICK a, d : /\ a = [action |-> "add", town |-> name, chunks |-> {c}]
                /\ d = [action |-> "remove", town |-> name, chunks |-> {c}]
  OBVIOUS
<1>1. /\ Add(name, c) = {a} /\ a.action = "add" /\ a.town = name /\ a.chunks = {c}
      /\ Drop(name, c) = {d} /\ d.action = "remove" /\ d.town = name /\ d.chunks = {c}
  BY DEF Add, Drop
<1>2. ZonesFor(a, r) = {<<name, c>>} /\ ZonesFor(d, r) = {<<name, c>>}
  BY <1>1 DEF ZonesFor
<1> QED
  BY <1>1, <1>2 DEF ZonesOf, Syncs, Removes

(* Only the zones of the town that is changed, and of these only those the *)
(* actions name, are to be rewritten.                                      *)
LEMMA ActsZonal ==
  ASSUME NEW r, Charter!IsRegister(r), NEW name \in DOMAIN r, NEW town, Charter!IsTown(town),
         NEW za, Acts(name, r[name], town, za)
  PROVE  Zonal(r, With(r, name, town), za)
<1> PICK w : w = With(r, name, town)
  OBVIOUS
<1>1. /\ DOMAIN w = DOMAIN r /\ w[name] = town /\ name \in Names
      /\ \A x \in DOMAIN r \ {name} : w[x] = r[x]
      /\ Charter!IsRegister(w)
  <2>1. name \in Names
    BY RegisterOf
  <2> QED
    BY <2>1, RegisterWith DEF With
<1>2. \A z \in ZoneIds : z[1] # name => Want(r, z) = Want(w, z)
  BY <1>1 DEF Want, ClaimZones
<1>3. ASSUME Rights(town) = Rights(r[name]), NEW z \in ZoneIds,
             z[2] \in town.claims <=> z[2] \in r[name].claims
      PROVE  Want(r, z) = Want(w, z)
  BY <1>1, <1>2, <1>3 DEF Want, ClaimZones
<1>4. /\ \A z \in ClaimZones(r) : z \in ZoneIds
      /\ \A z \in ClaimZones(w) : z \in ZoneIds
      /\ \A c \in Chunks : /\ <<name, c>> \in ZoneIds
                           /\ <<name, c>> \in ClaimZones(w) <=> c \in town.claims
  BY <1>1 DEF ClaimZones, ZoneIds
<1>5. \A c : \A z \in ZoneIds : z # <<name, c>> => z[1] # name \/ z[2] # c
  BY DEF ZoneIds
<1>6. CASE za = {} /\ town.claims = r[name].claims /\ Rights(town) = Rights(r[name])
  <2>1. \A z \in ZoneIds : Want(r, z) = Want(w, z)
    BY <1>3, <1>6
  <2>2. /\ ZonesOf(za, w) = {} /\ Syncs(za) = {} /\ ZonesOf(Syncs(za), r) = {}
        /\ ~ Removes(za)
    BY <1>6, OneZonal
  <2> QED
    BY <2>1, <2>2 DEF Zonal
<1>7. CASE za = Sync(name) /\ town.claims = r[name].claims
  <2>1. /\ ZonesOf(za, w) = {z \in ClaimZones(w) : z[1] = name}
        /\ ZonesOf(za, r) = {z \in ClaimZones(r) : z[1] = name}
        /\ Syncs(za) = za /\ ~ Removes(za)
    BY <1>1, <1>7, SyncZonal
  <2>2. ClaimZones(w) = ClaimZones(r)
    BY <1>1, <1>7 DEF ClaimZones
  <2>3. \A z \in ZoneIds \ ZonesOf(za, w) : Want(r, z) = Want(w, z)
    BY <1>2, <2>1, <2>2 DEF Want
  <2> QED
    BY <1>4, <2>1, <2>2, <2>3 DEF Zonal
<1>8. ASSUME NEW c \in Chunks, za = Add(name, c), town.claims = r[name].claims \cup {c},
             Rights(town) = Rights(r[name])
      PROVE  Zonal(r, w, za)
  <2>1. /\ ZonesOf(za, w) = {<<name, c>>} /\ Syncs(za) = {} /\ ZonesOf(Syncs(za), r) = {}
        /\ ~ Removes(za)
    BY <1>8, OneZonal
  <2>2. \A z \in ZoneIds \ ZonesOf(za, w) : Want(r, z) = Want(w, z)
    BY <1>2, <1>3, <1>5, <1>8, <2>1
  <2> QED
    BY <1>4, <1>8, <2>1, <2>2 DEF Zonal
<1>9. ASSUME NEW c \in Chunks, za = Drop(name, c), town.claims = r[name].claims \ {c},
             Rights(town) = Rights(r[name])
      PROVE  Zonal(r, w, za)
  <2>1. /\ ZonesOf(za, w) = {<<name, c>>} /\ Syncs(za) = {} /\ ZonesOf(Syncs(za), r) = {}
        /\ Removes(za)
    BY <1>9, OneZonal
  <2>2. \A z \in ZoneIds \ ZonesOf(za, w) : Want(r, z) = Want(w, z)
    BY <1>2, <1>3, <1>5, <1>9, <2>1
  <2>3. c \notin town.claims
    BY <1>9
  <2>4. <<name, c>> \in ZoneIds /\ <<name, c>> \notin ClaimZones(w)
    BY <1>4, <1>9, <2>3
  <2>5. ZonesOf(za, w) \cap ClaimZones(w) = {} /\ ZonesOf(za, w) \subseteq ZoneIds
    BY <2>1, <2>4
  <2> QED
    BY <2>1, <2>2, <2>5 DEF Zonal
<1> QED
  BY <1>6, <1>7, <1>8, <1>9 DEF Acts

(* A new town has no zones. *)
LEMMA NothingZonal ==
  ASSUME NEW r, NEW name, name \notin DOMAIN r, NEW town, town.claims = {}
  PROVE  Zonal(r, With(r, name, town), {})
<1> PICK w : w = With(r, name, town)
  OBVIOUS
<1>1. /\ DOMAIN w = DOMAIN r \cup {name} /\ w[name] = town
      /\ \A x \in DOMAIN r : w[x] = r[x] /\ x # name
  BY DEF With
<1>2. \A z \in ZoneIds : Want(r, z) = Want(w, z)
  BY <1>1 DEF Want, ClaimZones
<1> QED
  BY <1>2, OneZonal DEF Zonal

-----------------------------------------------------------------------------
(* Decisions *)

(* What a command may ask Save for: a register, lawful if the towns are,   *)
(* one decision away from them, and zone actions about towns of both.      *)
Proposal(after, zone_action) ==
  /\ Charter!IsRegister(after)
  /\ zone_action \in SUBSET ZoneActions
  /\ \A act \in zone_action : act.town \in DOMAIN towns /\ act.town \in DOMAIN after
  /\ Charter!Lawful(towns) => Charter!Lawful(after) /\ Charter!Change(towns, after)
  /\ Zonal(towns, after, zone_action)

(* The zone actions of an update of one town. *)
About(name, zone_action) ==
  zone_action \in SUBSET ZoneActions /\ \A act \in zone_action : act.town = name

LEMMA AddIs ==
  ASSUME NEW name \in Names, NEW chunk \in Chunks
  PROVE  About(name, Add(name, chunk)) /\ About(name, Drop(name, chunk))
BY DEF Add, Drop, ZoneActions, About

LEMMA SyncIs ==
  ASSUME NEW name \in Names
  PROVE  About(name, Sync(name))
BY DEF Sync, ZoneActions, About

LEMMA ActsAbout ==
  ASSUME NEW name \in Names, NEW old, NEW new, NEW za, Acts(name, old, new, za)
  PROVE  About(name, za)
BY AddIs, SyncIs DEF Acts, About

LEMMA AtMostOneMore ==
  ASSUME NEW S, IsFiniteSet(S), NEW x
  PROVE  /\ IsFiniteSet(S \cup {x}) /\ Cardinality(S \cup {x}) \in Nat
         /\ Cardinality(S) \in Nat
         /\ Cardinality(S \cup {x}) <= Cardinality(S) + 1
<1> PICK T : T = S \cup {x}
  OBVIOUS
<1>1. IsFiniteSet(T) /\ Cardinality(S) \in Nat /\ Cardinality(T) \in Nat
  BY FS_AddElement, FS_CardinalityType
<1>2. CASE x \in S
  <2>1. T = S
    BY <1>2
  <2>2. \A n \in Nat : n <= n + 1
    OBVIOUS
  <2>3. Cardinality(T) = Cardinality(S)
    BY <2>1, Zenon
  <2>4. Cardinality(T) <= Cardinality(S) + 1
    BY <1>1, <2>2, <2>3
  <2> QED
    BY <1>1, <2>4
<1>3. CASE x \notin S
  <2>1. Cardinality(T) = Cardinality(S) + 1
    BY <1>3, FS_AddElement
  <2> QED
    BY <1>1, <2>1
<1> QED
  BY <1>2, <1>3

LEMMA NoMoreWithout ==
  ASSUME NEW S, IsFiniteSet(S), NEW T, NEW n \in Nat, Cardinality(S) <= n
  PROVE  Cardinality(S \ T) <= n
<1>1. S \ T \in SUBSET S
  OBVIOUS
<1>2. /\ IsFiniteSet(S \ T) /\ Cardinality(S \ T) <= Cardinality(S)
      /\ Cardinality(S) \in Nat /\ Cardinality(S \ T) \in Nat
  BY <1>1, FS_Subset, FS_CardinalityType
<1> QED
  BY <1>2

LEMMA LawfulWith ==
  ASSUME NEW r, Charter!Lawful(r), NEW name \in Names, NEW town,
         Charter!IsTown(town), Charter!LawfulTown(town),
         name \in DOMAIN r \/ Cardinality(DOMAIN r) < MaxTowns,
         \A other \in DOMAIN r \ {name} :
            /\ DOMAIN town.members \cap DOMAIN r[other].members = {}
            /\ town.claims \cap r[other].claims = {},
         Cardinality(Claimed(With(r, name, town))) <= MaxClaims
  PROVE  Charter!Lawful(With(r, name, town))
<1>1. /\ Charter!IsRegister(r)
      /\ Cardinality(DOMAIN r) <= MaxTowns
      /\ \A x \in DOMAIN r : Charter!LawfulTown(r[x])
      /\ \A one, other \in DOMAIN r : one # other =>
            /\ DOMAIN r[one].members \cap DOMAIN r[other].members = {}
            /\ r[one].claims \cap r[other].claims = {}
  BY LawfulIs, Zenon
<1> PICK w : w = With(r, name, town)
  OBVIOUS
<1>2. Charter!IsRegister(w)
  BY <1>1, RegisterWith
<1>3. /\ DOMAIN w = DOMAIN r \cup {name} /\ w[name] = town
      /\ \A x \in DOMAIN r \ {name} : w[x] = r[x]
  BY DEF With
<1>4. Cardinality(DOMAIN w) <= MaxTowns
  <2>1. IsFiniteSet(DOMAIN r) /\ Cardinality(DOMAIN r) \in Nat
    BY <1>1, RegisterOf, FS_CardinalityType
  <2>2. CASE name \in DOMAIN r
    <3>1. DOMAIN w = DOMAIN r
      BY <1>3, <2>2
    <3> QED
      BY <1>1, <3>1
  <2>3. CASE name \notin DOMAIN r
    <3>1. Cardinality(DOMAIN w) = Cardinality(DOMAIN r) + 1
      BY <1>3, <2>1, <2>3, FS_AddElement
    <3> QED
      BY <2>1, <2>3, <3>1, SettingsAssumption
  <2> QED
    BY <2>2, <2>3
<1>5. \A x \in DOMAIN w : Charter!LawfulTown(w[x])
  BY <1>1, <1>3, Zenon
<1>6. ASSUME NEW one \in DOMAIN w, NEW other \in DOMAIN w, one # other
      PROVE  /\ DOMAIN w[one].members \cap DOMAIN w[other].members = {}
             /\ w[one].claims \cap w[other].claims = {}
  <2>1. CASE one = name
    <3>1. other \in DOMAIN r \ {name} /\ w[other] = r[other] /\ w[one] = town
      BY <1>3, <1>6, <2>1
    <3> QED
      BY <3>1
  <2>2. CASE other = name
    <3>1. one \in DOMAIN r \ {name} /\ w[one] = r[one] /\ w[other] = town
      BY <1>3, <1>6, <2>2
    <3> QED
      BY <3>1
  <2>3. CASE one # name /\ other # name
    <3>1. one \in DOMAIN r /\ other \in DOMAIN r /\ w[one] = r[one] /\ w[other] = r[other]
      BY <1>3, <2>3
    <3> QED
      BY <1>1, <1>6, <3>1
  <2> QED
    BY <2>1, <2>2, <2>3
<1>7. Cardinality(Claimed(w)) <= MaxClaims
  OBVIOUS
<1> QED
  BY <1>2, <1>4, <1>5, <1>6, <1>7, LawfulIs, Zenon

LEMMA ChangeWith ==
  ASSUME NEW r, NEW name, NEW town,
         IF name \in DOMAIN r THEN Charter!Decision(r[name], town)
         ELSE Charter!Founded(town)
  PROVE  Charter!Change(r, With(r, name, town))
<1> PICK w : w = With(r, name, town)
  OBVIOUS
<1>1. /\ DOMAIN w = DOMAIN r \cup {name} /\ w[name] = town
      /\ \A x \in DOMAIN r \ {name} : w[x] = r[x]
  BY DEF With
<1>2. /\ name \in DOMAIN w
      /\ DOMAIN w \ {name} = DOMAIN r \ {name}
      /\ \A other \in DOMAIN w \ {name} : w[other] = r[other]
      /\ IF name \in DOMAIN r THEN Charter!Decision(r[name], w[name])
         ELSE Charter!Founded(w[name])
  BY <1>1
<1> QED
  BY <1>2 DEF Charter!Change

(* A new version of a town that is there. *)
LEMMA TownChanged ==
  ASSUME Charter!IsRegister(towns), NEW name \in DOMAIN towns, NEW town,
         Charter!IsTown(town),
         NEW za, Acts(name, towns[name], town, za),
         Charter!Lawful(towns) =>
           /\ Charter!LawfulTown(town) /\ Charter!Decision(towns[name], town)
           /\ \A p \in DOMAIN town.members \ DOMAIN towns[name].members : MemberTown(p) = {}
           /\ \A c \in town.claims \ towns[name].claims :
                 ClaimOwner(c) = {} /\ town.claims = towns[name].claims \cup {c}
                   /\ TotalClaims(towns) < MaxClaims
  PROVE  Proposal(With(towns, name, town), za)
<1> PICK w : w = With(towns, name, town)
  OBVIOUS
<1>1. /\ DOMAIN w = DOMAIN towns \cup {name} /\ w[name] = town
      /\ \A x \in DOMAIN towns \ {name} : w[x] = towns[x]
  BY DEF With
<1>2. name \in Names
  BY RegisterOf
<1>3. Charter!IsRegister(w)
  BY <1>2, RegisterWith
<1>4. ASSUME Charter!Lawful(towns)
      PROVE  Charter!Lawful(w) /\ Charter!Change(towns, w)
  <2>1. \A other \in DOMAIN towns \ {name} :
            /\ DOMAIN town.members \cap DOMAIN towns[other].members = {}
            /\ town.claims \cap towns[other].claims = {}
    <3> SUFFICES ASSUME NEW other \in DOMAIN towns \ {name}
                 PROVE  /\ DOMAIN town.members \cap DOMAIN towns[other].members = {}
                        /\ town.claims \cap towns[other].claims = {}
      OBVIOUS
    <3>1. /\ DOMAIN towns[name].members \cap DOMAIN towns[other].members = {}
          /\ towns[name].claims \cap towns[other].claims = {}
      BY <1>4, LawfulIs
    <3>2. \A p \in DOMAIN town.members \ DOMAIN towns[name].members :
             p \notin DOMAIN towns[other].members
      BY <1>4 DEF MemberTown, Members
    <3>3. \A c \in town.claims \ towns[name].claims : c \notin towns[other].claims
      BY <1>4 DEF ClaimOwner
    <3> QED
      BY <3>1, <3>2, <3>3
  <2> PICK C, D : C = Claimed(towns) /\ D = Claimed(w)
    OBVIOUS
  <2>2. IsFiniteSet(C) /\ Cardinality(C) \in Nat /\ Cardinality(C) <= TotalClaims(towns)
           /\ TotalClaims(towns) \in Nat
    BY ClaimedOf
  <2>3. Cardinality(C) <= MaxClaims
    BY <1>4, LawfulIs
  <2>4. Cardinality(D) <= MaxClaims
    <3>1. CASE town.claims \subseteq towns[name].claims
      <4>1. D \subseteq C
        BY <1>1, <3>1 DEF Claimed
      <4>2. Cardinality(D) <= Cardinality(C) /\ Cardinality(D) \in Nat
        BY <2>2, <4>1, FS_Subset, FS_CardinalityType
      <4> QED
        BY <2>2, <2>3, <4>2, SettingsAssumption
    <3>2. CASE ~ (town.claims \subseteq towns[name].claims)
      <4>1. PICK c \in town.claims : c \notin towns[name].claims
        BY <3>2
      <4>2. /\ town.claims = towns[name].claims \cup {c} /\ TotalClaims(towns) < MaxClaims
        BY <1>4, <4>1
      <4>3. D \subseteq C \cup {c}
        BY <1>1, <4>2 DEF Claimed
      <4>4. IsFiniteSet(C \cup {c}) /\ Cardinality(C \cup {c}) <= Cardinality(C) + 1
              /\ Cardinality(C \cup {c}) \in Nat
        BY <2>2, AtMostOneMore
      <4>5. Cardinality(D) <= Cardinality(C \cup {c}) /\ Cardinality(D) \in Nat
        BY <4>3, <4>4, FS_Subset, FS_CardinalityType
      <4> QED
        BY <2>2, <4>2, <4>4, <4>5, SettingsAssumption
    <3> QED
      BY <3>1, <3>2
  <2>5. Charter!Lawful(w)
    BY <1>2, <1>4, <2>1, <2>4, LawfulWith
  <2>6. Charter!Change(towns, w)
    BY <1>4, ChangeWith
  <2> QED
    BY <2>5, <2>6
<1>5. /\ za \in SUBSET ZoneActions
      /\ \A act \in za : act.town \in DOMAIN towns /\ act.town \in DOMAIN w
  BY <1>1, <1>2, ActsAbout DEF About
<1>6. Zonal(towns, w, za)
  BY ActsZonal
<1> QED
  BY <1>3, <1>4, <1>5, <1>6 DEF Proposal

-----------------------------------------------------------------------------
(* What each command proposes *)

LEMMA MemberTownOf ==
  ASSUME Charter!IsRegister(towns), NEW p, NEW name \in MemberTown(p)
  PROVE  /\ name \in DOMAIN towns /\ name \in Names
         /\ p \in DOMAIN towns[name].members
         /\ Charter!IsTown(towns[name])
         /\ Charter!Lawful(towns) => Charter!LawfulTown(towns[name])
BY RegisterOf, LawfulIs DEF MemberTown, Members

LEMMA CreateProposes ==
  ASSUME Charter!IsRegister(towns), NEW p \in Players, NEW name \in Names, NEW town,
         MemberTown(p) = {}, name \notin DOMAIN towns, Cardinality(DOMAIN towns) < MaxTowns,
         town = [leader |-> p, members |-> With(<<>>, p, "leader"),
                 claims |-> {}, trusted |-> {}, public_use |-> FALSE]
  PROVE  Proposal(With(towns, name, town), {})
<1> PICK m : m = With(<<>>, p, "leader")
  OBVIOUS
<1>1. DOMAIN m = {p} /\ m[p] = "leader" /\ m \in [DOMAIN m -> Roles]
  BY DEF With, Roles
<1>2. /\ town.leader = p /\ town.members = m /\ town.claims = {} /\ town.trusted = {}
      /\ town.public_use = FALSE
  OBVIOUS
<1>3. Charter!IsTown(town)
  BY <1>1, IsTownOf
<1>4. Charter!LawfulTown(town)
  <2>1. Cardinality({p}) = 1 /\ Cardinality({}) = 0
    BY FS_Singleton, FS_EmptySet
  <2>2. Cardinality(DOMAIN town.members) <= MaxMembers /\ Cardinality(town.trusted) <= MaxTrusted
    <3>1. DOMAIN town.members = {p} /\ town.trusted = {}
      BY <1>1, <1>2
    <3> QED
      BY <2>1, <3>1, SettingsAssumption
  <2>3. /\ \A q \in DOMAIN town.members : town.members[q] = "leader" <=> q = town.leader
        /\ town.leader \in DOMAIN town.members
        /\ DOMAIN town.members \cap town.trusted = {}
    BY <1>1, <1>2
  <2> QED
    BY <2>2, <2>3, LawfulTownIs
<1> PICK w : w = With(towns, name, town)
  OBVIOUS
<1>5. /\ DOMAIN w = DOMAIN towns \cup {name} /\ w[name] = town
      /\ \A x \in DOMAIN towns \ {name} : w[x] = towns[x]
  BY DEF With
<1>6. Charter!IsRegister(w)
  BY <1>3, RegisterWith
<1>7. ASSUME Charter!Lawful(towns)
      PROVE  Charter!Lawful(w) /\ Charter!Change(towns, w)
  <2>1. \A other \in DOMAIN towns \ {name} :
           /\ DOMAIN town.members \cap DOMAIN towns[other].members = {}
           /\ town.claims \cap towns[other].claims = {}
    BY <1>1, <1>2 DEF MemberTown, Members
  <2>2. Claimed(w) = Claimed(towns)
    <3>1. ASSUME NEW c \in Claimed(w) PROVE c \in Claimed(towns)
      <4>1. PICK x \in DOMAIN w : c \in w[x].claims
        BY <3>1 DEF Claimed
      <4>2. x # name
        BY <1>2, <1>5, <4>1
      <4>3. x \in DOMAIN towns /\ c \in towns[x].claims
        BY <1>5, <4>1, <4>2
      <4> QED
        BY <4>3 DEF Claimed
    <3>2. ASSUME NEW c \in Claimed(towns) PROVE c \in Claimed(w)
      <4>1. PICK x \in DOMAIN towns : c \in towns[x].claims
        BY <3>2 DEF Claimed
      <4>2. x \in DOMAIN w /\ c \in w[x].claims
        BY <1>5, <4>1
      <4> QED
        BY <4>2 DEF Claimed
    <3> QED
      BY <3>1, <3>2
  <2>3. Cardinality(Claimed(w)) <= MaxClaims
    BY <1>7, <2>2, LawfulIs
  <2>4. Charter!Lawful(w)
    BY <1>3, <1>4, <1>7, <2>1, <2>3, LawfulWith
  <2>5. Charter!Founded(town)
    BY <1>1, <1>2 DEF Charter!Founded, Charter!Members
  <2>6. Charter!Change(towns, w)
    BY <2>5, ChangeWith
  <2> QED
    BY <2>4, <2>6
<1>8. Zonal(towns, w, {})
  BY <1>2, <1>3, NothingZonal
<1> QED
  BY <1>6, <1>7, <1>8 DEF Proposal

LEMMA JoinProposes ==
  ASSUME Charter!IsRegister(towns), NEW p \in Players, NEW name \in DOMAIN towns, NEW town,
         MemberTown(p) = {}, Cardinality(Members(towns[name])) < MaxMembers,
         town = [towns[name] EXCEPT !.members = With(@, p, "member"), !.trusted = @ \ {p}]
  PROVE  Proposal(With(towns, name, town), Sync(name))
<1> PICK t, m : t = towns[name] /\ m = With(t.members, p, "member")
  OBVIOUS
<1>1. Charter!IsTown(t) /\ name \in Names
  BY RegisterOf
<1>2. p \notin DOMAIN t.members
  BY DEF MemberTown, Members
<1>3. /\ DOMAIN m = DOMAIN t.members \cup {p} /\ m[p] = "member"
      /\ \A q \in DOMAIN t.members : m[q] = t.members[q]
  BY <1>2 DEF With
<1>4. /\ town.leader = t.leader /\ town.members = m /\ town.claims = t.claims
      /\ town.trusted = t.trusted \ {p} /\ town.public_use = t.public_use
      /\ town = [leader |-> t.leader, members |-> m, claims |-> t.claims,
                 trusted |-> t.trusted \ {p}, public_use |-> t.public_use]
  <2>1. t = [leader |-> t.leader, members |-> t.members, claims |-> t.claims,
             trusted |-> t.trusted, public_use |-> t.public_use]
    BY <1>1, TownOf, Zenon
  <2>2. town = [t EXCEPT !.members = m, !.trusted = t.trusted \ {p}]
    OBVIOUS
  <2> QED
    BY <2>1, <2>2
<1>5. Charter!IsTown(town)
  <2>1. DOMAIN m \subseteq Players /\ m \in [DOMAIN m -> Roles]
    BY <1>1, TownOf DEF With, Roles
  <2>2. /\ t.leader \in Players /\ t.claims \in SUBSET Chunks /\ t.public_use \in BOOLEAN
        /\ t.trusted \ {p} \in SUBSET Players
    BY <1>1, TownOf
  <2> QED
    <3>1. Charter!IsTown([leader |-> t.leader, members |-> m, claims |-> t.claims,
                          trusted |-> t.trusted \ {p}, public_use |-> t.public_use])
      BY <2>1, <2>2, IsTownOf, Zenon
    <3> QED
      BY <1>4, <3>1, Zenon
<1>6. ASSUME Charter!Lawful(towns)
      PROVE  Charter!LawfulTown(town) /\ Charter!Decision(t, town)
  <2>1. /\ \A q \in DOMAIN t.members : t.members[q] = "leader" <=> q = t.leader
        /\ t.leader \in DOMAIN t.members
        /\ DOMAIN t.members \cap t.trusted = {}
        /\ Cardinality(t.trusted) <= MaxTrusted
    BY <1>6, LawfulIs, LawfulTownIs
  <2>2. Cardinality(DOMAIN m) <= MaxMembers
    <3>1. Cardinality(DOMAIN t.members) < MaxMembers
      BY DEF Members
    <3>2. IsFiniteSet(DOMAIN t.members)
      BY <1>1, TownOf
    <3>3. /\ Cardinality(DOMAIN m) \in Nat /\ Cardinality(DOMAIN t.members) \in Nat
          /\ Cardinality(DOMAIN m) <= Cardinality(DOMAIN t.members) + 1
      BY <1>3, <3>2, AtMostOneMore
    <3> QED
      BY <3>1, <3>3, SettingsAssumption
  <2>3. Cardinality(t.trusted \ {p}) <= MaxTrusted
    BY <1>1, <2>1, TownOf, NoMoreWithout, SettingsAssumption
  <2>4. /\ \A q \in DOMAIN m : m[q] = "leader" <=> q = t.leader
        /\ t.leader \in DOMAIN m
        /\ DOMAIN m \cap (t.trusted \ {p}) = {}
    BY <1>2, <1>3, <2>1
  <2>5. Charter!LawfulTown(town)
    BY <1>4, <2>2, <2>3, <2>4, LawfulTownIs
  <2>6. Charter!OnePlayer(t, town)
    BY <1>2, <1>3, <1>4 DEF Charter!OnePlayer, Charter!Members
  <2> QED
    BY <1>4, <2>5, <2>6 DEF Charter!Decision
<1>7. Acts(name, t, town, Sync(name))
  BY <1>4 DEF Acts
<1>8. /\ \A q \in DOMAIN town.members \ DOMAIN towns[name].members : MemberTown(q) = {}
      /\ town.claims \ towns[name].claims = {}
  BY <1>3, <1>4
<1> QED
  BY <1>5, <1>6, <1>7, <1>8, TownChanged

(* A town with one field changed. *)
LEMMA TownExcept ==
  ASSUME NEW t, Charter!IsTown(t), NEW v
  PROVE  /\ [t EXCEPT !.members = v] =
              [leader |-> t.leader, members |-> v, claims |-> t.claims,
               trusted |-> t.trusted, public_use |-> t.public_use]
         /\ [t EXCEPT !.claims = v] =
              [leader |-> t.leader, members |-> t.members, claims |-> v,
               trusted |-> t.trusted, public_use |-> t.public_use]
         /\ [t EXCEPT !.trusted = v] =
              [leader |-> t.leader, members |-> t.members, claims |-> t.claims,
               trusted |-> v, public_use |-> t.public_use]
         /\ [t EXCEPT !.public_use = v] =
              [leader |-> t.leader, members |-> t.members, claims |-> t.claims,
               trusted |-> t.trusted, public_use |-> v]
<1>1. t = [leader |-> t.leader, members |-> t.members, claims |-> t.claims,
           trusted |-> t.trusted, public_use |-> t.public_use]
  BY TownOf, Zenon
<1> QED
  BY <1>1

(* A change of one member: who is added or keeps a place, and who leads.   *)
LEMMA MembersProposed ==
  ASSUME Charter!IsRegister(towns), NEW name \in DOMAIN towns, NEW m, NEW town, NEW p \in Players,
         town = [leader |-> towns[name].leader, members |-> m, claims |-> towns[name].claims,
                 trusted |-> towns[name].trusted, public_use |-> towns[name].public_use],
         DOMAIN m \subseteq DOMAIN towns[name].members, m \in [DOMAIN m -> Roles],
         DOMAIN m \ {p} = DOMAIN towns[name].members \ {p},
         \A q \in DOMAIN m \ {p} : m[q] = towns[name].members[q],
         p # towns[name].leader, p \in DOMAIN m => m[p] # "leader",
         NEW za, Acts(name, towns[name], town, za)
  PROVE  Proposal(With(towns, name, town), za)
<1> PICK t : t = towns[name]
  OBVIOUS
<1>1. Charter!IsTown(t) /\ name \in Names
  BY RegisterOf
<1>2. /\ t.leader \in Players /\ t.claims \in SUBSET Chunks /\ t.trusted \in SUBSET Players
      /\ t.public_use \in BOOLEAN /\ DOMAIN t.members \subseteq Players
      /\ IsFiniteSet(DOMAIN t.members)
  BY <1>1, TownOf
<1>3. town = [leader |-> t.leader, members |-> m, claims |-> t.claims,
              trusted |-> t.trusted, public_use |-> t.public_use]
  OBVIOUS
<1>4. /\ town.leader = t.leader /\ town.members = m /\ town.claims = t.claims
      /\ town.trusted = t.trusted /\ town.public_use = t.public_use
  BY <1>3
<1>5. Charter!IsTown(town)
  <2>1. DOMAIN m \subseteq Players
    BY <1>2
  <2>2. Charter!IsTown([leader |-> t.leader, members |-> m, claims |-> t.claims,
                        trusted |-> t.trusted, public_use |-> t.public_use])
    BY <1>2, <2>1, IsTownOf, Zenon
  <2> QED
    BY <1>3, <2>2, Zenon
<1>6. ASSUME Charter!Lawful(towns)
      PROVE  Charter!LawfulTown(town) /\ Charter!Decision(t, town)
  <2>1. /\ \A q \in DOMAIN t.members : t.members[q] = "leader" <=> q = t.leader
        /\ t.leader \in DOMAIN t.members
        /\ DOMAIN t.members \cap t.trusted = {}
        /\ Cardinality(DOMAIN t.members) <= MaxMembers
        /\ Cardinality(t.trusted) <= MaxTrusted
    BY <1>6, LawfulIs, LawfulTownIs
  <2>2. Cardinality(DOMAIN m) <= MaxMembers
    <3>1. /\ Cardinality(DOMAIN m) <= Cardinality(DOMAIN t.members)
          /\ Cardinality(DOMAIN m) \in Nat /\ Cardinality(DOMAIN t.members) \in Nat
      BY <1>2, FS_Subset, FS_CardinalityType
    <3> QED
      BY <2>1, <3>1, SettingsAssumption
  <2>3. /\ \A q \in DOMAIN m : m[q] = "leader" <=> q = t.leader
        /\ t.leader \in DOMAIN m
        /\ DOMAIN m \cap t.trusted = {}
    BY <2>1
  <2>4. Charter!LawfulTown(town)
    BY <1>4, <2>1, <2>2, <2>3, LawfulTownIs
  <2>5. Charter!OnePlayer(t, town)
    BY <1>4 DEF Charter!OnePlayer, Charter!Members
  <2> QED
    BY <1>4, <2>4, <2>5 DEF Charter!Decision
<1>7. /\ DOMAIN town.members \ DOMAIN towns[name].members = {}
      /\ town.claims \ towns[name].claims = {}
  BY <1>4
<1> QED
  BY <1>5, <1>6, <1>7, TownChanged

(* The claims c and the guests g are lawful for the town called name. *)
LawfulHoldings(name, c, g, town) ==
  Charter!Lawful(towns) =>
    /\ DOMAIN towns[name].members \cap g = {} /\ Cardinality(g) <= MaxTrusted
    /\ \A chunk \in c \ towns[name].claims :
          ClaimOwner(chunk) = {} /\ c = towns[name].claims \cup {chunk}
            /\ TotalClaims(towns) < MaxClaims
    /\ Charter!Decision(towns[name], town)

(* A change of the claims, the guests or the doors. *)
LEMMA OthersProposed ==
  ASSUME Charter!IsRegister(towns), NEW name \in DOMAIN towns,
         NEW c, NEW g, NEW b, NEW town,
         town = [leader |-> towns[name].leader, members |-> towns[name].members,
                 claims |-> c, trusted |-> g, public_use |-> b],
         c \in SUBSET Chunks, g \in SUBSET Players, b \in BOOLEAN,
         LawfulHoldings(name, c, g, town),
         NEW za, Acts(name, towns[name], town, za)
  PROVE  Proposal(With(towns, name, town), za)
<1> PICK t : t = towns[name]
  OBVIOUS
<1>1. Charter!IsTown(t) /\ name \in Names
  BY RegisterOf
<1>2. /\ t.leader \in Players /\ DOMAIN t.members \subseteq Players
      /\ t.members \in [DOMAIN t.members -> Roles]
  BY <1>1, TownOf
<1>3. town = [leader |-> t.leader, members |-> t.members, claims |-> c, trusted |-> g,
              public_use |-> b]
  OBVIOUS
<1>4. /\ town.leader = t.leader /\ town.members = t.members /\ town.claims = c
      /\ town.trusted = g /\ town.public_use = b
  BY <1>3
<1>5. Charter!IsTown(town)
  <2>1. Charter!IsTown([leader |-> t.leader, members |-> t.members, claims |-> c,
                        trusted |-> g, public_use |-> b])
    BY <1>2, IsTownOf, Zenon
  <2> QED
    BY <1>3, <2>1, Zenon
<1>6. ASSUME Charter!Lawful(towns)
      PROVE  Charter!LawfulTown(town)
  <2>1. /\ \A q \in DOMAIN t.members : t.members[q] = "leader" <=> q = t.leader
        /\ t.leader \in DOMAIN t.members
        /\ Cardinality(DOMAIN t.members) <= MaxMembers
    BY <1>6, LawfulIs, LawfulTownIs
  <2>2. DOMAIN t.members \cap g = {} /\ Cardinality(g) <= MaxTrusted
    BY <1>6 DEF LawfulHoldings
  <2> QED
    BY <1>4, <2>1, <2>2, LawfulTownIs
<1>7. /\ DOMAIN town.members \ DOMAIN towns[name].members = {}
      /\ town.claims = c
  BY <1>4
<1>8. ASSUME Charter!Lawful(towns)
      PROVE  /\ Charter!Decision(towns[name], town)
             /\ \A chunk \in c \ towns[name].claims :
                   ClaimOwner(chunk) = {} /\ c = towns[name].claims \cup {chunk}
                     /\ TotalClaims(towns) < MaxClaims
  BY <1>8 DEF LawfulHoldings
<1> QED
  BY <1>5, <1>6, <1>7, <1>8, TownChanged

(* The requests a callback may return beside those of an update. *)
Chatter == [type: {"query"}, query: Queries] \cup [type: {"timer"}, player: Players]

(* What a callback does that neither storage nor a zone answers to: the    *)
(* memory stays, and at most one update is proposed or one question asked. *)
Decided ==
  /\ UNCHANGED memory
  /\ \/ UNCHANGED <<pending, outbox>>
     \/ \E c \in Chatter : pending' = pending /\ outbox' = Append(outbox, c)
     \/ \E after, zone_action : Proposal(after, zone_action) /\ Save(after, zone_action)

LEMMA ChangeDecides ==
  ASSUME NEW name, NEW town, NEW za, Proposal(With(towns, name, town), za),
         Change(name, town, za)
  PROVE  Decided
BY DEF Decided, Change

LEMMA CreateDecides ==
  ASSUME Charter!IsRegister(towns), NEW p \in Players, NEW name \in Names, Create(p, name)
  PROVE  Decided
<1> PICK town : town = [leader |-> p, members |-> With(<<>>, p, "leader"),
                        claims |-> {}, trusted |-> {}, public_use |-> FALSE]
  OBVIOUS
<1>1. Proposal(With(towns, name, town), {})
  BY CreateProposes DEF Create
<1>2. Change(name, town, {})
  BY DEF Create
<1> QED
  BY <1>1, <1>2, ChangeDecides

LEMMA JoinDecides ==
  ASSUME Charter!IsRegister(towns), NEW p \in Players, NEW name \in Names, Join(p, name)
  PROVE  Decided
<1> PICK town : town = [towns[name] EXCEPT !.members = With(@, p, "member"),
                                           !.trusted = @ \ {p}]
  OBVIOUS
<1>1. Proposal(With(towns, name, town), Sync(name))
  BY JoinProposes DEF Join
<1>2. Change(name, town, Sync(name))
  BY DEF Join
<1> QED
  BY <1>1, <1>2, ChangeDecides

LEMMA LeaveDecides ==
  ASSUME Charter!IsRegister(towns), NEW p \in Players, Leave(p)
  PROVE  Decided
<1> PICK name \in MemberTown(p) :
       /\ towns[name].leader # p
       /\ Change(name, [towns[name] EXCEPT !.members = Without(@, {p})], Sync(name))
  BY DEF Leave
<1> PICK m, town : /\ m = Without(towns[name].members, {p})
                   /\ town = [towns[name] EXCEPT !.members = Without(@, {p})]
  OBVIOUS
<1>1. name \in DOMAIN towns /\ name \in Names /\ Charter!IsTown(towns[name])
  BY MemberTownOf
<1>2. DOMAIN m = DOMAIN towns[name].members \ {p}
        /\ \A q \in DOMAIN m : m[q] = towns[name].members[q]
  BY DEF Without
<1>3. m \in [DOMAIN m -> Roles]
  <2>1. towns[name].members \in [DOMAIN towns[name].members -> Roles]
    BY <1>1, TownOf
  <2> QED
    BY <1>2, <2>1 DEF Without
<1>4. Proposal(With(towns, name, town), Sync(name))
  <2>1. town = [leader |-> towns[name].leader, members |-> m, claims |-> towns[name].claims,
                trusted |-> towns[name].trusted, public_use |-> towns[name].public_use]
    BY <1>1, TownExcept
  <2> QED
    <3>1. /\ DOMAIN m \subseteq DOMAIN towns[name].members
          /\ DOMAIN m \ {p} = DOMAIN towns[name].members \ {p}
          /\ \A q \in DOMAIN m \ {p} : m[q] = towns[name].members[q]
          /\ p # towns[name].leader /\ p \notin DOMAIN m
      BY <1>2
    <3> PICK za : za = Sync(name)
      OBVIOUS
    <3>2. Acts(name, towns[name], town, za)
      BY <2>1 DEF Acts
    <3>3. Proposal(With(towns, name, town), za)
      BY <1>1, <1>3, <2>1, <3>1, <3>2, MembersProposed
    <3> QED
      BY <3>3
<1> QED
  BY <1>4, ChangeDecides

LEMMA SetRoleDecides ==
  ASSUME Charter!IsRegister(towns), NEW p \in Players, NEW target \in Players,
         NEW role \in {"officer", "member"}, SetRole(p, target, role)
  PROVE  Decided
<1> PICK name \in MemberTown(p) :
       /\ towns[name].leader = p
       /\ target \in Members(towns[name]) \ {p}
       /\ Change(name, [towns[name] EXCEPT !.members[target] = role], {})
  BY DEF SetRole
<1> PICK m, town : /\ m = [towns[name].members EXCEPT ![target] = role]
                   /\ town = [towns[name] EXCEPT !.members[target] = role]
  OBVIOUS
<1>1. name \in DOMAIN towns /\ name \in Names /\ Charter!IsTown(towns[name])
  BY MemberTownOf
<1>2. /\ DOMAIN m = DOMAIN towns[name].members /\ target \in DOMAIN m
      /\ \A q \in DOMAIN m \ {target} : m[q] = towns[name].members[q]
      /\ m[target] = role
  BY DEF Members
<1>3. m \in [DOMAIN m -> Roles]
  <2>1. towns[name].members \in [DOMAIN towns[name].members -> Roles]
    BY <1>1, TownOf
  <2> QED
    BY <1>2, <2>1 DEF Roles
<1>4. Proposal(With(towns, name, town), {})
  <2>1. town = [leader |-> towns[name].leader, members |-> m, claims |-> towns[name].claims,
                trusted |-> towns[name].trusted, public_use |-> towns[name].public_use]
    <3>1. town = [towns[name] EXCEPT !.members = m]
      OBVIOUS
    <3> QED
      BY <1>1, <3>1, TownExcept
  <2>2. target # towns[name].leader /\ m[target] # "leader"
    BY <1>2
  <2> PICK none : none = {}
    OBVIOUS
  <2>3. Acts(name, towns[name], town, none)
    BY <1>2, <2>1 DEF Acts, Rights, Members
  <2>4. Proposal(With(towns, name, town), none)
    BY <1>1, <1>2, <1>3, <2>1, <2>2, <2>3, MembersProposed
  <2> QED
    BY <2>4
<1> QED
  BY <1>4, ChangeDecides

LEMMA ClaimDecides ==
  ASSUME Charter!IsRegister(towns), NEW p \in Players, NEW chunk \in Chunks,
         ClaimChunk(p, chunk)
  PROVE  Decided
<1>0. PICK name \in MemberTown(p) :
        /\ ClaimOwner(chunk) = {}
        /\ TotalClaims(towns) < MaxClaims
        /\ Change(name, [towns[name] EXCEPT !.claims = @ \cup {chunk}], Add(name, chunk))
  BY DEF ClaimChunk
<1>p. PICK t, c, town, za : /\ t = towns[name] /\ c = t.claims \cup {chunk}
                            /\ town = [t EXCEPT !.claims = c]
                            /\ za = Add(name, chunk)
  OBVIOUS
<1>1. /\ name \in DOMAIN towns /\ name \in Names /\ Charter!IsTown(t)
      /\ Charter!Lawful(towns) => Charter!LawfulTown(t)
  BY <1>0, <1>p, MemberTownOf
<1>2. c \in SUBSET Chunks /\ t.trusted \in SUBSET Players /\ t.public_use \in BOOLEAN
  BY <1>1, <1>p, TownOf
<1>3. town = [leader |-> t.leader, members |-> t.members, claims |-> c,
              trusted |-> t.trusted, public_use |-> t.public_use]
  BY <1>1, <1>p, TownExcept
<1>4. ASSUME Charter!Lawful(towns)
      PROVE  /\ DOMAIN t.members \cap t.trusted = {} /\ Cardinality(t.trusted) <= MaxTrusted
             /\ Charter!Decision(t, town)
  BY <1>1, <1>3, <1>4, <1>p, LawfulTownIs DEF Charter!Decision
<1>5. \A other \in c \ t.claims : other = chunk
  BY <1>p
<1>6. Acts(name, towns[name], town, za)
  BY <1>3, <1>p DEF Acts, Rights, Members
<1>7. Proposal(With(towns, name, town), za)
  <2>1. town = [leader |-> towns[name].leader, members |-> towns[name].members,
                claims |-> c, trusted |-> t.trusted, public_use |-> t.public_use]
    BY <1>3, <1>p
  <2>2. LawfulHoldings(name, c, t.trusted, town)
    BY <1>0, <1>4, <1>5, <1>p DEF LawfulHoldings
  <2> QED
    BY <1>1, <1>2, <1>6, <2>1, <2>2, OthersProposed
<1>8. Change(name, town, za)
  BY <1>0, <1>p
<1> QED
  BY <1>7, <1>8, ChangeDecides

LEMMA UnclaimDecides ==
  ASSUME Charter!IsRegister(towns), NEW p \in Players, NEW chunk \in Chunks,
         UnclaimChunk(p, chunk)
  PROVE  Decided
<1> PICK name \in MemberTown(p) :
       /\ chunk \in towns[name].claims
       /\ Change(name, [towns[name] EXCEPT !.claims = @ \ {chunk}], Drop(name, chunk))
  BY DEF UnclaimChunk
<1> PICK t, c, town, za : /\ t = towns[name] /\ c = t.claims \ {chunk}
                          /\ town = [t EXCEPT !.claims = c]
                          /\ za = Drop(name, chunk)
  OBVIOUS
<1>1. /\ name \in DOMAIN towns /\ name \in Names /\ Charter!IsTown(t)
      /\ Charter!Lawful(towns) => Charter!LawfulTown(t)
  BY MemberTownOf
<1>2. c \in SUBSET Chunks /\ t.trusted \in SUBSET Players /\ t.public_use \in BOOLEAN
  BY <1>1, TownOf
<1>3. town = [leader |-> t.leader, members |-> t.members, claims |-> c,
              trusted |-> t.trusted, public_use |-> t.public_use]
  BY <1>1, TownExcept
<1>4. ASSUME Charter!Lawful(towns)
      PROVE  /\ DOMAIN t.members \cap t.trusted = {} /\ Cardinality(t.trusted) <= MaxTrusted
             /\ Charter!Decision(t, town)
  BY <1>1, <1>3, <1>4, LawfulTownIs DEF Charter!Decision
<1>5. c \ t.claims = {}
  OBVIOUS
<1>6. Acts(name, t, town, za)
  BY <1>3 DEF Acts, Rights, Members
<1>7. Proposal(With(towns, name, town), za)
  <2>1. town = [leader |-> towns[name].leader, members |-> towns[name].members,
                claims |-> c, trusted |-> t.trusted, public_use |-> t.public_use]
    BY <1>3
  <2>2. LawfulHoldings(name, c, t.trusted, town)
    BY <1>4, <1>5 DEF LawfulHoldings
  <2> QED
    BY <1>1, <1>2, <1>6, <2>1, <2>2, OthersProposed
<1>8. Change(name, town, za)
  OBVIOUS
<1> QED
  BY <1>7, <1>8, ChangeDecides

LEMMA FlagDecides ==
  ASSUME Charter!IsRegister(towns), NEW p \in Players, NEW enabled \in BOOLEAN,
         Flag(p, enabled)
  PROVE  Decided
<1> PICK name \in MemberTown(p) :
       Change(name, [towns[name] EXCEPT !.public_use = enabled], Sync(name))
  BY DEF Flag
<1> PICK t, town, za : /\ t = towns[name]
                       /\ town = [t EXCEPT !.public_use = enabled]
                       /\ za = Sync(name)
  OBVIOUS
<1>1. /\ name \in DOMAIN towns /\ name \in Names /\ Charter!IsTown(t)
      /\ Charter!Lawful(towns) => Charter!LawfulTown(t)
  BY MemberTownOf
<1>2. t.claims \in SUBSET Chunks /\ t.trusted \in SUBSET Players
  BY <1>1, TownOf
<1>3. town = [leader |-> t.leader, members |-> t.members, claims |-> t.claims,
              trusted |-> t.trusted, public_use |-> enabled]
  BY <1>1, TownExcept
<1>4. ASSUME Charter!Lawful(towns)
      PROVE  /\ DOMAIN t.members \cap t.trusted = {} /\ Cardinality(t.trusted) <= MaxTrusted
             /\ Charter!Decision(t, town)
  BY <1>1, <1>3, <1>4, LawfulTownIs DEF Charter!Decision
<1>5. t.claims \ t.claims = {}
  OBVIOUS
<1>6. Acts(name, t, town, za)
  BY <1>3 DEF Acts
<1>7. Proposal(With(towns, name, town), za)
  <2>1. town = [leader |-> towns[name].leader, members |-> towns[name].members,
                claims |-> t.claims, trusted |-> t.trusted, public_use |-> enabled]
    BY <1>3
  <2>2. LawfulHoldings(name, t.claims, t.trusted, town)
    BY <1>4, <1>5 DEF LawfulHoldings
  <2> QED
    BY <1>1, <1>2, <1>6, <2>1, <2>2, OthersProposed
<1>8. Change(name, town, za)
  OBVIOUS
<1> QED
  BY <1>7, <1>8, ChangeDecides

(* The guest lists of a proposal: a guest more, who is no member, or one   *)
(* less.                                                                   *)
LEMMA SetTrustedProposes ==
  ASSUME Charter!IsRegister(towns), NEW name, NEW guest \in Players, NEW add \in BOOLEAN,
         SetTrusted(name, guest, add)
  PROVE  \/ UNCHANGED <<pending, outbox>>
         \/ \E after, zone_action : Proposal(after, zone_action) /\ Save(after, zone_action)
<1> PICK t, za : t = towns[name] /\ za = Sync(name)
  OBVIOUS
<1>0. PICK g : g = IF add THEN t.trusted \cup {guest} ELSE t.trusted \ {guest}
  OBVIOUS
<1> PICK town : town = [t EXCEPT !.trusted = g]
  OBVIOUS
<1>s. SUFFICES ASSUME name \in DOMAIN towns,
                      IF add THEN /\ guest \notin Members(t) \cup t.trusted
                                  /\ Cardinality(t.trusted) < MaxTrusted
                             ELSE guest \in t.trusted,
                      Save(With(towns, name, town), za)
               PROVE  \E after, zone_action : Proposal(after, zone_action) /\ Save(after, zone_action)
  BY <1>0 DEF SetTrusted
<1>1. Charter!IsTown(t) /\ name \in Names
  BY <1>s, RegisterOf
<1>2. t.claims \in SUBSET Chunks /\ g \in SUBSET Players /\ t.public_use \in BOOLEAN
        /\ IsFiniteSet(t.trusted)
  BY <1>0, <1>1, TownOf
<1>3. town = [leader |-> t.leader, members |-> t.members, claims |-> t.claims,
              trusted |-> g, public_use |-> t.public_use]
  BY <1>1, TownExcept
<1>4. ASSUME Charter!Lawful(towns)
      PROVE  /\ DOMAIN t.members \cap g = {} /\ Cardinality(g) <= MaxTrusted
             /\ Charter!Decision(t, town)
  <2>1. DOMAIN t.members \cap t.trusted = {} /\ Cardinality(t.trusted) <= MaxTrusted
    BY <1>4, <1>s, LawfulIs, LawfulTownIs
  <2>2. DOMAIN t.members \cap g = {}
    BY <1>0, <2>1, <1>s DEF Members
  <2>3. Cardinality(g) <= MaxTrusted
    <3>1. CASE add
      <4>1. /\ Cardinality(g) \in Nat /\ Cardinality(t.trusted) \in Nat
            /\ Cardinality(g) <= Cardinality(t.trusted) + 1
        BY <1>0, <1>2, <3>1, AtMostOneMore
      <4> QED
        BY <1>s, <3>1, <4>1, SettingsAssumption
    <3>2. CASE ~ add
      BY <1>0, <1>2, <2>1, <3>2, NoMoreWithout, SettingsAssumption
    <3> QED
      BY <3>1, <3>2
  <2>4. Charter!Decision(t, town)
    BY <1>0, <1>3 DEF Charter!Decision
  <2> QED
    BY <2>2, <2>3, <2>4
<1>5. t.claims \ t.claims = {}
  OBVIOUS
<1>6. Acts(name, t, town, za)
  BY <1>3 DEF Acts
<1>7. Proposal(With(towns, name, town), za)
  <2>1. town = [leader |-> towns[name].leader, members |-> towns[name].members,
                claims |-> t.claims, trusted |-> g, public_use |-> t.public_use]
    BY <1>3
  <2>2. LawfulHoldings(name, t.claims, g, town)
    BY <1>4, <1>5 DEF LawfulHoldings
  <2> QED
    BY <1>2, <1>6, <2>1, <2>2, <1>s, OthersProposed
<1> QED
  BY <1>7, <1>s

-----------------------------------------------------------------------------
(* Batches *)

LEMMA SetToSeqOf ==
  ASSUME NEW S, IsFiniteSet(S)
  PROVE  /\ SetToSeq(S) \in Seq(S) /\ ToSet(SetToSeq(S)) = S
         /\ \A i, j \in DOMAIN SetToSeq(S) : SetToSeq(S)[i] = SetToSeq(S)[j] => i = j
<1> PICK n : n = Cardinality(S)
  OBVIOUS
<1>1. n \in Nat /\ ExistsBijection(1 .. n, S)
  BY FS_CardinalityType
<1>2. PICK f : f \in Bijection(1 .. n, S)
  BY <1>1 DEF ExistsBijection
<1>3. f \in [1 .. n -> S] /\ IsInjective(f)
  BY <1>2 DEF Bijection, Injection, IsInjective
<1> PICK s : s = SetToSeq(S)
  OBVIOUS
<1>4. s \in [1 .. n -> S] /\ IsInjective(s)
  BY <1>3 DEF SetToSeq
<1>5. s \in Seq(S) /\ DOMAIN s = 1 .. n
  BY <1>1, <1>4
<1>6. s \in Injection(1 .. n, S)
  BY <1>4 DEF Injection, IsInjective
<1>7. IsFiniteSet(1 .. n) /\ Cardinality(1 .. n) = n
  BY <1>1, FS_Interval
<1>8. ToSet(s) = S
  <2>1. s \in Surjection(1 .. n, S)
    BY <1>6, <1>7, FS_Injection
  <2> QED
    BY <1>5, <2>1 DEF Surjection, ToSet
<1>9. \A i, j \in DOMAIN s : s[i] = s[j] => i = j
  BY <1>4 DEF IsInjective
<1> QED
  BY <1>5, <1>8, <1>9

IsCommand(c) ==
  IsStorageCall(c) \/ c \in ZoneCalls \/ c \in [type: {"timer"}, player: Players]

IsBatch(b) == b \in Seq(ToSet(b)) /\ \A c \in ToSet(b) : IsCommand(c)

LEMMA CommandIs ==
  ASSUME NEW c, IsCommand(c)
  PROVE  /\ c.type \in {"get", "query", "cas", "upsert", "remove", "timer"}
         /\ c.type \in {"get", "cas", "query"} => IsStorageCall(c)
         /\ c.type \in {"upsert", "remove"} => c \in ZoneCalls
         /\ c.type = "timer" => c.player \in Players
         /\ c.type = "get" => c = Get
BY DEF IsCommand, IsStorageCall, ZoneCalls, Get

LEMMA EmptyBatch == IsBatch(<<>>) /\ ToSet(<<>>) = {}
BY DEF IsBatch, ToSet

LEMMA AppendBatch ==
  ASSUME NEW b, IsBatch(b), NEW c, IsCommand(c)
  PROVE  /\ IsBatch(Append(b, c)) /\ ToSet(Append(b, c)) = ToSet(b) \cup {c}
         /\ DOMAIN Append(b, c) = DOMAIN b \cup {Len(b) + 1}
         /\ Append(b, c)[Len(b) + 1] = c
         /\ \A i \in DOMAIN b : Append(b, c)[i] = b[i] /\ i # Len(b) + 1
<1> PICK n, T, d : n = Len(b) /\ T = ToSet(b) \cup {c} /\ d = Append(b, c)
  OBVIOUS
<1>1. b \in Seq(ToSet(b)) /\ n \in Nat /\ DOMAIN b = 1 .. n
  BY DEF IsBatch
<1>2. \A i \in 1 .. n : b[i] \in T
  BY <1>1
<1>3. b \in Seq(T) /\ c \in T
  BY <1>1
<1>4. d \in Seq(T) /\ Len(d) = n + 1
  BY <1>3
<1>5. /\ DOMAIN d = DOMAIN b \cup {n + 1} /\ d[n + 1] = c
      /\ \A i \in DOMAIN b : d[i] = b[i] /\ i # n + 1
  BY <1>1, <1>3, <1>4
<1>6. ToSet(d) = T
  BY <1>1, <1>5 DEF ToSet
<1>7. IsBatch(d)
  BY <1>4, <1>6 DEF IsBatch
<1> QED
  BY <1>5, <1>6, <1>7

LEMMA ConcatBatch ==
  ASSUME NEW b, IsBatch(b), NEW S, NEW s \in Seq(S), \A c \in S : IsCommand(c)
  PROVE  /\ IsBatch(b \o s) /\ ToSet(b \o s) = ToSet(b) \cup ToSet(s)
         /\ DOMAIN (b \o s) = 1 .. Len(b) + Len(s)
         /\ \A i \in 1 .. Len(b) : (b \o s)[i] = b[i]
         /\ \A i \in 1 .. Len(s) : (b \o s)[Len(b) + i] = s[i]
<1> PICK n, m, T, d :
       n = Len(b) /\ m = Len(s) /\ T = ToSet(b) \cup ToSet(s) /\ d = b \o s
  OBVIOUS
<1>1. b \in Seq(ToSet(b)) /\ n \in Nat /\ DOMAIN b = 1 .. n
  BY DEF IsBatch
<1>2. m \in Nat /\ DOMAIN s = 1 .. m /\ s \in Seq(ToSet(s))
  BY DEF ToSet
<1>3. b \in Seq(T) /\ s \in Seq(T)
  BY <1>1, <1>2
<1>4. d \in Seq(T) /\ Len(d) = n + m
  BY <1>3
<1>5. /\ DOMAIN d = 1 .. n + m
      /\ \A i \in 1 .. n : d[i] = b[i]
      /\ \A i \in 1 .. m : d[n + i] = s[i]
  BY <1>1, <1>2, <1>3, <1>4
<1>6. ToSet(d) = T
  <2>1. \A x \in ToSet(d) : x \in T
    BY <1>4 DEF ToSet
  <2>2. ASSUME NEW x \in ToSet(b) PROVE x \in ToSet(d)
    <3>1. PICK i \in 1 .. n : b[i] = x
      BY <1>1 DEF ToSet
    <3>2. i \in DOMAIN d /\ d[i] = x
      BY <1>1, <1>2, <1>5, <3>1
    <3> QED
      BY <3>2 DEF ToSet
  <2>3. ASSUME NEW x \in ToSet(s) PROVE x \in ToSet(d)
    <3>1. PICK i \in 1 .. m : s[i] = x
      BY <1>2 DEF ToSet
    <3>2. n + i \in DOMAIN d /\ d[n + i] = x
      BY <1>1, <1>2, <1>5, <3>1
    <3> QED
      BY <3>2 DEF ToSet
  <2> QED
    BY <2>1, <2>2, <2>3
<1>7. \A c \in ToSet(s) : IsCommand(c)
  BY <1>2 DEF ToSet
<1>8. IsBatch(d)
  BY <1>4, <1>6, <1>7 DEF IsBatch
<1> QED
  BY <1>5, <1>6, <1>8

LEMMA UpsertAllOf ==
  ASSUME NEW r, Charter!IsRegister(r), NEW ids \in SUBSET ZoneIds,
         \A zone \in ids : zone[1] \in DOMAIN r
  PROVE  /\ UpsertAll(r, ids) \in Seq(ZoneCalls)
         /\ ToSet(UpsertAll(r, ids)) = {UpsertClaim(r, zone) : zone \in ids}
         /\ \A i, j \in DOMAIN UpsertAll(r, ids) :
               UpsertAll(r, ids)[i].zone = UpsertAll(r, ids)[j].zone => i = j
<1> PICK S, f : S = {UpsertClaim(r, zone) : zone \in ids}
                  /\ f = [zone \in ids |-> UpsertClaim(r, zone)]
  OBVIOUS
<1>1. IsFiniteSet(ids)
  <2>1. IsFiniteSet(ZoneIds)
    BY FinitenessAssumption, FS_Product DEF ZoneIds
  <2> QED
    BY <2>1, FS_Subset
<1>2. f \in Surjection(ids, S)
  BY DEF Surjection
<1>3. IsFiniteSet(S)
  BY <1>1, <1>2, FS_Surjection
<1>4. \A zone \in ids : UpsertClaim(r, zone) \in ZoneCalls
  <2> SUFFICES ASSUME NEW zone \in ids
               PROVE  UpsertClaim(r, zone) \in ZoneCalls
    OBVIOUS
  <2> PICK t : t = r[zone[1]]
    OBVIOUS
  <2>1. Charter!IsTown(t)
    BY RegisterOf
  <2>2. DOMAIN t.members \cup t.trusted \in SUBSET Players /\ t.public_use \in BOOLEAN
    BY <2>1, TownOf
  <2>3. Rights(t) \in RightsRecords
    BY <2>2 DEF Rights, RightsRecords, Members
  <2> QED
    BY <2>3 DEF UpsertClaim, ZoneCalls
<1>5. S \subseteq ZoneCalls
  BY <1>4
<1> PICK s : s = SetToSeq(S)
  OBVIOUS
<1>6. s \in Seq(S) /\ ToSet(s) = S /\ \A i, j \in DOMAIN s : s[i] = s[j] => i = j
  BY <1>3, SetToSeqOf
<1>7. s \in Seq(ZoneCalls)
  BY <1>5, <1>6
<1>8. \A x, y \in S : x.zone = y.zone => x = y
  BY DEF UpsertClaim
<1>9. \A i, j \in DOMAIN s : s[i].zone = s[j].zone => i = j
  BY <1>6, <1>8
<1> QED
  BY <1>6, <1>7, <1>9 DEF UpsertAll

LEMMA RemoveAllOf ==
  ASSUME NEW ids \in SUBSET ZoneIds, NEW s, s = SetToSeq({RemoveZone(zone) : zone \in ids})
  PROVE  /\ s \in Seq(ZoneCalls) /\ ToSet(s) = {RemoveZone(zone) : zone \in ids}
         /\ \A i, j \in DOMAIN s : s[i].zone = s[j].zone => i = j
<1> PICK S, f : S = {RemoveZone(zone) : zone \in ids}
                  /\ f = [zone \in ids |-> RemoveZone(zone)]
  OBVIOUS
<1>1. IsFiniteSet(ids)
  <2>1. IsFiniteSet(ZoneIds)
    BY FinitenessAssumption, FS_Product DEF ZoneIds
  <2> QED
    BY <2>1, FS_Subset
<1>2. f \in Surjection(ids, S)
  BY DEF Surjection
<1>3. IsFiniteSet(S)
  BY <1>1, <1>2, FS_Surjection
<1>4. S \subseteq ZoneCalls
  BY DEF RemoveZone, ZoneCalls
<1>5. s \in Seq(S) /\ ToSet(s) = S /\ \A i, j \in DOMAIN s : s[i] = s[j] => i = j
  BY <1>3, SetToSeqOf
<1>6. s \in Seq(ZoneCalls)
  BY <1>4, <1>5
<1>7. \A x, y \in S : x.zone = y.zone => x = y
  BY DEF RemoveZone
<1>8. \A i, j \in DOMAIN s : s[i].zone = s[j].zone => i = j
  <2>1. \A i \in DOMAIN s : s[i] \in S
    BY <1>5 DEF ToSet
  <2> QED
    BY <1>5, <1>7, <2>1, Zenon
<1> QED
  BY <1>5, <1>6, <1>8

LEMMA ZoneCommandsOfBatch ==
  ASSUME NEW b, IsBatch(b)
  PROVE  /\ ZoneCommandsOf(b) \in Seq(ZoneCalls)
         /\ ToSet(ZoneCommandsOf(b)) = {c \in ToSet(b) : c.type \in {"upsert", "remove"}}
<1> PICK l, S : /\ l = Len(b)
                /\ S = {i \in DOMAIN b : b[i].type \in {"upsert", "remove"}}
  OBVIOUS
<1>1. l \in Nat /\ DOMAIN b = 1 .. l /\ S \in SUBSET (1 .. l)
  BY DEF IsBatch
<1> PICK at, n : at = InOrder(S) /\ n = Cardinality(S)
  OBVIOUS
<1>2. n \in Nat /\ at \in [1 .. n -> S] /\ ToSet(at) = S
  BY <1>1, InOrderOf DEF Lists
<1> PICK z : z = [i \in 1 .. n |-> b[at[i]]]
  OBVIOUS
<1>3. ZoneCommandsOf(b) = z
  BY <1>2 DEF ZoneCommandsOf
<1>4. \A i \in S : b[i] \in ZoneCalls
  <2>1. \A i \in S : IsCommand(b[i]) /\ b[i].type \in {"upsert", "remove"}
    BY DEF IsBatch, ToSet
  <2> QED
    BY <2>1, CommandIs
<1>5. z \in [1 .. n -> ZoneCalls]
  BY <1>2, <1>4
<1>6. z \in Seq(ZoneCalls)
  BY <1>2, <1>5
<1>7. ToSet(z) = {b[i] : i \in S}
  <2>1. \A i \in 1 .. n : at[i] \in S /\ z[i] = b[at[i]]
    BY <1>2
  <2>2. \A j \in S : \E i \in 1 .. n : at[i] = j
    BY <1>2 DEF ToSet
  <2>3. \A x \in ToSet(z) : x \in {b[i] : i \in S}
    BY <1>5, <2>1 DEF ToSet
  <2>4. ASSUME NEW j \in S PROVE b[j] \in ToSet(z)
    <3>1. PICK i \in 1 .. n : at[i] = j
      BY <2>2
    <3>2. z[i] = b[j] /\ i \in DOMAIN z
      BY <2>1, <3>1
    <3> QED
      BY <3>2 DEF ToSet
  <2> QED
    BY <2>3, <2>4
<1>8. {b[i] : i \in S} = {c \in ToSet(b) : c.type \in {"upsert", "remove"}}
  BY DEF ToSet
<1> QED
  BY <1>3, <1>6, <1>7, <1>8

-----------------------------------------------------------------------------
(* Types *)

MemoryTyped ==
  /\ Charter!IsRegister(towns)
  /\ storage_version \in Nat
  /\ loaded \in BOOLEAN
  /\ startup_zones \in SUBSET [remaining: (SUBSET ZoneIds) \ {{}}, failed: BOOLEAN]

(* The zone actions of an update are about towns there are before it and   *)
(* after it: their zones can be written for either.                        *)
UpdateTyped(u) ==
  /\ IsUpdate(u)
  /\ \A act \in u.zone_action : act.town \in DOMAIN u.before /\ act.town \in DOMAIN u.after

InvitingTyped ==
  /\ pending_queries \in SUBSET Queries
  /\ DOMAIN invites \subseteq Players
  /\ invites \in [DOMAIN invites -> Names]
  /\ invite_timers \in SUBSET Players

StoreTyped ==
  /\ store \in [version: Nat, value: {store.value}]
  /\ Charter!IsRegister(store.value)

ZonesTyped ==
  /\ DOMAIN zones \subseteq ZoneIds
  /\ zones \in [DOMAIN zones -> RightsRecords]
  /\ refusals \in Nat

(* The type invariant, with what its proof needs: the outbox is a sequence *)
(* and an update's zone actions are about towns there are.                 *)
Typed ==
  /\ MemoryTyped /\ InvitingTyped /\ StoreTyped /\ ZonesTyped
  /\ \A u \in pending : UpdateTyped(u)
  /\ IsBatch(outbox)
  /\ \A c \in calls : IsStorageCall(c)
  /\ \A a \in answers : IsAnswer(a)
  /\ zone_calls \in Seq(ZoneCalls)
  /\ zone_answers \in Seq([zone: ZoneIds, applied: BOOLEAN])
  /\ timers \in SUBSET Players

LEMMA TypedIsTypeOK == Typed => TypeOK
<1> SUFFICES ASSUME Typed PROVE TypeOK
  OBVIOUS
<1>1. \A i \in DOMAIN outbox : \/ IsStorageCall(outbox[i])
                               \/ outbox[i] \in ZoneCalls
                               \/ outbox[i] \in [type: {"timer"}, player: Players]
  BY DEF Typed, IsBatch, IsCommand, ToSet
<1>2. \A u \in pending : IsUpdate(u)
  BY DEF Typed, UpdateTyped
<1> QED
  BY <1>1, <1>2 DEF TypeOK, Typed, MemoryTyped, InvitingTyped, StoreTyped, ZonesTyped

LEMMA UpdateOf ==
  ASSUME NEW u, UpdateTyped(u)
  PROVE  /\ u.stage \in {"save", "zone", "rollback"} /\ u.request \in RequestIds
         /\ Charter!IsRegister(u.before) /\ Charter!IsRegister(u.after)
         /\ u.zone_action \in SUBSET ZoneActions
         /\ u.awaiting \in SUBSET ZoneIds /\ u.failed \in BOOLEAN
         /\ u.stage = "zone" <=> u.awaiting # {}
         /\ u = [stage |-> u.stage, request |-> u.request, before |-> u.before,
                 after |-> u.after, zone_action |-> u.zone_action,
                 awaiting |-> u.awaiting, failed |-> u.failed]
         /\ \A act \in u.zone_action : act.town \in DOMAIN u.before /\ act.town \in DOMAIN u.after
<1>1. u \in [stage: {"save", "zone", "rollback"}, request: RequestIds,
             before: {u.before}, after: {u.after},
             zone_action: SUBSET ZoneActions, awaiting: SUBSET ZoneIds,
             failed: BOOLEAN]
  BY DEF UpdateTyped, IsUpdate
<1>2. /\ Charter!IsRegister(u.before) /\ Charter!IsRegister(u.after)
      /\ u.stage = "zone" <=> u.awaiting # {}
      /\ \A act \in u.zone_action : act.town \in DOMAIN u.before /\ act.town \in DOMAIN u.after
  BY DEF UpdateTyped, IsUpdate
<1> QED
  BY <1>1, <1>2

LEMMA IsUpdateOf ==
  ASSUME NEW stage \in {"save", "zone", "rollback"}, NEW request \in RequestIds,
         NEW before, Charter!IsRegister(before), NEW after, Charter!IsRegister(after),
         NEW za, za \in SUBSET ZoneActions, NEW awaiting, awaiting \in SUBSET ZoneIds,
         NEW failed \in BOOLEAN, stage = "zone" <=> awaiting # {},
         \A act \in za : act.town \in DOMAIN before /\ act.town \in DOMAIN after
  PROVE  UpdateTyped([stage |-> stage, request |-> request, before |-> before,
                      after |-> after, zone_action |-> za, awaiting |-> awaiting,
                      failed |-> failed])
<1> PICK u : u = [stage |-> stage, request |-> request, before |-> before,
                  after |-> after, zone_action |-> za, awaiting |-> awaiting,
                  failed |-> failed]
  OBVIOUS
<1>1. u \in [stage: {"save", "zone", "rollback"}, request: RequestIds,
             before: {u.before}, after: {u.after},
             zone_action: SUBSET ZoneActions, awaiting: SUBSET ZoneIds,
             failed: BOOLEAN]
  OBVIOUS
<1>2. u.stage = "zone" <=> u.awaiting # {}
  OBVIOUS
<1>3. /\ u.before = before /\ u.after = after /\ u.zone_action = za
  OBVIOUS
<1> QED
  BY <1>1, <1>2, <1>3 DEF UpdateTyped, IsUpdate

LEMMA ChatterIs ==
  ASSUME NEW c \in Chatter
  PROVE  IsCommand(c) /\ c.type \in {"query", "timer"}
BY DEF Chatter, IsCommand, IsStorageCall

LEMMA CasIs ==
  ASSUME NEW kind \in {"save", "rollback"}, NEW n \in Nat, NEW r, Charter!IsRegister(r)
  PROVE  /\ IsCommand(Cas(kind, n, r)) /\ IsStorageCall(Cas(kind, n, r))
         /\ Cas(kind, n, r).type = "cas" /\ Cas(kind, n, r).request = <<kind, n>>
         /\ Cas(kind, n, r).expected = n /\ Cas(kind, n, r).value = r
         /\ <<kind, n>> \in RequestIds
<1> PICK c : c = Cas(kind, n, r)
  OBVIOUS
<1>1. /\ c.type = "cas" /\ c.request = <<kind, n>> /\ c.expected = n /\ c.value = r
      /\ <<kind, n>> \in RequestIds
      /\ c = [type |-> "cas", request |-> <<kind, n>>, expected |-> n, value |-> r]
  BY DEF Cas, RequestIds
<1>2. c \in [type: {"cas"}, request: RequestIds, expected: Nat, value: {c.value}]
  BY <1>1
<1> QED
  BY <1>1, <1>2 DEF IsCommand, IsStorageCall

(* The update that Save starts. *)
Saving(after, zone_action) ==
  [stage |-> "save", request |-> <<"save", storage_version>>, before |-> towns,
   after |-> after, zone_action |-> zone_action, awaiting |-> {}, failed |-> FALSE]

LEMMA SavingTyped ==
  ASSUME MemoryTyped, NEW after, NEW za, Proposal(after, za)
  PROVE  UpdateTyped(Saving(after, za))
<1> PICK request, awaiting, failed, stage :
       /\ request = <<"save", storage_version>> /\ awaiting = {} /\ failed = FALSE
       /\ stage = "save"
  OBVIOUS
<1>1. /\ stage \in {"save", "zone", "rollback"} /\ request \in RequestIds
      /\ Charter!IsRegister(towns) /\ Charter!IsRegister(after)
      /\ za \in SUBSET ZoneActions /\ awaiting \in SUBSET ZoneIds /\ failed \in BOOLEAN
      /\ stage = "zone" <=> awaiting # {}
      /\ \A act \in za : act.town \in DOMAIN towns /\ act.town \in DOMAIN after
  BY DEF MemoryTyped, Proposal, RequestIds
<1> PICK u : u = [stage |-> stage, request |-> request, before |-> towns,
                  after |-> after, zone_action |-> za, awaiting |-> awaiting,
                  failed |-> failed]
  OBVIOUS
<1>2. UpdateTyped(u)
  BY <1>1, IsUpdateOf
<1> QED
  BY <1>2 DEF Saving

LEMMA DecidedTyped ==
  ASSUME MemoryTyped, \A u \in pending : UpdateTyped(u), IsBatch(outbox), Decided
  PROVE  MemoryTyped' /\ (\A u \in pending' : UpdateTyped(u)) /\ IsBatch(outbox)'
<1>1. MemoryTyped'
  BY DEF Decided, MemoryTyped, memory
<1>2. CASE UNCHANGED <<pending, outbox>>
  <2>1. IsBatch(outbox)'
    BY <1>2 DEF IsBatch
  <2> QED
    BY <1>1, <1>2, <2>1
<1>3. ASSUME NEW c \in Chatter, pending' = pending, outbox' = Append(outbox, c)
      PROVE  (\A u \in pending' : UpdateTyped(u)) /\ IsBatch(outbox)'
  <2>1. IsBatch(Append(outbox, c))
    BY ChatterIs, AppendBatch
  <2> QED
    BY <1>3, <2>1
<1>4. ASSUME NEW after, NEW za, Proposal(after, za), Save(after, za)
      PROVE  (\A u \in pending' : UpdateTyped(u)) /\ IsBatch(outbox)'
  <2>1. CASE pending = {}
    <3>1. /\ pending' = {Saving(after, za)}
          /\ outbox' = Append(outbox, Cas("save", storage_version, after))
      BY <1>4, <2>1 DEF Save, Saving
    <3>2. UpdateTyped(Saving(after, za))
      BY <1>4, SavingTyped
    <3>3. IsCommand(Cas("save", storage_version, after))
      BY <1>4, CasIs DEF MemoryTyped, Proposal
    <3>4. IsBatch(Append(outbox, Cas("save", storage_version, after)))
      BY <3>3, AppendBatch
    <3> QED
      BY <3>1, <3>2, <3>4
  <2>2. CASE pending # {}
    <3>1. UNCHANGED <<pending, outbox>>
      BY <1>4, <2>2 DEF Save
    <3>2. IsBatch(outbox)'
      BY <3>1 DEF IsBatch
    <3> QED
      BY <3>1, <3>2
  <2> QED
    BY <2>1, <2>2
<1> QED
  BY <1>1, <1>2, <1>3, <1>4 DEF Decided

LEMMA InvitingUnchanged ==
  ASSUME InvitingTyped, UNCHANGED inviting
  PROVE  InvitingTyped'
BY DEF InvitingTyped, inviting

LEMMA AskDecides ==
  ASSUME MemoryTyped, InvitingTyped, NEW kind \in {"invite", "trust", "untrust"},
         NEW p \in Players, NEW target \in Players, Ask(kind, p, target)
  PROVE  Decided /\ InvitingTyped' /\ UNCHANGED host /\ loaded
<1> PICK name \in MemberTown(p) :
       LET query == [kind |-> kind, town |-> name, target |-> target]
       IN  /\ pending_queries' = pending_queries \cup {query}
           /\ outbox' = Append(outbox, Query(query))
  BY DEF Ask
<1> PICK query : query = [kind |-> kind, town |-> name, target |-> target]
  OBVIOUS
<1>1. name \in Names
  BY MemberTownOf DEF MemoryTyped
<1>2. query \in Queries /\ Query(query) \in Chatter
  BY <1>1 DEF Queries, Chatter, Query
<1>3. /\ UNCHANGED <<memory, pending, invites, invite_timers, host>> /\ loaded
      /\ pending_queries' = pending_queries \cup {query}
      /\ outbox' = Append(outbox, Query(query))
  BY DEF Ask, CanAsk
<1>4. Decided
  BY <1>2, <1>3 DEF Decided
<1>5. InvitingTyped'
  BY <1>2, <1>3 DEF InvitingTyped
<1> QED
  BY <1>3, <1>4, <1>5

LEMMA CommandDecides ==
  ASSUME MemoryTyped, InvitingTyped, Command
  PROVE  Decided /\ InvitingTyped' /\ UNCHANGED host /\ loaded
<1>0. Charter!IsRegister(towns)
  BY DEF MemoryTyped
<1>1. ASSUME NEW p \in Players, NEW name \in Names, Create(p, name)
      PROVE  Decided /\ InvitingTyped' /\ UNCHANGED host /\ loaded
  BY <1>0, <1>1, CreateDecides, InvitingUnchanged DEF Create, Change, CanChange, CanAsk
<1>2. ASSUME NEW p \in Players, NEW name \in Names, Join(p, name)
      PROVE  Decided /\ InvitingTyped' /\ UNCHANGED host /\ loaded
  <2>1. Decided
    BY <1>0, <1>2, JoinDecides
  <2>2. InvitingTyped'
    <3>1. /\ invites' = Without(invites, {p})
          /\ UNCHANGED <<pending_queries, invite_timers>>
      BY <1>2 DEF Join
    <3>2. /\ DOMAIN Without(invites, {p}) \subseteq Players
          /\ Without(invites, {p}) \in [DOMAIN Without(invites, {p}) -> Names]
      BY WithoutType DEF InvitingTyped
    <3> QED
      BY <3>1, <3>2 DEF InvitingTyped
  <2>3. UNCHANGED host /\ loaded
    BY <1>2 DEF Join, Change, CanChange, CanAsk
  <2> QED
    BY <2>1, <2>2, <2>3
<1>3. ASSUME NEW p \in Players, NEW target \in Players,
             NEW kind \in {"invite", "trust", "untrust"}, Ask(kind, p, target)
      PROVE  Decided /\ InvitingTyped' /\ UNCHANGED host /\ loaded
  BY <1>3, AskDecides
<1>4. ASSUME NEW p \in Players, NEW target \in Players, NEW add \in BOOLEAN,
             Trust(p, target, add)
      PROVE  Decided /\ InvitingTyped' /\ UNCHANGED host /\ loaded
  <2>1. PICK name : SetTrusted(name, target, add)
    BY <1>4 DEF Trust
  <2>2. \/ UNCHANGED <<pending, outbox>>
        \/ \E after, zone_action : Proposal(after, zone_action) /\ Save(after, zone_action)
    BY <1>0, <2>1, SetTrustedProposes
  <2>3. UNCHANGED <<memory, inviting, host>> /\ loaded
    BY <1>4 DEF Trust, CanChange, CanAsk
  <2>4. Decided
    BY <2>2, <2>3 DEF Decided
  <2> QED
    BY <2>3, <2>4, InvitingUnchanged
<1>5. ASSUME NEW p \in Players, NEW target \in Players, NEW role \in {"officer", "member"},
             SetRole(p, target, role)
      PROVE  Decided /\ InvitingTyped' /\ UNCHANGED host /\ loaded
  <2>1. Decided
    BY <1>0, <1>5, SetRoleDecides
  <2> QED
    BY <1>5, <2>1, InvitingUnchanged DEF SetRole, Change, CanChange, CanAsk
<1>6. ASSUME NEW p \in Players, Leave(p)
      PROVE  Decided /\ InvitingTyped' /\ UNCHANGED host /\ loaded
  <2>1. Decided
    BY <1>0, <1>6, LeaveDecides
  <2> QED
    BY <1>6, <2>1, InvitingUnchanged DEF Leave, Change, CanChange, CanAsk
<1>7. ASSUME NEW p \in Players, NEW chunk \in Chunks, ClaimChunk(p, chunk)
      PROVE  Decided /\ InvitingTyped' /\ UNCHANGED host /\ loaded
  <2>1. Decided
    BY <1>0, <1>7, ClaimDecides
  <2> QED
    BY <1>7, <2>1, InvitingUnchanged DEF ClaimChunk, Change, CanChange, CanAsk
<1>8. ASSUME NEW p \in Players, NEW chunk \in Chunks, UnclaimChunk(p, chunk)
      PROVE  Decided /\ InvitingTyped' /\ UNCHANGED host /\ loaded
  <2>1. Decided
    BY <1>0, <1>8, UnclaimDecides
  <2> QED
    BY <1>8, <2>1, InvitingUnchanged DEF UnclaimChunk, Change, CanChange, CanAsk
<1>9. ASSUME NEW p \in Players, NEW enabled \in BOOLEAN, Flag(p, enabled)
      PROVE  Decided /\ InvitingTyped' /\ UNCHANGED host /\ loaded
  <2>1. Decided
    BY <1>0, <1>9, FlagDecides
  <2> QED
    BY <1>9, <2>1, InvitingUnchanged DEF Flag, Change, CanChange, CanAsk
<1> QED
  BY <1>1, <1>2, <1>3, <1>4, <1>5, <1>6, <1>7, <1>8, <1>9 DEF Command

-----------------------------------------------------------------------------
(* Storage answers *)

(* Zone commands, and nothing else, are added to the batch. *)
ZonesQueued ==
  /\ IsBatch(outbox')
  /\ \A c \in ToSet(outbox') : c \in ToSet(outbox) \/ c \in ZoneCalls
  /\ ToSet(outbox) \subseteq ToSet(outbox')

LEMMA ConcatQueues ==
  ASSUME IsBatch(outbox), NEW s \in Seq(ZoneCalls), outbox' = outbox \o s
  PROVE  ZonesQueued
<1>1. \A c \in ZoneCalls : IsCommand(c)
  BY DEF IsCommand
<1>2. IsBatch(outbox \o s) /\ ToSet(outbox \o s) = ToSet(outbox) \cup ToSet(s)
  BY <1>1, ConcatBatch
<1>3. \A c \in ToSet(s) : c \in ZoneCalls
  BY DEF ToSet
<1> QED
  BY <1>2, <1>3 DEF ZonesQueued

LEMMA SameQueues ==
  ASSUME IsBatch(outbox), UNCHANGED outbox
  PROVE  ZonesQueued
BY DEF ZonesQueued, IsBatch

LEMMA TownsReadTyped ==
  ASSUME IsBatch(outbox), NEW answer, IsAnswer(answer), TownsRead(answer)
  PROVE  MemoryTyped' /\ UNCHANGED pending /\ ZonesQueued /\ Charter!IsRegister(answer.value)
<1> PICK r, ids : r = answer.value /\ ids = ClaimZones(r)
  OBVIOUS
<1>1. Charter!IsRegister(r) /\ answer.version \in Nat
  BY DEF TownsRead, IsAnswer
<1>2. ids \in SUBSET ZoneIds /\ \A zone \in ids : zone[1] \in DOMAIN r
  BY DEF ClaimZones
<1>3. UpsertAll(r, ids) \in Seq(ZoneCalls)
  BY <1>1, <1>2, UpsertAllOf
<1>4. /\ towns' = r /\ storage_version' = answer.version /\ loaded' = (ids = {})
      /\ startup_zones' = IF ids = {} THEN {} ELSE {[remaining |-> ids, failed |-> FALSE]}
      /\ outbox' = outbox \o UpsertAll(r, ids) /\ UNCHANGED pending
  BY DEF TownsRead
<1>5. ZonesQueued
  BY <1>3, <1>4, ConcatQueues
<1>6. startup_zones' \in SUBSET [remaining: (SUBSET ZoneIds) \ {{}}, failed: BOOLEAN]
  <2>1. CASE ids = {}
    BY <1>4, <2>1
  <2>2. CASE ids # {}
    <3> PICK W, s : W = (SUBSET ZoneIds) \ {{}} /\ s = [remaining |-> ids, failed |-> FALSE]
      OBVIOUS
    <3>0. ids \in W
      BY <1>2, <2>2
    <3>1. s \in [remaining: W, failed: BOOLEAN]
      BY <3>0
    <3>2. startup_zones' = {s}
      BY <1>4, <2>2
    <3> QED
      BY <3>1, <3>2
  <2> QED
    BY <2>1, <2>2
<1>7. loaded' \in BOOLEAN
  BY <1>4
<1>8. Charter!IsRegister(towns') /\ storage_version' \in Nat
  BY <1>1, <1>4
<1> QED
  BY <1>1, <1>4, <1>5, <1>6, <1>7, <1>8 DEF MemoryTyped

LEMMA UnreadableTyped ==
  ASSUME MemoryTyped, IsBatch(outbox), NEW answer, Unreadable(answer)
  PROVE  MemoryTyped' /\ UNCHANGED pending /\ ZonesQueued
<1>1. UNCHANGED <<towns, storage_version, startup_zones, pending, outbox>> /\ loaded' = FALSE
  BY DEF Unreadable
<1>2. MemoryTyped'
  BY <1>1 DEF MemoryTyped
<1> QED
  BY <1>1, <1>2, SameQueues

(* The update that waits for its zones. *)
Zoning(update, ids) == [update EXCEPT !.stage = "zone", !.awaiting = ids]

LEMMA ZoningOf ==
  ASSUME NEW u, UpdateTyped(u), NEW ids \in SUBSET ZoneIds, ids # {}
  PROVE  /\ UpdateTyped(Zoning(u, ids))
         /\ Zoning(u, ids) = [stage |-> "zone", request |-> u.request, before |-> u.before,
                              after |-> u.after, zone_action |-> u.zone_action,
                              awaiting |-> ids, failed |-> u.failed]
<1>1. u = [stage |-> u.stage, request |-> u.request, before |-> u.before,
           after |-> u.after, zone_action |-> u.zone_action,
           awaiting |-> u.awaiting, failed |-> u.failed]
  BY UpdateOf, Zenon
<1>2. Zoning(u, ids) = [stage |-> "zone", request |-> u.request, before |-> u.before,
                        after |-> u.after, zone_action |-> u.zone_action,
                        awaiting |-> ids, failed |-> u.failed]
  <2>1. PICK w : w = [u EXCEPT !.stage = "zone"]
    OBVIOUS
  <2>2. w = [stage |-> "zone", request |-> u.request, before |-> u.before,
             after |-> u.after, zone_action |-> u.zone_action,
             awaiting |-> u.awaiting, failed |-> u.failed]
    BY <1>1, <2>1
  <2>3. Zoning(u, ids) = [w EXCEPT !.awaiting = ids]
    BY <2>1 DEF Zoning
  <2> QED
    BY <2>2, <2>3
<1>3. /\ u.request \in RequestIds /\ Charter!IsRegister(u.before) /\ Charter!IsRegister(u.after)
      /\ u.zone_action \in SUBSET ZoneActions /\ u.failed \in BOOLEAN
      /\ \A act \in u.zone_action : act.town \in DOMAIN u.before /\ act.town \in DOMAIN u.after
  BY UpdateOf
<1> PICK stage : stage = "zone"
  OBVIOUS
<1>4. stage \in {"save", "zone", "rollback"} /\ (stage = "zone" <=> ids # {})
  OBVIOUS
<1>5. UpdateTyped([stage |-> stage, request |-> u.request, before |-> u.before,
                   after |-> u.after, zone_action |-> u.zone_action,
                   awaiting |-> ids, failed |-> u.failed])
  BY <1>3, <1>4, IsUpdateOf
<1> QED
  BY <1>2, <1>5

LEMMA CommittedTyped ==
  ASSUME MemoryTyped, IsBatch(outbox), NEW answer, IsAnswer(answer),
         NEW u, UpdateTyped(u), Committed(answer, u)
  PROVE  /\ MemoryTyped' /\ ZonesQueued /\ \A v \in pending' : UpdateTyped(v)
         /\ \E ids \in SUBSET ZoneIds : pending' = IF ids = {} THEN {} ELSE {Zoning(u, ids)}
<1> PICK ids : ids = ZonesOf(u.zone_action, u.after)
  OBVIOUS
<1>1. /\ u.zone_action \in SUBSET ZoneActions /\ Charter!IsRegister(u.after)
      /\ \A act \in u.zone_action : act.town \in DOMAIN u.after
  BY UpdateOf
<1>2. ids \in SUBSET ZoneIds /\ \A zone \in ids : zone[1] \in DOMAIN u.after
  BY <1>1, ZonesOfRegister
<1>3. /\ answer.type = "cas" /\ towns' = u.after /\ storage_version' = answer.version
      /\ pending' = IF ids = {} THEN {} ELSE {Zoning(u, ids)}
      /\ outbox' = outbox \o Follow(u, ids)
      /\ UNCHANGED <<loaded, startup_zones>>
  BY DEF Committed, Awaited, ZonesOf, Zoning
<1>4. Follow(u, ids) \in Seq(ZoneCalls)
  <2>1. UpsertAll(u.after, ids) \in Seq(ZoneCalls)
    BY <1>1, <1>2, UpsertAllOf
  <2>2. SetToSeq({RemoveZone(zone) : zone \in ids}) \in Seq(ZoneCalls)
    BY <1>2, RemoveAllOf
  <2> QED
    BY <2>1, <2>2 DEF Follow
<1>5. ZonesQueued
  BY <1>3, <1>4, ConcatQueues
<1>6. answer.version \in Nat
  BY <1>3 DEF IsAnswer
<1>7. MemoryTyped'
  BY <1>1, <1>3, <1>6 DEF MemoryTyped
<1>8. \A v \in pending' : UpdateTyped(v)
  BY <1>2, <1>3, ZoningOf
<1> QED
  BY <1>2, <1>3, <1>5, <1>7, <1>8

LEMMA RolledBackTyped ==
  ASSUME MemoryTyped, IsBatch(outbox), NEW answer, IsAnswer(answer),
         NEW u, UpdateTyped(u), RolledBack(answer, u)
  PROVE  MemoryTyped' /\ ZonesQueued /\ pending' = {}
<1> PICK resync, ids : /\ resync = {act \in u.zone_action : act.action = "sync"}
                       /\ ids = ZonesOf(resync, u.before)
  OBVIOUS
<1>1. /\ resync \in SUBSET ZoneActions /\ Charter!IsRegister(u.before)
      /\ \A act \in resync : act.town \in DOMAIN u.before
  BY UpdateOf
<1>2. ids \in SUBSET ZoneIds /\ \A zone \in ids : zone[1] \in DOMAIN u.before
  BY <1>1, ZonesOfRegister
<1>3. /\ answer.type = "cas" /\ towns' = u.before /\ storage_version' = answer.version
      /\ pending' = {} /\ loaded' = TRUE
      /\ outbox' = outbox \o UpsertAll(u.before, ids)
      /\ UNCHANGED startup_zones
  BY DEF RolledBack, Awaited, ZonesOf
<1>4. UpsertAll(u.before, ids) \in Seq(ZoneCalls)
  BY <1>1, <1>2, UpsertAllOf
<1>5. ZonesQueued
  BY <1>3, <1>4, ConcatQueues
<1>6. answer.version \in Nat
  BY <1>3 DEF IsAnswer
<1>7. MemoryTyped'
  BY <1>1, <1>3, <1>6 DEF MemoryTyped
<1> QED
  BY <1>3, <1>5, <1>7

LEMMA StorageAnsweredTyped ==
  ASSUME MemoryTyped, IsBatch(outbox), \A u \in pending : UpdateTyped(u),
         NEW answer, IsAnswer(answer), StorageAnswered(answer)
  PROVE  MemoryTyped' /\ ZonesQueued /\ (\A v \in pending' : UpdateTyped(v))
<1>1. CASE TownsRead(answer)
  BY <1>1, TownsReadTyped
<1>2. CASE Unreadable(answer)
  BY <1>2, UnreadableTyped
<1>3. ASSUME NEW u \in pending, Committed(answer, u)
      PROVE  MemoryTyped' /\ ZonesQueued /\ (\A v \in pending' : UpdateTyped(v))
  BY <1>3, CommittedTyped
<1>4. ASSUME NEW u \in pending, NotCommitted(answer, u)
      PROVE  MemoryTyped' /\ ZonesQueued /\ (\A v \in pending' : UpdateTyped(v))
  <2>1. UNCHANGED <<memory, outbox>> /\ pending' = {}
    BY <1>4 DEF NotCommitted
  <2>2. MemoryTyped'
    BY <2>1 DEF MemoryTyped, memory
  <2> QED
    BY <2>1, <2>2, SameQueues
<1>5. ASSUME NEW u \in pending, RolledBack(answer, u)
      PROVE  MemoryTyped' /\ ZonesQueued /\ (\A v \in pending' : UpdateTyped(v))
  <2>1. MemoryTyped' /\ ZonesQueued /\ pending' = {}
    BY <1>5, RolledBackTyped
  <2> QED
    BY <2>1
<1>6. ASSUME NEW u \in pending, NotRolledBack(answer, u)
      PROVE  MemoryTyped' /\ ZonesQueued /\ (\A v \in pending' : UpdateTyped(v))
  <2>1. UNCHANGED <<towns, storage_version, startup_zones, outbox>> /\ pending' = {}
          /\ loaded' = FALSE
    BY <1>6 DEF NotRolledBack
  <2>2. MemoryTyped'
    BY <2>1 DEF MemoryTyped
  <2> QED
    BY <2>1, <2>2, SameQueues
<1>7. CASE Ignored(answer)
  <2>1. UNCHANGED <<memory, pending, outbox>>
    BY <1>7 DEF Ignored
  <2>2. MemoryTyped'
    BY <2>1 DEF MemoryTyped, memory
  <2> QED
    BY <2>1, <2>2, SameQueues
<1> QED
  BY <1>1, <1>2, <1>3, <1>4, <1>5, <1>6, <1>7 DEF StorageAnswered

-----------------------------------------------------------------------------
(* Other answers *)

LEMMA PlayersAnsweredDecides ==
  ASSUME MemoryTyped, InvitingTyped, NEW answer, IsAnswer(answer), PlayersAnswered(answer)
  PROVE  Decided /\ InvitingTyped'
<1> PICK query : query = answer.query
  OBVIOUS
<1>1. query \in Queries /\ answer.type = "players"
  BY DEF PlayersAnswered, IsAnswer
<1>2. query.kind \in {"invite", "trust", "untrust"} /\ query.town \in Names
        /\ query.target \in Players
  BY <1>1 DEF Queries
<1>3. UNCHANGED memory /\ pending_queries' = pending_queries \ {query}
  BY DEF PlayersAnswered
<1>4. pending_queries' \in SUBSET Queries
  BY <1>3 DEF InvitingTyped
<1>5. CASE UNCHANGED <<pending, invites, invite_timers, outbox>>
  <2>1. InvitingTyped'
    BY <1>4, <1>5 DEF InvitingTyped
  <2>2. Decided
    BY <1>3, <1>5 DEF Decided
  <2> QED
    BY <2>1, <2>2
<1>6. CASE Invite(query.target, query.town)
  <2>1. /\ invites' = With(invites, query.target, query.town)
        /\ invite_timers' = invite_timers \cup {query.target}
        /\ outbox' = Append(outbox, Timer(query.target)) /\ pending' = pending
    BY <1>6 DEF Invite
  <2>2. Timer(query.target) \in Chatter
    BY <1>2 DEF Timer, Chatter
  <2>3. Decided
    BY <1>3, <2>1, <2>2 DEF Decided
  <2>4. /\ DOMAIN With(invites, query.target, query.town) \subseteq Players
        /\ With(invites, query.target, query.town) \in
             [DOMAIN With(invites, query.target, query.town) -> Names]
    BY <1>2, WithType DEF InvitingTyped
  <2>5. InvitingTyped'
    BY <1>2, <1>4, <2>1, <2>4 DEF InvitingTyped
  <2> QED
    BY <2>3, <2>5
<1>7. CASE /\ SetTrusted(query.town, query.target, query.kind = "trust")
           /\ UNCHANGED <<invites, invite_timers>>
  <2> PICK add \in BOOLEAN : add = (query.kind = "trust")
    OBVIOUS
  <2>1. SetTrusted(query.town, query.target, add)
    BY <1>7
  <2>2. \/ UNCHANGED <<pending, outbox>>
        \/ \E after, zone_action : Proposal(after, zone_action) /\ Save(after, zone_action)
    BY <1>2, <2>1, SetTrustedProposes DEF MemoryTyped
  <2>3. Decided
    BY <1>3, <2>2 DEF Decided
  <2>4. InvitingTyped'
    BY <1>4, <1>7 DEF InvitingTyped
  <2> QED
    BY <2>3, <2>4
<1> QED
  BY <1>5, <1>6, <1>7 DEF PlayersAnswered

LEMMA StartupAnsweredTyped ==
  ASSUME MemoryTyped, NEW answer, StartupAnswered(answer)
  PROVE  MemoryTyped' /\ UNCHANGED <<pending, outbox, towns, storage_version>>
<1> PICK startup \in startup_zones :
       LET remaining == startup.remaining \ {answer.zone}
           failed    == startup.failed \/ ~ answer.applied
       IN  IF remaining = {}
           THEN loaded' = ~ failed /\ startup_zones' = {}
           ELSE /\ startup_zones' = {[remaining |-> remaining, failed |-> failed]}
                /\ UNCHANGED loaded
  BY DEF StartupAnswered
<1> PICK W, remaining, failed :
       /\ W = (SUBSET ZoneIds) \ {{}}
       /\ remaining = startup.remaining \ {answer.zone}
       /\ failed = (startup.failed \/ ~ answer.applied)
  OBVIOUS
<1>1. UNCHANGED <<towns, storage_version, pending, outbox>>
  BY DEF StartupAnswered
<1>2. startup.remaining \in W /\ startup.failed \in BOOLEAN
  BY DEF MemoryTyped
<1>3. failed \in BOOLEAN
  OBVIOUS
<1>4. loaded' \in BOOLEAN /\ startup_zones' \in SUBSET [remaining: W, failed: BOOLEAN]
  <2>1. CASE remaining = {}
    <3>1. loaded' = ~ failed /\ startup_zones' = {}
      BY <2>1
    <3> QED
      BY <1>3, <3>1
  <2>2. CASE remaining # {}
    <3> PICK s : s = [remaining |-> remaining, failed |-> failed]
      OBVIOUS
    <3>1. startup_zones' = {s} /\ UNCHANGED loaded
      BY <2>2
    <3>2. remaining \in W
      BY <1>2, <2>2
    <3>3. s \in [remaining: W, failed: BOOLEAN]
      BY <1>3, <3>2
    <3> QED
      BY <3>1, <3>3 DEF MemoryTyped
  <2> QED
    BY <2>1, <2>2
<1> QED
  BY <1>1, <1>4 DEF MemoryTyped

(* What a zone's answer makes of the update that waits for it. *)
Waiting(u, zone, failed) ==
  [u EXCEPT !.awaiting = u.awaiting \ {zone}, !.failed = failed]

RollingBack(u, zone, failed) ==
  [Waiting(u, zone, failed) EXCEPT !.stage = "rollback",
     !.request = <<"rollback", storage_version>>]

LEMMA WaitingOf ==
  ASSUME NEW u, UpdateTyped(u), NEW zone, NEW failed \in BOOLEAN
  PROVE  /\ Waiting(u, zone, failed) =
              [stage |-> u.stage, request |-> u.request, before |-> u.before,
               after |-> u.after, zone_action |-> u.zone_action,
               awaiting |-> u.awaiting \ {zone}, failed |-> failed]
         /\ u.stage = "zone" /\ u.awaiting \ {zone} # {} => UpdateTyped(Waiting(u, zone, failed))
<1>1. u = [stage |-> u.stage, request |-> u.request, before |-> u.before,
           after |-> u.after, zone_action |-> u.zone_action,
           awaiting |-> u.awaiting, failed |-> u.failed]
  BY UpdateOf, Zenon
<1>2. Waiting(u, zone, failed) =
        [stage |-> u.stage, request |-> u.request, before |-> u.before,
         after |-> u.after, zone_action |-> u.zone_action,
         awaiting |-> u.awaiting \ {zone}, failed |-> failed]
  <2>1. PICK w : w = [u EXCEPT !.awaiting = u.awaiting \ {zone}]
    OBVIOUS
  <2>2. w = [stage |-> u.stage, request |-> u.request, before |-> u.before,
             after |-> u.after, zone_action |-> u.zone_action,
             awaiting |-> u.awaiting \ {zone}, failed |-> u.failed]
    BY <1>1, <2>1
  <2>3. Waiting(u, zone, failed) = [w EXCEPT !.failed = failed]
    BY <2>1 DEF Waiting
  <2> QED
    BY <2>2, <2>3
<1>3. ASSUME u.stage = "zone", u.awaiting \ {zone} # {}
      PROVE  UpdateTyped(Waiting(u, zone, failed))
  <2> PICK awaiting : awaiting = u.awaiting \ {zone}
    OBVIOUS
  <2>1. /\ u.stage \in {"save", "zone", "rollback"} /\ u.request \in RequestIds
        /\ Charter!IsRegister(u.before) /\ Charter!IsRegister(u.after)
        /\ u.zone_action \in SUBSET ZoneActions /\ awaiting \in SUBSET ZoneIds
        /\ u.stage = "zone" <=> awaiting # {}
        /\ \A act \in u.zone_action : act.town \in DOMAIN u.before /\ act.town \in DOMAIN u.after
    BY <1>3, UpdateOf
  <2>2. UpdateTyped([stage |-> u.stage, request |-> u.request, before |-> u.before,
                     after |-> u.after, zone_action |-> u.zone_action,
                     awaiting |-> awaiting, failed |-> failed])
    BY <2>1, IsUpdateOf
  <2> QED
    BY <1>2, <2>2
<1> QED
  BY <1>2, <1>3

LEMMA RollingBackOf ==
  ASSUME MemoryTyped, NEW u, UpdateTyped(u), NEW zone, NEW failed \in BOOLEAN,
         u.awaiting \ {zone} = {}
  PROVE  /\ RollingBack(u, zone, failed) =
              [stage |-> "rollback", request |-> <<"rollback", storage_version>>,
               before |-> u.before, after |-> u.after, zone_action |-> u.zone_action,
               awaiting |-> {}, failed |-> failed]
         /\ UpdateTyped(RollingBack(u, zone, failed))
<1> PICK request, awaiting, stage :
       request = <<"rollback", storage_version>> /\ awaiting = {} /\ stage = "rollback"
  OBVIOUS
<1>1. PICK v : v = Waiting(u, zone, failed)
  OBVIOUS
<1>2. v = [stage |-> u.stage, request |-> u.request, before |-> u.before,
           after |-> u.after, zone_action |-> u.zone_action,
           awaiting |-> awaiting, failed |-> failed]
  BY <1>1, WaitingOf
<1>3. PICK w : w = [v EXCEPT !.stage = stage]
  OBVIOUS
<1>4. w = [stage |-> stage, request |-> u.request, before |-> u.before,
           after |-> u.after, zone_action |-> u.zone_action,
           awaiting |-> awaiting, failed |-> failed]
  BY <1>2, <1>3
<1>5. RollingBack(u, zone, failed) = [w EXCEPT !.request = request]
  BY <1>1, <1>3 DEF RollingBack
<1>6. RollingBack(u, zone, failed) =
        [stage |-> stage, request |-> request, before |-> u.before,
         after |-> u.after, zone_action |-> u.zone_action,
         awaiting |-> awaiting, failed |-> failed]
  BY <1>4, <1>5
<1>7. /\ stage \in {"save", "zone", "rollback"} /\ request \in RequestIds
      /\ Charter!IsRegister(u.before) /\ Charter!IsRegister(u.after)
      /\ u.zone_action \in SUBSET ZoneActions /\ awaiting \in SUBSET ZoneIds
      /\ stage = "zone" <=> awaiting # {}
      /\ \A act \in u.zone_action : act.town \in DOMAIN u.before /\ act.town \in DOMAIN u.after
  BY UpdateOf DEF RequestIds, MemoryTyped
<1>8. UpdateTyped([stage |-> stage, request |-> request, before |-> u.before,
                   after |-> u.after, zone_action |-> u.zone_action,
                   awaiting |-> awaiting, failed |-> failed])
  BY <1>7, IsUpdateOf
<1> QED
  BY <1>6, <1>8

(* One more answer is awaited, the update is done, or it is undone. *)
UpdateAnsweredDoes(answer, u) ==
  \E failed \in BOOLEAN :
     /\ failed = (u.failed \/ ~ answer.applied)
     /\ \/ /\ u.awaiting \ {answer.zone} # {}
           /\ pending' = {Waiting(u, answer.zone, failed)} /\ UNCHANGED outbox
        \/ /\ u.awaiting \ {answer.zone} = {} /\ failed = FALSE
           /\ pending' = {} /\ UNCHANGED outbox
        \/ /\ u.awaiting \ {answer.zone} = {} /\ failed = TRUE
           /\ pending' = {RollingBack(u, answer.zone, failed)}
           /\ outbox' = Append(outbox, Cas("rollback", storage_version, u.before))

LEMMA UpdateAnsweredIs ==
  ASSUME NEW answer, NEW u, UpdateAnswered(answer, u)
  PROVE  /\ UpdateAnsweredDoes(answer, u)
         /\ u.stage = "zone" /\ answer.zone \in u.awaiting /\ UNCHANGED memory
<1> PICK failed \in BOOLEAN : failed = (u.failed \/ ~ answer.applied)
  OBVIOUS
<1>1. u.stage = "zone" /\ answer.zone \in u.awaiting /\ UNCHANGED memory
  BY DEF UpdateAnswered, AwaitedZone
<1>2. \/ /\ u.awaiting \ {answer.zone} # {}
         /\ pending' = {Waiting(u, answer.zone, failed)} /\ UNCHANGED outbox
      \/ /\ u.awaiting \ {answer.zone} = {} /\ failed = FALSE
         /\ pending' = {} /\ UNCHANGED outbox
      \/ /\ u.awaiting \ {answer.zone} = {} /\ failed = TRUE
         /\ pending' = {RollingBack(u, answer.zone, failed)}
         /\ outbox' = Append(outbox, Cas("rollback", storage_version, u.before))
  BY DEF UpdateAnswered, Waiting, RollingBack
<1> QED
  BY <1>1, <1>2 DEF UpdateAnsweredDoes

LEMMA UpdateAnsweredTyped ==
  ASSUME MemoryTyped, IsBatch(outbox), NEW answer, NEW u, UpdateTyped(u),
         UpdateAnswered(answer, u)
  PROVE  MemoryTyped' /\ IsBatch(outbox)' /\ \A v \in pending' : UpdateTyped(v)
<1>1. /\ UpdateAnsweredDoes(answer, u)
      /\ u.stage = "zone" /\ answer.zone \in u.awaiting /\ UNCHANGED memory
  BY UpdateAnsweredIs
<1>2. MemoryTyped'
  BY <1>1 DEF MemoryTyped, memory
<1>3. PICK failed \in BOOLEAN :
         \/ /\ u.awaiting \ {answer.zone} # {}
            /\ pending' = {Waiting(u, answer.zone, failed)} /\ UNCHANGED outbox
         \/ /\ u.awaiting \ {answer.zone} = {} /\ failed = FALSE
            /\ pending' = {} /\ UNCHANGED outbox
         \/ /\ u.awaiting \ {answer.zone} = {} /\ failed = TRUE
            /\ pending' = {RollingBack(u, answer.zone, failed)}
            /\ outbox' = Append(outbox, Cas("rollback", storage_version, u.before))
  BY <1>1 DEF UpdateAnsweredDoes
<1>4. CASE UNCHANGED outbox
  <2>1. IsBatch(outbox)'
    BY <1>4 DEF IsBatch
  <2>2. \A v \in pending' : UpdateTyped(v)
    BY <1>1, <1>3, WaitingOf, RollingBackOf
  <2> QED
    BY <1>2, <2>1, <2>2
<1>5. CASE /\ u.awaiting \ {answer.zone} = {}
           /\ pending' = {RollingBack(u, answer.zone, failed)}
           /\ outbox' = Append(outbox, Cas("rollback", storage_version, u.before))
  <2>1. IsCommand(Cas("rollback", storage_version, u.before))
    BY UpdateOf, CasIs DEF MemoryTyped
  <2>2. IsBatch(outbox)'
    <3>1. IsBatch(Append(outbox, Cas("rollback", storage_version, u.before)))
      BY <2>1, AppendBatch
    <3> QED
      BY <1>5, <3>1
  <2>3. \A v \in pending' : UpdateTyped(v)
    BY <1>5, RollingBackOf
  <2> QED
    BY <1>2, <2>2, <2>3
<1> QED
  BY <1>3, <1>4, <1>5

LEMMA ZoneAnsweredTyped ==
  ASSUME Typed, ZoneAnswered
  PROVE  Typed'
<1> PICK answer : answer = Head(zone_answers)
  OBVIOUS
<1>1. /\ zone_answers # <<>> /\ zone_answers' = Tail(zone_answers)
      /\ UNCHANGED <<inviting, store, timers, requesting, zones, zone_calls, refusals>>
      /\ \/ StartupAnswered(answer)
         \/ \E u \in pending : UpdateAnswered(answer, u)
         \/ UnawaitedZone(answer)
  BY DEF ZoneAnswered
<1>2. zone_answers' \in Seq([zone: ZoneIds, applied: BOOLEAN])
  BY <1>1 DEF Typed
<1>3. MemoryTyped' /\ IsBatch(outbox)' /\ \A v \in pending' : UpdateTyped(v)
  <2>1. CASE StartupAnswered(answer)
    <3>1. MemoryTyped' /\ UNCHANGED <<pending, outbox>>
      BY <2>1, StartupAnsweredTyped DEF Typed
    <3> QED
      BY <3>1 DEF Typed, IsBatch
  <2>2. ASSUME NEW u \in pending, UpdateAnswered(answer, u)
        PROVE  MemoryTyped' /\ IsBatch(outbox)' /\ \A v \in pending' : UpdateTyped(v)
    BY <2>2, UpdateAnsweredTyped DEF Typed
  <2>3. CASE UnawaitedZone(answer)
    <3>1. UNCHANGED <<memory, pending, outbox>>
      BY <2>3 DEF UnawaitedZone
    <3>2. MemoryTyped'
      BY <3>1 DEF Typed, MemoryTyped, memory
    <3> QED
      BY <3>1, <3>2 DEF Typed, IsBatch
  <2> QED
    BY <1>1, <2>1, <2>2, <2>3
<1>4. InvitingTyped'
  BY <1>1, InvitingUnchanged DEF Typed
<1>5. StoreTyped' /\ ZonesTyped' /\ UNCHANGED <<calls, answers, zone_calls, timers>>
  BY <1>1 DEF Typed, StoreTyped, ZonesTyped, requesting
<1> QED
  BY <1>2, <1>3, <1>4, <1>5 DEF Typed

LEMMA HostUnchanged ==
  ASSUME Typed, UNCHANGED host
  PROVE  /\ StoreTyped' /\ ZonesTyped'
         /\ UNCHANGED <<calls, answers, zone_calls, zone_answers, timers>>
BY DEF Typed, StoreTyped, ZonesTyped, host, requesting, zoning

LEMMA CommandTyped ==
  ASSUME Typed, Command
  PROVE  Typed'
<1>1. Decided /\ InvitingTyped' /\ UNCHANGED host
  BY CommandDecides DEF Typed
<1>2. MemoryTyped' /\ (\A u \in pending' : UpdateTyped(u)) /\ IsBatch(outbox)'
  BY <1>1, DecidedTyped DEF Typed
<1>3. /\ StoreTyped' /\ ZonesTyped'
      /\ UNCHANGED <<calls, answers, zone_calls, zone_answers, timers>>
  BY <1>1, HostUnchanged
<1> QED
  BY <1>1, <1>2, <1>3 DEF Typed

LEMMA DeliverTyped ==
  ASSUME Typed, NEW type, Deliver(type)
  PROVE  Typed'
<1> PICK answer \in answers :
       /\ answers' = answers \ {answer}
       /\ StorageAnswered(answer) \/ PlayersAnswered(answer)
       /\ UNCHANGED <<store, timers, calls, zoning>>
  BY DEF Deliver
<1>1. IsAnswer(answer)
  BY DEF Typed
<1>2. MemoryTyped' /\ IsBatch(outbox)' /\ InvitingTyped' /\ \A v \in pending' : UpdateTyped(v)
  <2>1. CASE StorageAnswered(answer)
    <3>1. MemoryTyped' /\ ZonesQueued /\ (\A v \in pending' : UpdateTyped(v))
      BY <1>1, <2>1, StorageAnsweredTyped DEF Typed
    <3>2. UNCHANGED inviting
      BY <2>1 DEF StorageAnswered
    <3>3. InvitingTyped'
      BY <3>2, InvitingUnchanged DEF Typed
    <3> QED
      BY <3>1, <3>3 DEF ZonesQueued
  <2>2. CASE PlayersAnswered(answer)
    <3>1. Decided /\ InvitingTyped'
      BY <1>1, <2>2, PlayersAnsweredDecides DEF Typed
    <3>2. MemoryTyped' /\ (\A u \in pending' : UpdateTyped(u)) /\ IsBatch(outbox)'
      BY <3>1, DecidedTyped DEF Typed
    <3> QED
      BY <3>1, <3>2
  <2> QED
    BY <2>1, <2>2
<1>3. StoreTyped' /\ ZonesTyped' /\ UNCHANGED <<calls, zone_calls, zone_answers, timers>>
  BY DEF Typed, StoreTyped, ZonesTyped, zoning
<1> QED
  BY <1>2, <1>3 DEF Typed

LEMMA TimerFiredTyped ==
  ASSUME Typed, NEW p \in Players, TimerFired(p)
  PROVE  Typed'
<1>1. /\ timers' = timers \ {p} /\ invite_timers' = invite_timers \ {p}
      /\ invites' = IF p \in invite_timers THEN Without(invites, {p}) ELSE invites
      /\ UNCHANGED <<memory, pending, pending_queries, store, requesting, zoning, outbox>>
  BY DEF TimerFired
<1>2. /\ DOMAIN Without(invites, {p}) \subseteq Players
      /\ Without(invites, {p}) \in [DOMAIN Without(invites, {p}) -> Names]
  BY WithoutType DEF InvitingTyped, Typed
<1>3. InvitingTyped'
  BY <1>1, <1>2 DEF InvitingTyped, Typed
<1>4. MemoryTyped' /\ StoreTyped' /\ ZonesTyped' /\ IsBatch(outbox)'
  BY <1>1 DEF Typed, MemoryTyped, memory, StoreTyped, ZonesTyped, zoning, IsBatch
<1>5. /\ UNCHANGED <<calls, answers, zone_calls, zone_answers, pending>>
      /\ timers' \in SUBSET Players
  BY <1>1 DEF Typed, requesting, zoning
<1> QED
  BY <1>3, <1>4, <1>5 DEF Typed

LEMMA BatchTyped ==
  ASSUME Typed, AcceptBatch \/ RejectBatch
  PROVE  Typed'
<1>1. IsBatch(outbox)' 
  <2>1. outbox' = <<>>
    BY DEF AcceptBatch, RejectBatch
  <2> QED
    BY <2>1, EmptyBatch
<1>2. CASE AcceptBatch
  <2>1. /\ calls' = calls \cup OfTypes({"get", "cas", "query"})
        /\ zone_calls' = zone_calls \o ZoneCommandsOf(outbox)
        /\ timers' = timers \cup {c.player : c \in OfTypes({"timer"})}
        /\ UNCHANGED <<plugin, store, answers, zones, zone_answers, refusals>>
    BY <1>2 DEF AcceptBatch
  <2>2. \A c \in ToSet(outbox) : IsCommand(c)
    BY DEF Typed, IsBatch
  <2>3. \A c \in calls' : IsStorageCall(c)
    BY <2>1, <2>2, CommandIs DEF Typed, OfTypes
  <2>4. timers' \in SUBSET Players
    BY <2>1, <2>2, CommandIs DEF Typed, OfTypes
  <2>5. zone_calls' \in Seq(ZoneCalls)
    BY <2>1, ZoneCommandsOfBatch DEF Typed
  <2>6. /\ MemoryTyped' /\ InvitingTyped' /\ StoreTyped' /\ ZonesTyped'
        /\ UNCHANGED <<pending, answers, zone_answers>>
    BY <2>1 DEF Typed, plugin, memory, inviting, MemoryTyped, InvitingTyped, StoreTyped,
                ZonesTyped
  <2> QED
    BY <1>1, <2>3, <2>4, <2>5, <2>6 DEF Typed
<1>3. CASE RejectBatch
  <2>1. UNCHANGED <<memory, inviting, host>> /\ pending' \subseteq pending
    BY <1>3 DEF RejectBatch
  <2>2. MemoryTyped' /\ InvitingTyped'
    BY <2>1 DEF Typed, memory, inviting, MemoryTyped, InvitingTyped
  <2>3. /\ StoreTyped' /\ ZonesTyped'
        /\ UNCHANGED <<calls, answers, zone_calls, zone_answers, timers>>
    BY <2>1, HostUnchanged
  <2> QED
    BY <1>1, <2>1, <2>2, <2>3 DEF Typed
<1> QED
  BY <1>2, <1>3

LEMMA CasExecuted ==
  ASSUME StoreTyped, NEW call, IsStorageCall(call), call.type = "cas",
         NEW x \in CasExecutions(store, call.expected, call.value)
  PROVE  /\ x.outcome \in {"committed", "refused", "failed"}
         /\ \/ x.record = store /\ x.outcome # "committed"
            \/ /\ x.record = [version |-> store.version + 1, value |-> call.value]
               /\ store.version = call.expected /\ x.outcome # "refused"
         /\ Charter!IsRegister(call.value) /\ call.expected \in Nat /\ call.request \in RequestIds
<1>1. Charter!IsRegister(call.value) /\ call.expected \in Nat /\ call.request \in RequestIds
  BY DEF IsStorageCall, Get
<1>2. /\ x.outcome \in {"committed", "refused", "failed"}
      /\ \/ x.record = store /\ x.outcome # "committed"
         \/ /\ x.record = [version |-> store.version + 1, value |-> call.value]
            /\ store.version = call.expected /\ x.outcome # "refused"
  BY DEF CasExecutions, CasOutcomes, Written
<1> QED
  BY <1>1, <1>2

LEMMA ExecuteTyped ==
  ASSUME Typed, NEW type, Execute(type)
  PROVE  Typed'
<1> PICK call \in calls :
       /\ calls' = calls \ {call}
       /\ ExecuteGet(call) \/ ExecuteCas(call) \/ ExecuteQuery(call)
       /\ UNCHANGED <<plugin, timers, zoning, outbox>>
  BY DEF Execute
<1>1. IsStorageCall(call) /\ StoreTyped
  BY DEF Typed
<1>2. StoreTyped' /\ \A a \in answers' : IsAnswer(a)
  <2>1. CASE ExecuteGet(call)
    <3>1. PICK outcome \in ReadOutcomes :
             answers' = answers \cup {[type |-> "get", outcome |-> outcome,
                                       version |-> store.version, value |-> store.value]}
      BY <2>1 DEF ExecuteGet
    <3> PICK a : a = [type |-> "get", outcome |-> outcome,
                      version |-> store.version, value |-> store.value]
      OBVIOUS
    <3>2. outcome \in {"read", "failed"}
      BY DEF ReadOutcomes
    <3>3. store.version \in Nat /\ Charter!IsRegister(store.value)
      BY <1>1 DEF StoreTyped
    <3>4. /\ a \in [type: {"get"}, outcome: {"read", "failed"}, version: Nat, value: {a.value}]
          /\ a.value = store.value /\ a.type = "get"
      BY <3>2, <3>3
    <3>5. IsAnswer(a)
      BY <3>3, <3>4 DEF IsAnswer
    <3>6. UNCHANGED store
      BY <2>1 DEF ExecuteGet
    <3> QED
      BY <1>1, <3>1, <3>5, <3>6 DEF Typed, StoreTyped
  <2>2. CASE ExecuteCas(call)
    <3>1. call.type = "cas"
      BY <2>2 DEF ExecuteCas
    <3>2. PICK x \in CasExecutions(store, call.expected, call.value) :
             /\ store' = x.record
             /\ answers' = answers \cup {[type |-> "cas", request |-> call.request,
                                          outcome |-> x.outcome, version |-> x.record.version]}
      BY <2>2 DEF ExecuteCas
    <3>3. /\ x.outcome \in {"committed", "refused", "failed"}
          /\ \/ x.record = store
             \/ x.record = [version |-> store.version + 1, value |-> call.value]
          /\ Charter!IsRegister(call.value) /\ call.request \in RequestIds
      BY <1>1, <3>1, CasExecuted
    <3>4. /\ x.record \in [version: Nat, value: {x.record.value}]
          /\ Charter!IsRegister(x.record.value)
      <4>1. CASE x.record = store
        BY <1>1, <4>1 DEF StoreTyped
      <4>2. CASE x.record = [version |-> store.version + 1, value |-> call.value]
        <5>1. store.version \in Nat
          BY <1>1 DEF StoreTyped
        <5>2. store.version + 1 \in Nat
          BY <5>1
        <5>3. /\ x.record.value = call.value /\ x.record.version = store.version + 1
              /\ x.record \in [version: Nat, value: {call.value}]
          BY <4>2, <5>2
        <5> QED
          BY <3>3, <5>3
      <4> QED
        BY <3>3, <4>1, <4>2
    <3>5. StoreTyped'
      BY <3>2, <3>4 DEF StoreTyped
    <3>6. x.record.version \in Nat
      BY <3>4
    <3>7. \A a \in answers' : IsAnswer(a)
      BY <3>2, <3>3, <3>6 DEF Typed, IsAnswer
    <3> QED
      BY <3>5, <3>7
  <2>3. CASE ExecuteQuery(call)
    <3>1. call.type = "query" /\ UNCHANGED store
      BY <2>3 DEF ExecuteQuery
    <3>2. call.query \in Queries
      BY <1>1, <3>1 DEF IsStorageCall, Get
    <3>3. PICK found \in BOOLEAN :
             answers' = answers \cup {[type |-> "players", query |-> call.query, found |-> found]}
      BY <2>3 DEF ExecuteQuery
    <3>4. IsAnswer([type |-> "players", query |-> call.query, found |-> found])
      BY <3>2 DEF IsAnswer
    <3> QED
      BY <1>1, <3>1, <3>3, <3>4 DEF Typed, StoreTyped
  <2> QED
    BY <2>1, <2>2, <2>3
<1>3. /\ MemoryTyped' /\ InvitingTyped' /\ ZonesTyped' /\ IsBatch(outbox)'
      /\ UNCHANGED <<pending, zone_calls, zone_answers, timers>>
  BY DEF Typed, plugin, memory, inviting, zoning, MemoryTyped, InvitingTyped, ZonesTyped, IsBatch
<1>4. \A c \in calls' : IsStorageCall(c)
  BY DEF Typed
<1> QED
  BY <1>2, <1>3, <1>4 DEF Typed

LEMMA ExecuteZoneTyped ==
  ASSUME Typed, ExecuteZone
  PROVE  Typed'
<1> PICK call : call = Head(zone_calls)
  OBVIOUS
<1>1. /\ zone_calls # <<>> /\ zone_calls' = Tail(zone_calls)
      /\ UNCHANGED <<plugin, store, timers, requesting, outbox>>
  BY DEF ExecuteZone
<1>2. call \in ZoneCalls /\ zone_calls' \in Seq(ZoneCalls)
  BY <1>1 DEF Typed
<1>3. call.zone \in ZoneIds /\ call.type \in {"upsert", "remove"}
        /\ (call.type = "upsert" => call.rights \in RightsRecords)
  BY <1>2 DEF ZoneCalls
<1>4. \A b \in BOOLEAN : [zone |-> call.zone, applied |-> b] \in [zone: ZoneIds, applied: BOOLEAN]
  BY <1>3
<1>5. PICK applied \in BOOLEAN :
         /\ zone_answers' = Append(zone_answers, [zone |-> call.zone, applied |-> applied])
         /\ \/ zones' = IF call.type = "upsert" THEN With(zones, call.zone, call.rights)
                       ELSE Without(zones, {call.zone})
            \/ UNCHANGED zones
         /\ refusals' \in {refusals, refusals + 1}
  BY DEF ExecuteZone
<1>6. zone_answers' \in Seq([zone: ZoneIds, applied: BOOLEAN])
  <2> PICK T, a : T = [zone: ZoneIds, applied: BOOLEAN]
                    /\ a = [zone |-> call.zone, applied |-> applied]
    OBVIOUS
  <2>1. a \in T /\ zone_answers \in Seq(T)
    BY <1>3 DEF Typed
  <2>2. Append(zone_answers, a) \in Seq(T)
    BY <2>1
  <2> QED
    BY <1>5, <2>2
<1>7. ZonesTyped'
  <2>1. DOMAIN zones \subseteq ZoneIds /\ zones \in [DOMAIN zones -> RightsRecords]
          /\ refusals \in Nat
    BY DEF Typed, ZonesTyped
  <2> PICK w, o, z : /\ w = With(zones, z, call.rights) /\ o = Without(zones, {z})
                     /\ z = call.zone
    OBVIOUS
  <2>2. call.type = "upsert" => DOMAIN w \subseteq ZoneIds /\ w \in [DOMAIN w -> RightsRecords]
    BY <1>3, <2>1, WithType
  <2>3. DOMAIN o \subseteq ZoneIds /\ o \in [DOMAIN o -> RightsRecords]
    BY <2>1, WithoutType
  <2>4. DOMAIN zones' \subseteq ZoneIds /\ zones' \in [DOMAIN zones' -> RightsRecords]
    <3>1. CASE zones' = w /\ call.type = "upsert"
      BY <2>2, <3>1
    <3>2. CASE zones' = o
      BY <2>3, <3>2
    <3>3. CASE UNCHANGED zones
      BY <2>1, <3>3
    <3> QED
      BY <1>5, <3>1, <3>2, <3>3
  <2>5. refusals' \in Nat
    BY <1>5, <2>1
  <2> QED
    BY <2>4, <2>5 DEF ZonesTyped
<1>8. /\ MemoryTyped' /\ InvitingTyped' /\ StoreTyped' /\ IsBatch(outbox)'
      /\ UNCHANGED <<pending, calls, answers, timers>>
  BY <1>1 DEF Typed, plugin, memory, inviting, requesting, MemoryTyped, InvitingTyped,
              StoreTyped, IsBatch
<1> QED
  BY <1>2, <1>6, <1>7, <1>8 DEF Typed

LEMMA StoresLawful ==
  ASSUME NEW record \in InitialStores
  PROVE  /\ record \in [version: Nat, value: {record.value}]
         /\ Charter!Lawful(record.value) /\ Charter!IsRegister(record.value)
BY StoresAssumption, LawfulIs

LEMMA GetTyped == IsBatch(<<Get>>) /\ ToSet(<<Get>>) = {Get} /\ IsStorageCall(Get)
<1>1. ToSet(<<Get>>) = {Get}
  BY DEF ToSet
<1>2. <<Get>> \in Seq({Get}) /\ IsStorageCall(Get)
  BY DEF IsStorageCall
<1> QED
  BY <1>1, <1>2 DEF IsBatch, IsCommand

LEMMA FreshTyped ==
  ASSUME NEW inv, inv = <<>>
  PROVE  /\ DOMAIN inv \subseteq Players /\ inv \in [DOMAIN inv -> Names]
         /\ DOMAIN inv \subseteq ZoneIds /\ inv \in [DOMAIN inv -> RightsRecords]
OBVIOUS

LEMMA InitTyped ==
  ASSUME Init
  PROVE  Typed
<1>1. /\ towns = NoTowns /\ storage_version = 0 /\ loaded = FALSE
      /\ startup_zones = {} /\ pending = {}
      /\ pending_queries = {} /\ invites = <<>> /\ invite_timers = {}
      /\ timers = {} /\ outbox = <<Get>> /\ calls = {} /\ answers = {}
      /\ zone_calls = <<>> /\ zone_answers = <<>>
      /\ store \in InitialStores /\ zones = <<>> /\ refusals = 0
  BY DEF Init
<1>2. MemoryTyped
  BY <1>1, EmptyRegister DEF MemoryTyped
<1>3. InvitingTyped
  BY <1>1, FreshTyped DEF InvitingTyped
<1>4. StoreTyped
  BY <1>1, StoresLawful DEF StoreTyped
<1>5. ZonesTyped
  BY <1>1, FreshTyped DEF ZonesTyped
<1>6. IsBatch(outbox)
  BY <1>1, GetTyped
<1> QED
  BY <1>1, <1>2, <1>3, <1>4, <1>5, <1>6 DEF Typed

LEMMA RestartTyped ==
  ASSUME Typed, Restart
  PROVE  Typed'
<1>1. /\ towns' = NoTowns /\ storage_version' = 0 /\ loaded' = FALSE
      /\ startup_zones' = {} /\ pending' = {}
      /\ pending_queries' = {} /\ invites' = <<>> /\ invite_timers' = {}
      /\ timers' = {} /\ outbox' = <<Get>> /\ calls' = {} /\ answers' = {}
      /\ zone_answers' = <<>>
      /\ UNCHANGED <<store, zones, zone_calls, refusals>>
  BY DEF Restart
<1>2. MemoryTyped'
  BY <1>1, EmptyRegister DEF MemoryTyped
<1>3. InvitingTyped'
  BY <1>1, FreshTyped DEF InvitingTyped
<1>4. StoreTyped' /\ ZonesTyped' /\ UNCHANGED zone_calls
  BY <1>1 DEF Typed, StoreTyped, ZonesTyped
<1>5. IsBatch(outbox)'
  BY <1>1, GetTyped
<1> QED
  BY <1>1, <1>2, <1>3, <1>4, <1>5 DEF Typed

LEMMA StutterTyped ==
  ASSUME Typed, UNCHANGED vars
  PROVE  Typed'
<1>1. MemoryTyped' /\ InvitingTyped' /\ StoreTyped' /\ ZonesTyped' /\ IsBatch(outbox)'
  BY DEF Typed, vars, plugin, host, memory, inviting, zoning, MemoryTyped, InvitingTyped,
         StoreTyped, ZonesTyped, IsBatch
<1>2. UNCHANGED <<pending, calls, answers, zone_calls, zone_answers, timers>>
  BY DEF vars, plugin, host, requesting, zoning
<1> QED
  BY <1>1, <1>2 DEF Typed

LEMMA NextTyped == Typed /\ [Next]_vars => Typed'
<1> SUFFICES ASSUME Typed, [Next]_vars PROVE Typed'
  OBVIOUS
<1>1. CASE Command
  BY <1>1, CommandTyped
<1>2. ASSUME NEW type \in {"get", "cas", "players"}, Deliver(type) PROVE Typed'
  BY <1>2, DeliverTyped
<1>3. CASE ZoneAnswered
  BY <1>3, ZoneAnsweredTyped
<1>4. ASSUME NEW p \in Players, TimerFired(p) PROVE Typed'
  BY <1>4, TimerFiredTyped
<1>5. CASE AcceptBatch \/ RejectBatch
  BY <1>5, BatchTyped
<1>6. ASSUME NEW type \in {"get", "cas", "query"}, Execute(type) PROVE Typed'
  BY <1>6, ExecuteTyped
<1>7. CASE ExecuteZone
  BY <1>7, ExecuteZoneTyped
<1>8. CASE Restart
  BY <1>8, RestartTyped
<1>9. CASE UNCHANGED vars
  BY <1>9, StutterTyped
<1> QED
  BY <1>1, <1>2, <1>3, <1>4, <1>5, <1>6, <1>7, <1>8, <1>9 DEF Next, Callback

(* Every variable keeps the values its Rust type and the settings allow,   *)
(* whatever the host refuses, loses or answers late.                       *)
THEOREM TypeCorrect == Spec => []Typed
<1>1. Init => Typed
  BY InitTyped
<1> QED
  BY <1>1, NextTyped, PTL DEF Spec

(* lib.rs:176: the fields of Towns, the pending update and what the host    *)
(* holds are always of the types the runs check.                           *)
THEOREM TypeOKAlways == Spec => []TypeOK
<1>1. Typed => TypeOK
  BY TypedIsTypeOK
<1> QED
  BY <1>1, TypeCorrect, PTL

-----------------------------------------------------------------------------
(* The register in memory and the register in storage *)

(* The compare-and-sets of the batch, of the host and of its answers, and  *)
(* the commands of the batch that no reply_rejection refuses.              *)
CasCommands == OfTypes({"cas"})
CasCalls == {c \in calls : c.type = "cas"}
CasAnswers == {a \in answers : a.type = "cas"}
Held == OfTypes({"get", "cas", "upsert", "remove"})

(* What an update stores next. *)
Target(u) == IF u.stage = "save" THEN u.after ELSE u.before

(* An update fits the towns tw and the version sv in memory: it is one     *)
(* decision, from them until it is saved and to them afterwards.           *)
Fits(u, tw, sv) ==
  /\ Charter!Lawful(u.before) /\ Charter!Lawful(u.after)
  /\ Charter!Change(u.before, u.after)
  /\ u.stage = "save" => u.before = tw /\ u.request = <<"save", sv>>
  /\ u.stage # "save" => u.after = tw
  /\ u.stage = "rollback" => u.request = <<"rollback", sv>>

(* The write of an update: it is in the batch out, with the host (cs) or   *)
(* answered (as), in one of them, and belongs to the one update there is.  *)
(* A save that left the batch shares no later batch that may be refused.   *)
Protocol(tw, sv, ups, out, held, cs, as, st) ==
  /\ \A u, v \in ups : u = v
  /\ \A u \in ups : Fits(u, tw, sv)
  /\ \A c \in out \cup cs : \E u \in ups :
        /\ u.stage \in {"save", "rollback"} /\ c.request = u.request
        /\ c.expected = sv /\ c.value = Target(u)
  /\ \A a \in as : \E u \in ups :
        /\ u.stage \in {"save", "rollback"} /\ a.request = u.request
        /\ a.outcome = "committed" => a.version = st.version /\ st.value = Target(u)
  /\ \A a, b \in as : a = b
  /\ cs = {} \/ as = {}
  /\ cs # {} \/ as # {} => out = {} /\ \A u \in ups : u.stage = "save" => held = {}

(* Before the towns are read there is nothing but the request for them and *)
(* its answer; after it has failed there is not even that.                 *)
Loading ==
  /\ loaded = FALSE /\ pending = {} /\ pending_queries = {} /\ startup_zones = {}
  /\ \A c \in ToSet(outbox) \cup calls : c = Get
  /\ \A a \in answers : /\ a.type = "get" /\ a.version = store.version
                        /\ a.value = store.value
  /\ ToSet(outbox) # {} => calls = {} /\ answers = {}
  /\ calls # {} => answers = {}
  /\ \A a, b \in answers : a = b

(* Afterwards they are not read again, and are the stored ones while they  *)
(* have the stored version.                                                *)
Working ==
  /\ \A c \in ToSet(outbox) \cup calls : c.type # "get"
  /\ \A a \in answers : a.type # "get"
  /\ Charter!Lawful(towns)
  /\ storage_version = store.version => towns = store.value

ProtocolKept ==
  Protocol(towns, storage_version, pending, CasCommands, Held, CasCalls, CasAnswers, store)

(* The inductive invariant of MemoryIsStored and of the charter. *)
Charted ==
  /\ Typed
  /\ Charter!Lawful(store.value)
  /\ Loading \/ Working
  /\ ProtocolKept

LEMMA ProtocolIdle ==
  ASSUME NEW tw, NEW sv, NEW out, NEW held, NEW cs, NEW as, NEW st,
         out = {}, cs = {}, as = {}
  PROVE  Protocol(tw, sv, {}, out, held, cs, as, st)
BY DEF Protocol

LEMMA ProtocolNoUpdate ==
  ASSUME NEW tw, NEW sv, NEW ups, NEW out, NEW held, NEW cs, NEW as, NEW st, ups = {},
         Protocol(tw, sv, ups, out, held, cs, as, st)
  PROVE  out = {} /\ cs = {} /\ as = {}
BY DEF Protocol

(* An update with no write under way. *)
LEMMA ProtocolQuiet ==
  ASSUME NEW tw, NEW sv, NEW u, NEW out, NEW held, NEW cs, NEW as, NEW st,
         Fits(u, tw, sv), out = {}, cs = {}, as = {}
  PROVE  Protocol(tw, sv, {u}, out, held, cs, as, st)
BY DEF Protocol

(* An update that puts its write into the batch. *)
LEMMA ProtocolStarts ==
  ASSUME NEW tw, NEW sv, NEW u, NEW c, NEW out, NEW held, NEW cs, NEW as, NEW st,
         Fits(u, tw, sv), u.stage \in {"save", "rollback"},
         c.request = u.request, c.expected = sv, c.value = Target(u),
         out = {c}, cs = {}, as = {}
  PROVE  Protocol(tw, sv, {u}, out, held, cs, as, st)
BY DEF Protocol

LEMMA ProtocolAnswer ==
  ASSUME NEW tw, NEW sv, NEW ups, NEW out, NEW held, NEW cs, NEW as, NEW st,
         Protocol(tw, sv, ups, out, held, cs, as, st), NEW a \in as, NEW u \in ups
  PROVE  /\ out = {} /\ cs = {} /\ as \ {a} = {} /\ ups = {u} /\ Fits(u, tw, sv)
         /\ u.stage \in {"save", "rollback"} /\ a.request = u.request
         /\ a.outcome = "committed" => a.version = st.version /\ st.value = Target(u)
BY DEF Protocol

LEMMA SameProtocol ==
  ASSUME ProtocolKept, UNCHANGED <<towns, storage_version, pending, store>>,
         CasCommands' = CasCommands, Held' = Held, CasCalls' = CasCalls,
         CasAnswers' = CasAnswers
  PROVE  ProtocolKept'
BY DEF ProtocolKept

LEMMA OutboxUnchanged ==
  ASSUME UNCHANGED outbox
  PROVE  CasCommands' = CasCommands /\ Held' = Held
BY DEF CasCommands, Held, OfTypes

LEMMA ZonesQueuedAre ==
  ASSUME ZonesQueued
  PROVE  /\ CasCommands' = CasCommands
         /\ (\A c \in ToSet(outbox) : c.type # "get") => \A c \in ToSet(outbox') : c.type # "get"
<1>1. \A c \in ZoneCalls : c.type \notin {"get", "cas"}
  BY DEF ZoneCalls
<1>2. \A c \in ToSet(outbox') : c \in ToSet(outbox) \/ c.type \notin {"get", "cas"}
  BY <1>1 DEF ZonesQueued
<1>3. \A c \in CasCommands' : c \in CasCommands
  BY <1>2 DEF CasCommands, OfTypes
<1>4. \A c \in CasCommands : c \in CasCommands'
  BY DEF CasCommands, OfTypes, ZonesQueued
<1>5. CasCommands' = CasCommands
  BY <1>3, <1>4
<1> QED
  BY <1>2, <1>5

LEMMA WorkingUnchanged ==
  ASSUME Working, UNCHANGED <<towns, storage_version, store>>,
         \A c \in ToSet(outbox') \cup calls' : c.type # "get",
         answers' \subseteq answers
  PROVE  Working'
BY DEF Working

LEMMA DecidedKeeps ==
  ASSUME Typed, Working, ProtocolKept, Decided, UNCHANGED <<store, calls>>,
         answers' \subseteq answers, CasAnswers' = CasAnswers
  PROVE  Working' /\ ProtocolKept'
<1>1. UNCHANGED <<towns, storage_version>> /\ CasCalls' = CasCalls
  BY DEF Decided, memory, CasCalls
<1>2. \A c \in ToSet(outbox) \cup calls : c.type # "get"
  BY DEF Working
<1>3. CASE UNCHANGED <<pending, outbox>>
  <2>1. CasCommands' = CasCommands /\ Held' = Held
    BY <1>3, OutboxUnchanged
  <2>2. ProtocolKept'
    BY <1>1, <1>3, <2>1, SameProtocol
  <2>3. Working'
    BY <1>1, <1>2, <1>3, WorkingUnchanged
  <2> QED
    BY <2>2, <2>3
<1>4. ASSUME NEW c \in Chatter, pending' = pending, outbox' = Append(outbox, c)
      PROVE  Working' /\ ProtocolKept'
  <2>1. IsCommand(c) /\ c.type \in {"query", "timer"}
    BY ChatterIs
  <2>2. ToSet(outbox') = ToSet(outbox) \cup {c}
    <3>1. ToSet(Append(outbox, c)) = ToSet(outbox) \cup {c}
      BY <2>1, AppendBatch DEF Typed
    <3> QED
      BY <1>4, <3>1
  <2>3. CasCommands' = CasCommands /\ Held' = Held
    BY <2>1, <2>2 DEF CasCommands, Held, OfTypes
  <2>4. ProtocolKept'
    BY <1>1, <1>4, <2>3, SameProtocol
  <2>5. Working'
    BY <1>1, <1>2, <2>1, <2>2, WorkingUnchanged
  <2> QED
    BY <2>4, <2>5
<1>5. ASSUME NEW after, NEW za, Proposal(after, za), Save(after, za)
      PROVE  Working' /\ ProtocolKept'
  <2>1. CASE pending = {}
    <3> PICK u, c : u = Saving(after, za) /\ c = Cas("save", storage_version, after)
      OBVIOUS
    <3>1. pending' = {u} /\ outbox' = Append(outbox, c)
      BY <1>5, <2>1 DEF Save, Saving
    <3>2. /\ IsCommand(c) /\ c.type = "cas" /\ c.request = <<"save", storage_version>>
          /\ c.expected = storage_version /\ c.value = after
      <4>1. storage_version \in Nat /\ Charter!IsRegister(after)
        BY <1>5 DEF Typed, MemoryTyped, Proposal
      <4>2. IsCommand(Cas("save", storage_version, after))
        BY <4>1, CasIs
      <4>3. /\ c.type = "cas" /\ c.request = <<"save", storage_version>>
            /\ c.expected = storage_version /\ c.value = after
        BY DEF Cas
      <4>4. IsCommand(c)
        BY <4>2, Zenon
      <4> QED
        BY <4>3, <4>4
    <3>3. ToSet(outbox') = ToSet(outbox) \cup {c}
      <4>1. ToSet(Append(outbox, c)) = ToSet(outbox) \cup {c}
        BY <3>2, AppendBatch DEF Typed
      <4> QED
        BY <3>1, <4>1
    <3>4. CasCommands = {} /\ CasCalls = {} /\ CasAnswers = {}
      BY <2>1, ProtocolNoUpdate DEF ProtocolKept
    <3>5. CasCommands' = {c}
      BY <3>2, <3>3, <3>4 DEF CasCommands, OfTypes
    <3>6. /\ u.stage = "save" /\ u.request = <<"save", storage_version>>
          /\ u.before = towns /\ u.after = after
      BY DEF Saving
    <3>7. Fits(u, towns', storage_version')
      BY <1>1, <1>5, <3>6 DEF Proposal, Working, Fits
    <3>8. Target(u) = after
      BY <3>6 DEF Target
    <3>9. ProtocolKept'
      <4>1. Protocol(towns', storage_version', {u}, CasCommands', Held', CasCalls', CasAnswers',
                     store')
        BY <1>1, <3>2, <3>4, <3>5, <3>6, <3>7, <3>8, ProtocolStarts
      <4> QED
        BY <3>1, <4>1 DEF ProtocolKept
    <3>10. Working'
      BY <1>1, <1>2, <3>2, <3>3, WorkingUnchanged
    <3> QED
      BY <3>9, <3>10
  <2>2. CASE pending # {}
    <3>1. UNCHANGED <<pending, outbox>>
      BY <1>5, <2>2 DEF Save
    <3> QED
      BY <1>3, <3>1
  <2> QED
    BY <2>1, <2>2
<1> QED
  BY <1>3, <1>4, <1>5 DEF Decided

LEMMA CommandKeeps ==
  ASSUME Charted, Command
  PROVE  Charted'
<1>1. Decided /\ UNCHANGED host /\ loaded
  BY CommandDecides DEF Charted, Typed
<1>2. Working
  BY <1>1 DEF Charted, Loading
<1>3. UNCHANGED <<store, calls, answers>> /\ CasAnswers' = CasAnswers
  BY <1>1 DEF host, requesting, CasAnswers
<1>4. Working' /\ ProtocolKept'
  BY <1>1, <1>2, <1>3, DecidedKeeps DEF Charted
<1>5. Typed'
  BY CommandTyped DEF Charted
<1> QED
  BY <1>3, <1>4, <1>5 DEF Charted

LEMMA LoadingUnchanged ==
  ASSUME Loading,
         UNCHANGED <<loaded, pending, pending_queries, startup_zones, outbox, calls, answers,
                     store>>
  PROVE  Loading'
BY DEF Loading

LEMMA FitsZoning ==
  ASSUME NEW u, UpdateTyped(u), NEW ids \in SUBSET ZoneIds, ids # {}, NEW tw, NEW sv,
         Fits(u, tw, sv), NEW sv2
  PROVE  Fits(Zoning(u, ids), u.after, sv2)
<1> PICK v : v = Zoning(u, ids)
  OBVIOUS
<1>1. v.stage = "zone" /\ v.before = u.before /\ v.after = u.after
  BY ZoningOf
<1> QED
  BY <1>1 DEF Fits

(* The answer to the write of the update settles it. *)
LEMMA CommittedKeeps ==
  ASSUME Typed, Working, ProtocolKept, NEW answer \in answers, answers' = answers \ {answer},
         UNCHANGED <<store, calls>>, NEW u \in pending, Committed(answer, u)
  PROVE  Working' /\ ProtocolKept'
<1>1. /\ answer.type = "cas" /\ u.stage # "rollback" /\ answer.outcome = "committed"
      /\ towns' = u.after /\ storage_version' = answer.version
  BY Zenon DEF Committed, Awaited
<1>2. UpdateTyped(u) /\ IsAnswer(answer) /\ MemoryTyped /\ IsBatch(outbox)
  BY DEF Typed
<1>3. /\ ZonesQueued
      /\ \E ids \in SUBSET ZoneIds : pending' = IF ids = {} THEN {} ELSE {Zoning(u, ids)}
  BY <1>2, CommittedTyped
<1>4. answer \in CasAnswers /\ CasAnswers' = CasAnswers \ {answer} /\ CasCalls' = CasCalls
  BY <1>1 DEF CasAnswers, CasCalls
<1>5. /\ CasCommands = {} /\ CasCalls = {} /\ CasAnswers \ {answer} = {}
      /\ Fits(u, towns, storage_version) /\ u.stage \in {"save", "rollback"}
      /\ answer.outcome = "committed" => answer.version = store.version /\ store.value = Target(u)
  BY <1>4, ProtocolAnswer DEF ProtocolKept
<1>6. CasCommands' = {} /\ CasCalls' = {} /\ CasAnswers' = {}
  BY <1>3, <1>4, <1>5, ZonesQueuedAre
<1>7. ProtocolKept'
  <2>1. PICK ids \in SUBSET ZoneIds : pending' = IF ids = {} THEN {} ELSE {Zoning(u, ids)}
    BY <1>3
  <2>2. CASE ids = {}
    <3>1. pending' = {}
      BY <2>1, <2>2
    <3> QED
      BY <1>6, <3>1, ProtocolIdle DEF ProtocolKept
  <2>3. CASE ids # {}
    <3> PICK v : v = Zoning(u, ids)
      OBVIOUS
    <3>1. pending' = {v}
      BY <2>1, <2>3
    <3>2. Fits(v, u.after, storage_version')
      BY <1>2, <1>5, <2>3, FitsZoning
    <3>3. Fits(v, towns', storage_version')
      BY <1>1, <3>2
    <3>4. Protocol(towns', storage_version', {v}, CasCommands', Held', CasCalls', CasAnswers',
                   store')
      BY <1>6, <3>3, ProtocolQuiet
    <3> QED
      BY <3>1, <3>4 DEF ProtocolKept
  <2> QED
    BY <2>2, <2>3
<1>8. Working'
  <2>1. Charter!Lawful(u.after)
    BY <1>5 DEF Fits
  <2>2. u.after = store.value
    BY <1>1, <1>5 DEF Target
  <2>3. \A c \in ToSet(outbox') : c.type # "get"
    BY <1>3, ZonesQueuedAre DEF Working
  <2> QED
    BY <1>1, <2>1, <2>2, <2>3 DEF Working
<1> QED
  BY <1>7, <1>8

LEMMA RolledBackKeeps ==
  ASSUME Typed, Working, ProtocolKept, NEW answer \in answers, answers' = answers \ {answer},
         UNCHANGED <<store, calls>>, NEW u \in pending, RolledBack(answer, u)
  PROVE  Working' /\ ProtocolKept'
<1>1. /\ answer.type = "cas" /\ u.stage = "rollback" /\ answer.outcome = "committed"
      /\ towns' = u.before /\ storage_version' = answer.version
  BY DEF RolledBack, Awaited
<1>2. UpdateTyped(u) /\ IsAnswer(answer) /\ MemoryTyped /\ IsBatch(outbox)
  BY DEF Typed
<1>3. ZonesQueued /\ pending' = {}
  BY <1>2, RolledBackTyped
<1>4. answer \in CasAnswers /\ CasAnswers' = CasAnswers \ {answer} /\ CasCalls' = CasCalls
  BY <1>1 DEF CasAnswers, CasCalls
<1>5. /\ CasCommands = {} /\ CasCalls = {} /\ CasAnswers \ {answer} = {}
      /\ Fits(u, towns, storage_version)
      /\ answer.outcome = "committed" => answer.version = store.version /\ store.value = Target(u)
  BY <1>4, ProtocolAnswer DEF ProtocolKept
<1>6. CasCommands' = {} /\ CasCalls' = {} /\ CasAnswers' = {}
  BY <1>3, <1>4, <1>5, ZonesQueuedAre
<1>7. ProtocolKept'
  BY <1>3, <1>6, ProtocolIdle DEF ProtocolKept
<1>8. Working'
  <2>1. Charter!Lawful(u.before)
    BY <1>5 DEF Fits
  <2>2. u.before = store.value
    BY <1>1, <1>5 DEF Target
  <2>3. \A c \in ToSet(outbox') : c.type # "get"
    BY <1>3, ZonesQueuedAre DEF Working
  <2> QED
    BY <1>1, <2>1, <2>2, <2>3 DEF Working
<1> QED
  BY <1>7, <1>8

LEMMA GivenUpKeeps ==
  ASSUME Typed, Working, ProtocolKept, NEW answer \in answers, answers' = answers \ {answer},
         UNCHANGED <<store, calls>>, NEW u \in pending,
         NotCommitted(answer, u) \/ NotRolledBack(answer, u)
  PROVE  Working' /\ ProtocolKept'
<1>1. /\ answer.type = "cas" /\ pending' = {} /\ UNCHANGED <<towns, storage_version, outbox>>
  BY DEF NotCommitted, NotRolledBack, Awaited, memory
<1>2. answer \in CasAnswers /\ CasAnswers' = CasAnswers \ {answer} /\ CasCalls' = CasCalls
  BY <1>1 DEF CasAnswers, CasCalls
<1>3. CasCommands = {} /\ CasCalls = {} /\ CasAnswers \ {answer} = {}
  BY <1>2, ProtocolAnswer DEF ProtocolKept
<1>4. CasCommands' = {} /\ CasCalls' = {} /\ CasAnswers' = {}
  BY <1>1, <1>2, <1>3, OutboxUnchanged
<1>5. ProtocolKept'
  BY <1>1, <1>4, ProtocolIdle DEF ProtocolKept
<1>6. Working'
  <2>1. \A c \in ToSet(outbox') \cup calls' : c.type # "get"
    BY <1>1 DEF Working
  <2> QED
    BY <1>1, <2>1, WorkingUnchanged
<1> QED
  BY <1>5, <1>6

(* Every answer to a compare-and-set is awaited. *)
LEMMA AnswerAwaited ==
  ASSUME ProtocolKept, NEW answer \in answers, answer.type = "cas"
  PROVE  \E u \in pending : Awaited(answer, u)
<1>1. answer \in CasAnswers
  BY DEF CasAnswers
<1> QED
  BY <1>1 DEF ProtocolKept, Protocol, Awaited

LEMMA TownsReadKeeps ==
  ASSUME Typed, Charter!Lawful(store.value), Loading, ProtocolKept,
         NEW answer \in answers, answers' = answers \ {answer},
         UNCHANGED <<store, calls>>, TownsRead(answer)
  PROVE  Working' /\ ProtocolKept'
<1>1. /\ towns' = answer.value /\ storage_version' = answer.version
      /\ answer.value = store.value /\ answer.version = store.version
  BY DEF TownsRead, Loading
<1>2. IsAnswer(answer) /\ IsBatch(outbox)
  BY DEF Typed
<1>3. UNCHANGED pending /\ ZonesQueued
  BY <1>2, TownsReadTyped
<1>4. /\ pending = {} /\ calls = {} /\ ToSet(outbox) = {} /\ answers' = {}
  BY DEF Loading
<1>5. CasCommands = {} /\ CasCalls = {} /\ CasAnswers = {}
  BY <1>4, ProtocolNoUpdate DEF ProtocolKept
<1>6. CasCommands' = CasCommands /\ \A c \in ToSet(outbox') : c.type # "get"
  BY <1>3, <1>4, ZonesQueuedAre
<1>7. CasCalls' = {} /\ CasAnswers' = {}
  BY <1>4 DEF CasCalls, CasAnswers
<1>8. ProtocolKept'
  BY <1>3, <1>4, <1>5, <1>6, <1>7, ProtocolIdle DEF ProtocolKept
<1>9. Working'
  BY <1>1, <1>4, <1>6 DEF Working
<1> QED
  BY <1>8, <1>9

LEMMA DeliverKeeps ==
  ASSUME Charted, NEW type, Deliver(type)
  PROVE  Charted'
<1> PICK answer \in answers :
       /\ answers' = answers \ {answer}
       /\ StorageAnswered(answer) \/ PlayersAnswered(answer)
       /\ UNCHANGED <<store, timers, calls, zoning>>
  BY DEF Deliver
<1>1. Typed /\ Typed' /\ Charter!Lawful(store.value) /\ ProtocolKept /\ IsAnswer(answer)
  BY DeliverTyped DEF Charted, Typed
<1>2. CASE Loading
  <2>1. answer.type = "get"
    BY <1>2 DEF Loading
  <2>2. TownsRead(answer) \/ Unreadable(answer)
    BY <1>2, <2>1 DEF Loading, StorageAnswered, PlayersAnswered, Ignored
  <2>3. CASE TownsRead(answer)
    <3>1. Working' /\ ProtocolKept'
      BY <1>1, <1>2, <2>3, TownsReadKeeps
    <3> QED
      BY <1>1, <3>1 DEF Charted
  <2>4. CASE Unreadable(answer) /\ UNCHANGED inviting
    <3>1. /\ UNCHANGED <<towns, storage_version, startup_zones, pending, outbox>>
          /\ loaded' = FALSE
      BY <2>4 DEF Unreadable
    <3>2. answers' = {} /\ UNCHANGED <<calls, store, pending_queries>>
      BY <1>2, <2>4 DEF Loading, inviting
    <3>3. Loading'
      BY <1>2, <3>1, <3>2 DEF Loading
    <3>4. CasAnswers' = CasAnswers /\ CasCalls' = CasCalls
      BY <1>2, <3>2 DEF CasAnswers, CasCalls, Loading
    <3>5. ProtocolKept'
      BY <1>1, <3>1, <3>4, OutboxUnchanged, SameProtocol
    <3> QED
      BY <1>1, <3>3, <3>5 DEF Charted
  <2>5. StorageAnswered(answer)
    BY <2>1 DEF PlayersAnswered
  <2> QED
    BY <2>2, <2>3, <2>4, <2>5 DEF StorageAnswered
<1>3. CASE Working /\ StorageAnswered(answer)
  <2>1. answer.type # "get"
    BY <1>3 DEF Working
  <2>2. \/ \E u \in pending : \/ Committed(answer, u) \/ NotCommitted(answer, u)
                              \/ RolledBack(answer, u) \/ NotRolledBack(answer, u)
        \/ Ignored(answer)
    BY <1>3, <2>1 DEF StorageAnswered, TownsRead, Unreadable
  <2>3. ~ Ignored(answer)
    BY <1>1, AnswerAwaited DEF Ignored
  <2>4. Working' /\ ProtocolKept'
    BY <1>1, <1>3, <2>2, <2>3, CommittedKeeps, RolledBackKeeps, GivenUpKeeps
  <2> QED
    BY <1>1, <2>4 DEF Charted
<1>4. CASE Working /\ PlayersAnswered(answer)
  <2>1. Decided
    BY <1>1, <1>4, PlayersAnsweredDecides DEF Typed
  <2>2. CasAnswers' = CasAnswers
    BY <1>4 DEF CasAnswers, PlayersAnswered
  <2>3. Working' /\ ProtocolKept'
    BY <1>1, <1>4, <2>1, <2>2, DecidedKeeps
  <2> QED
    BY <1>1, <2>3 DEF Charted
<1> QED
  BY <1>2, <1>3, <1>4 DEF Charted

-----------------------------------------------------------------------------
(* The other steps keep the registers *)

(* What storage and the update do not see. *)
LEMMA CallsUnchanged ==
  ASSUME Charted, Typed',
         UNCHANGED <<memory, pending, pending_queries, outbox, store, requesting>>
  PROVE  Charted'
<1>1. /\ UNCHANGED <<towns, storage_version, loaded, startup_zones, pending,
                     pending_queries, outbox, store, calls, answers>>
      /\ CasCalls' = CasCalls /\ CasAnswers' = CasAnswers
  BY DEF memory, requesting, CasCalls, CasAnswers
<1>2. Loading' \/ Working'
  <2>1. Working => Working'
    BY <1>1 DEF Working
  <2> QED
    BY <1>1, <2>1, LoadingUnchanged DEF Charted
<1>3. ProtocolKept'
  BY <1>1, OutboxUnchanged, SameProtocol DEF Charted
<1> QED
  BY <1>1, <1>2, <1>3 DEF Charted

LEMMA TimerFiredKeeps ==
  ASSUME Charted, NEW p \in Players, TimerFired(p)
  PROVE  Charted'
<1>1. Typed'
  BY TimerFiredTyped DEF Charted
<1>2. UNCHANGED <<memory, pending, pending_queries, outbox, store, requesting>>
  BY DEF TimerFired
<1> QED
  BY <1>1, <1>2, CallsUnchanged

LEMMA ExecuteZoneKeeps ==
  ASSUME Charted, ExecuteZone
  PROVE  Charted'
<1>1. Typed'
  BY ExecuteZoneTyped DEF Charted
<1>2. UNCHANGED <<memory, pending, pending_queries, outbox, store, requesting>>
  BY DEF ExecuteZone, plugin, inviting
<1> QED
  BY <1>1, <1>2, CallsUnchanged

LEMMA StutterKeeps ==
  ASSUME Charted, UNCHANGED vars
  PROVE  Charted'
<1>1. Typed'
  BY StutterTyped DEF Charted
<1>2. UNCHANGED <<memory, pending, pending_queries, outbox, store, requesting>>
  BY DEF vars, plugin, inviting, host
<1> QED
  BY <1>1, <1>2, CallsUnchanged

(* The last zone of an update: it is done, or its undoing is written. *)
LEMMA UpdateAnsweredKeeps ==
  ASSUME Typed, Working, ProtocolKept, NEW answer, NEW u \in pending,
         UpdateAnswered(answer, u), UNCHANGED <<store, calls, answers>>
  PROVE  Working' /\ ProtocolKept'
<1>1. /\ UpdateAnsweredDoes(answer, u)
      /\ u.stage = "zone" /\ UNCHANGED <<towns, storage_version>>
  BY UpdateAnsweredIs DEF memory
<1>2. /\ UpdateTyped(u) /\ MemoryTyped
      /\ CasCalls' = CasCalls /\ CasAnswers' = CasAnswers
  BY DEF Typed, CasCalls, CasAnswers
<1>3. /\ CasCommands = {} /\ CasCalls = {} /\ CasAnswers = {}
      /\ Fits(u, towns, storage_version)
  BY <1>1 DEF ProtocolKept, Protocol
<1>4. \A c \in ToSet(outbox) \cup calls : c.type # "get"
  BY DEF Working
<1>5. PICK failed \in BOOLEAN :
         \/ /\ u.awaiting \ {answer.zone} # {}
            /\ pending' = {Waiting(u, answer.zone, failed)} /\ UNCHANGED outbox
         \/ /\ u.awaiting \ {answer.zone} = {} /\ failed = FALSE
            /\ pending' = {} /\ UNCHANGED outbox
         \/ /\ u.awaiting \ {answer.zone} = {} /\ failed = TRUE
            /\ pending' = {RollingBack(u, answer.zone, failed)}
            /\ outbox' = Append(outbox, Cas("rollback", storage_version, u.before))
  BY <1>1 DEF UpdateAnsweredDoes
<1>6. ASSUME UNCHANGED outbox
      PROVE  Working' /\ CasCommands' = {} /\ CasCalls' = {} /\ CasAnswers' = {}
  <2>1. CasCommands' = {}
    BY <1>3, <1>6, OutboxUnchanged
  <2>2. Working'
    BY <1>1, <1>4, <1>6, WorkingUnchanged
  <2> QED
    BY <1>2, <1>3, <2>1, <2>2
<1>7. CASE pending' = {Waiting(u, answer.zone, failed)} /\ UNCHANGED outbox
  <2> PICK v : v = Waiting(u, answer.zone, failed)
    OBVIOUS
  <2>1. v.stage = "zone" /\ v.before = u.before /\ v.after = u.after
    BY <1>1, <1>2, WaitingOf
  <2>2. Fits(v, towns', storage_version')
    BY <1>1, <1>3, <2>1 DEF Fits
  <2>3. Protocol(towns', storage_version', {v}, CasCommands', Held', CasCalls', CasAnswers',
                 store')
    BY <1>6, <1>7, <2>2, ProtocolQuiet
  <2> QED
    BY <1>6, <1>7, <2>3 DEF ProtocolKept
<1>8. CASE pending' = {} /\ UNCHANGED outbox
  BY <1>6, <1>8, ProtocolIdle DEF ProtocolKept
<1>9. CASE /\ u.awaiting \ {answer.zone} = {}
           /\ pending' = {RollingBack(u, answer.zone, failed)}
           /\ outbox' = Append(outbox, Cas("rollback", storage_version, u.before))
  <2> PICK v, c : /\ v = RollingBack(u, answer.zone, failed)
                  /\ c = Cas("rollback", storage_version, u.before)
    OBVIOUS
  <2>1. /\ v.stage = "rollback" /\ v.request = <<"rollback", storage_version>>
        /\ v.before = u.before /\ v.after = u.after
    BY <1>2, <1>9, RollingBackOf
  <2>2. /\ c.type = "cas" /\ c.request = <<"rollback", storage_version>>
        /\ c.expected = storage_version /\ c.value = u.before
    BY DEF Cas
  <2>3. IsCommand(c)
    <3>1. storage_version \in Nat /\ Charter!IsRegister(u.before)
      BY <1>2, UpdateOf DEF MemoryTyped
    <3>2. IsCommand(Cas("rollback", storage_version, u.before))
      BY <3>1, CasIs
    <3> QED
      BY <3>2, Zenon
  <2>4. ToSet(outbox') = ToSet(outbox) \cup {c}
    <3>1. ToSet(Append(outbox, c)) = ToSet(outbox) \cup {c}
      BY <2>3, AppendBatch DEF Typed
    <3> QED
      BY <1>9, <3>1
  <2>5. CasCommands' = {c}
    BY <1>3, <2>2, <2>4 DEF CasCommands, OfTypes
  <2>6. Fits(v, towns', storage_version')
    BY <1>1, <1>3, <2>1 DEF Fits
  <2>7. Target(v) = u.before
    BY <2>1 DEF Target
  <2>8. c.request = v.request /\ c.expected = storage_version' /\ c.value = Target(v)
    BY <1>1, <2>1, <2>2, <2>7
  <2>9. CasCalls' = {} /\ CasAnswers' = {}
    BY <1>2, <1>3
  <2>10. Protocol(towns', storage_version', {v}, CasCommands', Held', CasCalls', CasAnswers',
                  store')
    BY <2>1, <2>5, <2>6, <2>8, <2>9, ProtocolStarts
  <2>11. ProtocolKept'
    BY <1>9, <2>10 DEF ProtocolKept
  <2>12. Working'
    <3>1. \A d \in ToSet(outbox') \cup calls' : d.type # "get"
      BY <1>4, <2>2, <2>4
    <3> QED
      BY <1>1, <3>1, WorkingUnchanged
  <2> QED
    BY <2>11, <2>12
<1> QED
  BY <1>5, <1>7, <1>8, <1>9

LEMMA ZoneAnsweredKeeps ==
  ASSUME Charted, ZoneAnswered
  PROVE  Charted'
<1> PICK answer : answer = Head(zone_answers)
  OBVIOUS
<1>1. /\ UNCHANGED <<inviting, store, timers, requesting, zones, zone_calls, refusals>>
      /\ \/ StartupAnswered(answer)
         \/ \E u \in pending : UpdateAnswered(answer, u)
         \/ UnawaitedZone(answer)
  BY DEF ZoneAnswered
<1>2. Typed'
  BY ZoneAnsweredTyped DEF Charted
<1>3. UNCHANGED <<pending_queries, store, calls, answers>>
  BY <1>1 DEF inviting, requesting
<1>4. CASE StartupAnswered(answer)
  <2>1. UNCHANGED <<pending, outbox, towns, storage_version>>
    BY <1>4, StartupAnsweredTyped DEF Charted, Typed
  <2>2. ~ Loading
    BY <1>4 DEF Loading, StartupAnswered
  <2>3. Working'
    BY <1>3, <2>1, <2>2 DEF Charted, Working
  <2>4. CasCalls' = CasCalls /\ CasAnswers' = CasAnswers
    BY <1>3 DEF CasCalls, CasAnswers
  <2>5. ProtocolKept'
    BY <1>3, <2>1, <2>4, OutboxUnchanged, SameProtocol DEF Charted
  <2> QED
    BY <1>2, <1>3, <2>3, <2>5 DEF Charted
<1>5. ASSUME NEW u \in pending, UpdateAnswered(answer, u)
      PROVE  Charted'
  <2>1. Working
    BY DEF Charted, Loading
  <2>2. Working' /\ ProtocolKept'
    BY <1>3, <1>5, <2>1, UpdateAnsweredKeeps DEF Charted
  <2> QED
    BY <1>2, <1>3, <2>2 DEF Charted
<1>6. CASE UnawaitedZone(answer)
  <2>1. UNCHANGED <<memory, pending, pending_queries, outbox, store, requesting>>
    BY <1>1, <1>6 DEF UnawaitedZone, inviting
  <2> QED
    BY <1>2, <2>1, CallsUnchanged
<1> QED
  BY <1>1, <1>4, <1>5, <1>6

LEMMA AcceptKeeps ==
  ASSUME Charted, AcceptBatch
  PROVE  Charted'
<1>1. /\ outbox # <<>> /\ outbox' = <<>>
      /\ calls' = calls \cup OfTypes({"get", "cas", "query"})
      /\ UNCHANGED <<plugin, store, answers>>
  BY DEF AcceptBatch
<1>2. Typed' /\ Typed
  BY BatchTyped DEF Charted
<1>3. ToSet(outbox') = {} /\ ToSet(outbox) # {}
  <2>1. ToSet(outbox') = {}
    BY <1>1, EmptyBatch
  <2>2. outbox \in Seq(ToSet(outbox))
    BY <1>2 DEF Typed, IsBatch
  <2>3. outbox[1] \in ToSet(outbox)
    BY <1>1, <2>2 DEF ToSet
  <2> QED
    BY <2>1, <2>3
<1>4. /\ UNCHANGED <<loaded, pending, pending_queries, startup_zones, towns, storage_version>>
      /\ CasAnswers' = CasAnswers
  BY <1>1 DEF plugin, memory, inviting, CasAnswers
<1>5. CasCommands' = {} /\ Held' = {}
  BY <1>3 DEF CasCommands, Held, OfTypes
<1>6. CasCalls' = CasCalls \cup CasCommands
  <2>1. \A c \in CasCalls' : c \in CasCalls \/ c \in CasCommands
    BY <1>1 DEF CasCalls, CasCommands, OfTypes
  <2>2. \A c \in CasCommands : c \in CasCalls'
    BY <1>1 DEF CasCalls, CasCommands, OfTypes
  <2>3. \A c \in CasCalls : c \in CasCalls'
    BY <1>1 DEF CasCalls
  <2> QED
    BY <2>1, <2>2, <2>3
<1>7. ProtocolKept'
  BY <1>1, <1>4, <1>5, <1>6 DEF Charted, ProtocolKept, Protocol
<1>8. CASE Loading
  <2>1. /\ calls = {} /\ answers' = {} /\ \A c \in ToSet(outbox) : c = Get
    BY <1>1, <1>3, <1>8 DEF Loading
  <2>2. \A c \in calls' : c = Get
    BY <1>1, <2>1 DEF OfTypes
  <2>3. Loading'
    BY <1>3, <1>4, <1>8, <2>1, <2>2 DEF Loading
  <2> QED
    BY <1>1, <1>2, <1>7, <2>3 DEF Charted
<1>9. CASE Working
  <2>1. \A c \in ToSet(outbox') \cup calls' : c.type # "get"
    BY <1>1, <1>3, <1>9 DEF Working, OfTypes
  <2>2. Working'
    BY <1>1, <1>4, <1>9, <2>1, WorkingUnchanged
  <2> QED
    BY <1>1, <1>2, <1>7, <2>2 DEF Charted
<1> QED
  BY <1>8, <1>9 DEF Charted

(* A refusal of a batch without the save is not taken for that of the save. *)
LEMMA RejectKeeps ==
  ASSUME "reply_rejection" \notin Faults, Charted, RejectBatch
  PROVE  Charted'
<1>1. /\ outbox' = <<>> /\ UNCHANGED <<memory, inviting, host>>
      /\ pending' = {update \in pending : update.stage # "save"}
      /\ Held # {}
  BY DEF RejectBatch, Held
<1>2. Typed'
  BY BatchTyped DEF Charted
<1>3. ToSet(outbox') = {}
  BY <1>1, EmptyBatch
<1>4. UNCHANGED <<loaded, pending_queries, startup_zones, towns, storage_version, store,
                  calls, answers>>
  BY <1>1 DEF memory, inviting, host, requesting
<1>5. /\ CasCommands' = {} /\ Held' = {}
      /\ CasCalls' = CasCalls /\ CasAnswers' = CasAnswers
  BY <1>3, <1>4 DEF CasCommands, Held, OfTypes, CasCalls, CasAnswers
<1>6. Protocol(towns, storage_version, pending, CasCommands, Held, CasCalls, CasAnswers, store)
  BY DEF Charted, ProtocolKept
<1>7. ProtocolKept'
  <2>1. CASE CasCalls = {} /\ CasAnswers = {}
    <3>1. Protocol(towns, storage_version, pending', {}, {}, {}, {}, store)
      BY <1>1, <1>6 DEF Protocol
    <3> QED
      BY <1>4, <1>5, <2>1, <3>1 DEF ProtocolKept
  <2>2. CASE CasCalls # {} \/ CasAnswers # {}
    <3>1. \A u \in pending : u.stage # "save"
      BY <1>1, <1>6, <2>2 DEF Protocol
    <3>2. pending' = pending
      BY <1>1, <3>1
    <3>3. Protocol(towns, storage_version, pending, {}, {}, CasCalls, CasAnswers, store)
      BY <1>6 DEF Protocol
    <3> QED
      BY <1>4, <1>5, <3>2, <3>3 DEF ProtocolKept
  <2> QED
    BY <2>1, <2>2
<1>8. CASE Loading
  <2>1. pending' = {}
    BY <1>1, <1>8 DEF Loading
  <2>2. Loading'
    BY <1>3, <1>4, <1>8, <2>1 DEF Loading
  <2> QED
    BY <1>2, <1>4, <1>7, <2>2 DEF Charted
<1>9. CASE Working
  <2>1. Working'
    BY <1>3, <1>4, <1>9 DEF Working
  <2> QED
    BY <1>2, <1>4, <1>7, <2>1 DEF Charted
<1> QED
  BY <1>8, <1>9 DEF Charted

(* The call that the one update there is waits for. *)
LEMMA CasCallOf ==
  ASSUME Typed, ProtocolKept, NEW call \in calls, call.type = "cas"
  PROVE  /\ CasCalls = {call} /\ CasCommands = {} /\ CasAnswers = {}
         /\ call.expected = storage_version
         /\ \E u \in pending : /\ u.stage \in {"save", "rollback"} /\ pending = {u}
                               /\ Fits(u, towns, storage_version)
                               /\ call.request = u.request /\ call.value = Target(u)
<1>1. call \in CasCalls
  BY DEF CasCalls
<1>2. PICK u \in pending : u.stage \in {"save", "rollback"} /\ call.request = u.request
                             /\ call.value = Target(u) /\ call.expected = storage_version
  BY <1>1 DEF ProtocolKept, Protocol
<1>3. pending = {u} /\ Fits(u, towns, storage_version)
  BY <1>2 DEF ProtocolKept, Protocol
<1>4. \A c \in CasCalls : c.request = u.request /\ c.value = Target(u) /\ c.expected = storage_version
  BY <1>3 DEF ProtocolKept, Protocol
<1>5. \A c \in CasCalls : c = [type |-> "cas", request |-> c.request, expected |-> c.expected,
                               value |-> c.value]
  BY DEF CasCalls, Typed, IsStorageCall, Get
<1>6. \A c \in CasCalls : c = call
  BY <1>1, <1>2, <1>4, <1>5, Zenon
<1>7. CasCommands = {} /\ CasAnswers = {}
  BY <1>1 DEF ProtocolKept, Protocol
<1> QED
  BY <1>1, <1>2, <1>3, <1>6, <1>7

(* A compare-and-set is executed: the stored towns become what the update  *)
(* aims at, or stay.                                                       *)
LEMMA CasKeeps ==
  ASSUME Charted, NEW call \in calls, calls' = calls \ {call}, ExecuteCas(call),
         UNCHANGED <<plugin, outbox>>, Typed'
  PROVE  /\ Charted'
         /\ \/ UNCHANGED store
            \/ /\ Charter!Lawful(store.value')
               /\ \/ Charter!Change(store.value, store.value')
                  \/ Charter!Change(store.value', store.value)
<1>1. call.type = "cas" /\ Typed /\ ProtocolKept /\ StoreTyped /\ IsStorageCall(call)
  BY DEF ExecuteCas, Charted, Typed
<1>2. PICK x \in CasExecutions(store, call.expected, call.value) :
         /\ store' = x.record
         /\ answers' = answers \cup {[type |-> "cas", request |-> call.request,
                                      outcome |-> x.outcome, version |-> x.record.version]}
  BY DEF ExecuteCas
<1>3. \/ x.record = store /\ x.outcome # "committed"
      \/ /\ x.record = [version |-> store.version + 1, value |-> call.value]
         /\ store.version = call.expected
  BY <1>1, CasExecuted
<1>4. /\ CasCalls = {call} /\ CasCommands = {} /\ CasAnswers = {}
      /\ call.expected = storage_version
  BY <1>1, CasCallOf
<1>5. PICK u \in pending : /\ u.stage \in {"save", "rollback"} /\ pending = {u}
                           /\ Fits(u, towns, storage_version)
                           /\ call.request = u.request /\ call.value = Target(u)
  BY <1>1, CasCallOf
<1> PICK a : a = [type |-> "cas", request |-> call.request, outcome |-> x.outcome,
                  version |-> x.record.version]
  OBVIOUS
<1>6. /\ a.type = "cas" /\ a.request = call.request /\ a.outcome = x.outcome
      /\ a.version = x.record.version /\ answers' = answers \cup {a}
  BY <1>2
<1>7. Working
  BY <1>5 DEF Charted, Loading
<1>8. UNCHANGED <<towns, storage_version, loaded, pending>>
  BY DEF plugin, memory
<1>9. CasCalls' = {} /\ CasCommands' = {} /\ CasAnswers' = {a}
  <2>1. CasCalls' = {}
    BY <1>4 DEF CasCalls
  <2>2. CasAnswers' = {a}
    BY <1>4, <1>6 DEF CasAnswers
  <2> QED
    BY <1>4, <2>1, <2>2, OutboxUnchanged
<1>10. a.outcome = "committed" => a.version = store'.version /\ store'.value = Target(u)
  BY <1>2, <1>3, <1>5, <1>6
<1>11. u.stage = "save" => Held' = {}
  BY <1>4, <1>5, OutboxUnchanged DEF ProtocolKept, Protocol, Charted
<1>12. ProtocolKept'
  <2>1. Protocol(towns, storage_version, {u}, {}, Held', {}, {a}, store')
    BY <1>5, <1>6, <1>10, <1>11 DEF Protocol
  <2> QED
    BY <1>5, <1>8, <1>9, <2>1 DEF ProtocolKept
<1>13. CASE UNCHANGED store
  <2>1. Working'
    BY <1>6, <1>7, <1>8, <1>13 DEF Working
  <2> QED
    BY <1>12, <1>13, <2>1 DEF Charted
<1>14. CASE /\ x.record = [version |-> store.version + 1, value |-> call.value]
            /\ store.version = call.expected
  <2>1. /\ store'.version = store.version + 1 /\ store'.value = Target(u)
        /\ storage_version = store.version /\ store.version \in Nat
    BY <1>1, <1>2, <1>4, <1>5, <1>14 DEF StoreTyped
  <2>2. towns = store.value
    BY <1>7, <2>1 DEF Working
  <2>3. storage_version # store'.version
    BY <2>1
  <2>4. Working'
    BY <1>6, <1>7, <1>8, <2>3 DEF Working
  <2>5. /\ Charter!Lawful(Target(u))
        /\ \/ Charter!Change(store.value, Target(u))
           \/ Charter!Change(Target(u), store.value)
    <3>1. CASE u.stage = "save"
      <4>1. Target(u) = u.after /\ u.before = store.value
        BY <1>5, <2>2, <3>1 DEF Target, Fits
      <4> QED
        BY <1>5, <4>1 DEF Fits
    <3>2. CASE u.stage # "save"
      <4>1. Target(u) = u.before /\ u.after = store.value
        BY <1>5, <2>2, <3>2 DEF Target, Fits
      <4> QED
        BY <1>5, <4>1 DEF Fits
    <3> QED
      BY <3>1, <3>2
  <2> QED
    BY <1>12, <2>1, <2>4, <2>5 DEF Charted
<1> QED
  BY <1>2, <1>3, <1>13, <1>14

LEMMA ExecuteKeeps ==
  ASSUME Charted, NEW type, Execute(type)
  PROVE  /\ Charted'
         /\ \/ UNCHANGED store
            \/ /\ Charter!Lawful(store.value')
               /\ \/ Charter!Change(store.value, store.value')
                  \/ Charter!Change(store.value', store.value)
<1> PICK call \in calls :
       /\ calls' = calls \ {call}
       /\ ExecuteGet(call) \/ ExecuteCas(call) \/ ExecuteQuery(call)
       /\ UNCHANGED <<plugin, timers, zoning, outbox>>
  BY DEF Execute
<1>1. Typed' /\ Typed
  BY ExecuteTyped DEF Charted
<1>2. CASE ExecuteCas(call)
  BY <1>1, <1>2, CasKeeps
<1>3. UNCHANGED <<towns, storage_version, loaded, pending, pending_queries, startup_zones>>
  BY DEF plugin, memory, inviting
<1>4. CASE ExecuteGet(call)
  <2>1. call.type = "get" /\ UNCHANGED store
    BY <1>4 DEF ExecuteGet
  <2>2. PICK a : /\ a.type = "get" /\ a.version = store.version /\ a.value = store.value
                 /\ answers' = answers \cup {a}
    BY <1>4 DEF ExecuteGet
  <2>3. Loading
    BY <2>1 DEF Charted, Working
  <2>4. call = Get /\ answers = {} /\ ToSet(outbox) = {} /\ calls' = {}
    BY <2>3 DEF Loading
  <2>5. Loading'
    <3>1. answers' = {a} /\ ToSet(outbox') = {}
      BY <2>2, <2>4
    <3> QED
      BY <1>3, <2>1, <2>2, <2>3, <2>4, <3>1 DEF Loading
  <2>6. CasCalls' = CasCalls /\ CasAnswers' = CasAnswers
    BY <2>1, <2>2 DEF CasCalls, CasAnswers
  <2>7. ProtocolKept'
    BY <1>3, <2>1, <2>6, OutboxUnchanged, SameProtocol DEF Charted
  <2> QED
    BY <1>1, <2>1, <2>5, <2>7 DEF Charted
<1>5. CASE ExecuteQuery(call)
  <2>1. call.type = "query" /\ UNCHANGED store
    BY <1>5 DEF ExecuteQuery
  <2>2. PICK a : a.type = "players" /\ answers' = answers \cup {a}
    BY <1>5 DEF ExecuteQuery
  <2>3. Working
    BY <2>1 DEF Charted, Loading, Get
  <2>4. Working'
    BY <1>3, <2>1, <2>2, <2>3 DEF Working
  <2>5. CasCalls' = CasCalls /\ CasAnswers' = CasAnswers
    BY <2>1, <2>2 DEF CasCalls, CasAnswers
  <2>6. ProtocolKept'
    BY <1>3, <2>1, <2>5, OutboxUnchanged, SameProtocol DEF Charted
  <2> QED
    BY <1>1, <2>1, <2>4, <2>6 DEF Charted
<1> QED
  BY <1>2, <1>4, <1>5

(* A fresh instance has asked for the towns and nothing else. *)
LEMMA RestartKeeps ==
  ASSUME Charted, Restart
  PROVE  Charted'
<1>1. /\ loaded' = FALSE /\ pending' = {} /\ pending_queries' = {} /\ startup_zones' = {}
      /\ outbox' = <<Get>> /\ calls' = {} /\ answers' = {} /\ UNCHANGED store
  BY DEF Restart
<1>2. Typed'
  BY RestartTyped DEF Charted
<1>3. ToSet(outbox') = {Get} /\ Get.type = "get"
  BY <1>1, GetTyped DEF Get
<1>4. Loading'
  BY <1>1, <1>3 DEF Loading
<1>5. CasCommands' = {} /\ CasCalls' = {} /\ CasAnswers' = {}
  BY <1>1, <1>3 DEF CasCommands, OfTypes, CasCalls, CasAnswers
<1>6. ProtocolKept'
  BY <1>1, <1>5, ProtocolIdle DEF ProtocolKept
<1> QED
  BY <1>1, <1>2, <1>4, <1>6 DEF Charted

LEMMA InitKeeps ==
  ASSUME Init
  PROVE  Charted
<1>1. /\ loaded = FALSE /\ pending = {} /\ pending_queries = {} /\ startup_zones = {}
      /\ outbox = <<Get>> /\ calls = {} /\ answers = {} /\ store \in InitialStores
  BY DEF Init
<1>2. Typed /\ Charter!Lawful(store.value)
  BY <1>1, InitTyped, StoresLawful
<1>3. ToSet(outbox) = {Get} /\ Get.type = "get"
  BY <1>1, GetTyped DEF Get
<1>4. Loading
  BY <1>1, <1>3 DEF Loading
<1>5. CasCommands = {} /\ CasCalls = {} /\ CasAnswers = {}
  BY <1>1, <1>3 DEF CasCommands, OfTypes, CasCalls, CasAnswers
<1>6. ProtocolKept
  BY <1>1, <1>5, ProtocolIdle DEF ProtocolKept
<1> QED
  BY <1>2, <1>4, <1>6 DEF Charted

(* Every step keeps the invariant, and changes the stored towns by one     *)
(* decision or its undoing, if at all.                                     *)
LEMMA NextCharted ==
  ASSUME "reply_rejection" \notin Faults, Charted, [Next]_vars
  PROVE  /\ Charted'
         /\ \/ UNCHANGED store
            \/ /\ Charter!Lawful(store.value')
               /\ \/ Charter!Change(store.value, store.value')
                  \/ Charter!Change(store.value', store.value)
<1>1. CASE Command
  <2>1. UNCHANGED store
    BY <1>1, CommandDecides DEF Charted, Typed, host
  <2> QED
    BY <1>1, <2>1, CommandKeeps
<1>2. ASSUME NEW type \in {"get", "cas", "players"}, Deliver(type)
      PROVE  Charted' /\ UNCHANGED store
  <2>1. UNCHANGED store
    BY <1>2 DEF Deliver
  <2> QED
    BY <1>2, <2>1, DeliverKeeps
<1>3. CASE ZoneAnswered
  <2>1. UNCHANGED store
    BY <1>3 DEF ZoneAnswered
  <2> QED
    BY <1>3, <2>1, ZoneAnsweredKeeps
<1>4. ASSUME NEW p \in Players, TimerFired(p)
      PROVE  Charted' /\ UNCHANGED store
  <2>1. UNCHANGED store
    BY <1>4 DEF TimerFired
  <2> QED
    BY <1>4, <2>1, TimerFiredKeeps
<1>5. CASE AcceptBatch
  <2>1. UNCHANGED store
    BY <1>5 DEF AcceptBatch
  <2> QED
    BY <1>5, <2>1, AcceptKeeps
<1>6. CASE RejectBatch
  <2>1. UNCHANGED store
    BY <1>6 DEF RejectBatch, host
  <2> QED
    BY <1>6, <2>1, RejectKeeps
<1>7. ASSUME NEW type \in {"get", "cas", "query"}, Execute(type)
      PROVE  /\ Charted'
             /\ \/ UNCHANGED store
                \/ /\ Charter!Lawful(store.value')
                   /\ \/ Charter!Change(store.value, store.value')
                      \/ Charter!Change(store.value', store.value)
  BY <1>7, ExecuteKeeps
<1>8. CASE ExecuteZone
  <2>1. UNCHANGED store
    BY <1>8 DEF ExecuteZone
  <2> QED
    BY <1>8, <2>1, ExecuteZoneKeeps
<1>9. CASE Restart
  <2>1. UNCHANGED store
    BY <1>9 DEF Restart
  <2> QED
    BY <1>9, <2>1, RestartKeeps
<1>10. CASE UNCHANGED vars
  <2>1. UNCHANGED store
    BY <1>10 DEF vars, host
  <2> QED
    BY <1>10, <2>1, StutterKeeps
<1> QED
  BY <1>1, <1>2, <1>3, <1>4, <1>5, <1>6, <1>7, <1>8, <1>9, <1>10 DEF Next, Callback

(* lib.rs:202, 595 and 627: the register, its version and the one update   *)
(* under way stay in step with the stored record, unless the refusal of a  *)
(* batch without requests is reported while a save is being written.       *)
THEOREM AlwaysCharted ==
  ASSUME "reply_rejection" \notin Faults
  PROVE  Spec => []Charted
<1>1. Init => Charted
  BY InitKeeps
<1>2. Charted /\ [Next]_vars => Charted'
  BY NextCharted
<1> QED
  BY <1>1, <1>2, PTL DEF Spec

(* lib.rs:202: every command is decided, and every update computed, from   *)
(* the towns in memory.  While these carry the stored version they are the *)
(* stored towns, through saves of unknown fate, rollbacks, late answers    *)
(* and restarts.                                                           *)
THEOREM MemoryIsStoredAlways ==
  ASSUME "reply_rejection" \notin Faults
  PROVE  Spec => []MemoryIsStored
<1>1. Charted => MemoryIsStored
  BY DEF Charted, Loading, Working, MemoryIsStored
<1> QED
  BY <1>1, AlwaysCharted, PTL

(* lib.rs:202 and 627: the record under towns-v1 is always lawful, and is  *)
(* only ever replaced by one decision about one town or by taking such a   *)
(* decision back, whatever arrives between the command and its write.      *)
THEOREM TownsImplementsCharter ==
  ASSUME "reply_rejection" \notin Faults
  PROVE  Spec => CharterSpec
<1>1. Init => Charter!Init
  BY InitKeeps DEF Charted, Charter!Init
<1>2. Charted /\ [Next]_vars => [Charter!Next]_(store.value)
  BY NextCharted DEF Charter!Next
<1>3. Spec => []Charted
  BY AlwaysCharted
<1> QED
  BY <1>1, <1>2, <1>3, PTL DEF Spec, CharterSpec, Charter!Spec

-----------------------------------------------------------------------------
(* What is under way about a zone *)

(* The places where s holds one of S, and what it holds there last, or     *)
(* alone.                                                                  *)
At(s, S) == {i \in DOMAIN s : s[i] \in S}
None(s, S) == At(s, S) = {}
Ends(s, S, c) == \E i \in At(s, S) : s[i] = c /\ \A j \in At(s, S) : j <= i
Only(s, S, c) == \E i \in DOMAIN s : At(s, S) = {i} /\ s[i] = c

(* t says of S what s says. *)
Keeps(s, t, S) ==
  /\ None(s, S) => None(t, S)
  /\ \A c : Ends(s, S, c) => Ends(t, S, c)
  /\ \A c : Only(s, S, c) => Only(t, S, c)

LEMMA OnlyEnds ==
  ASSUME NEW T, NEW s \in Seq(T), NEW S, NEW c, Only(s, S, c)
  PROVE  Ends(s, S, c)
<1> PICK i \in DOMAIN s : At(s, S) = {i} /\ s[i] = c
  BY DEF Only
<1>1. i \in At(s, S) /\ i <= i
  OBVIOUS
<1> QED
  BY <1>1 DEF Ends

LEMMA ConcatHolds ==
  ASSUME NEW T, NEW s \in Seq(T), NEW U, NEW t \in Seq(U), NEW S
  PROVE  /\ None(t, S) => Keeps(s, s \o t, S)
         /\ \A c : Ends(t, S, c) => Ends(s \o t, S, c)
         /\ None(s, S) => \A c : Only(t, S, c) => Only(s \o t, S, c)
<1> PICK n, m, d : n = Len(s) /\ m = Len(t) /\ d = s \o t
  OBVIOUS
<1>1. /\ n \in Nat /\ m \in Nat /\ DOMAIN s = 1 .. n /\ DOMAIN t = 1 .. m
      /\ DOMAIN d = 1 .. n + m
      /\ \A i \in 1 .. n : d[i] = s[i]
      /\ \A i \in 1 .. m : d[n + i] = t[i]
  <2>1. s \in Seq(T \cup U) /\ t \in Seq(T \cup U)
    OBVIOUS
  <2> QED
    BY <2>1
<1>2. \A i \in DOMAIN d : i \in 1 .. n \/ \E j \in 1 .. m : i = n + j
  <2> TAKE i \in DOMAIN d
  <2>1. i \in 1 .. n \/ (i - n \in 1 .. m /\ i = n + (i - n))
    BY <1>1
  <2> QED
    BY <2>1
<1>3. \A i \in At(s, S) : i \in At(d, S) /\ i \in 1 .. n /\ d[i] = s[i]
  BY <1>1 DEF At
<1>4. \A j \in At(t, S) : n + j \in At(d, S) /\ j \in 1 .. m /\ d[n + j] = t[j]
  BY <1>1 DEF At
<1>5. \A i \in At(d, S) : i \in At(s, S) \/ \E j \in At(t, S) : i = n + j
  BY <1>1, <1>2 DEF At
<1>6. ASSUME None(t, S) PROVE Keeps(s, d, S)
  <2>1. At(d, S) = At(s, S)
    BY <1>3, <1>5, <1>6 DEF None
  <2>2. \A i \in At(s, S) : i \in DOMAIN d /\ i \in DOMAIN s /\ d[i] = s[i]
    BY <1>1 DEF At
  <2>3. None(s, S) => None(d, S)
    BY <2>1 DEF None
  <2>4. \A c : Ends(s, S, c) => Ends(d, S, c)
    BY <2>1, <2>2 DEF Ends
  <2>5. \A c : Only(s, S, c) => Only(d, S, c)
    BY <2>1, <2>2 DEF Only
  <2> QED
    BY <2>3, <2>4, <2>5 DEF Keeps
<1>7. ASSUME NEW c, Ends(t, S, c) PROVE Ends(d, S, c)
  <2> PICK i \in At(t, S) : t[i] = c /\ \A j \in At(t, S) : j <= i
    BY <1>7 DEF Ends
  <2>1. n + i \in At(d, S) /\ d[n + i] = c /\ i \in 1 .. m
    BY <1>4
  <2>2. ASSUME NEW j \in At(d, S) PROVE j <= n + i
    <3>1. CASE j \in At(s, S)
      BY <1>1, <1>3, <2>1, <3>1
    <3>2. ASSUME NEW k \in At(t, S), j = n + k PROVE j <= n + i
      <4>1. k <= i /\ k \in 1 .. m
        BY <1>4
      <4> QED
        BY <1>1, <2>1, <3>2, <4>1
    <3> QED
      BY <1>5, <3>1, <3>2
  <2> QED
    BY <2>1, <2>2 DEF Ends
<1>8. ASSUME None(s, S), NEW c, Only(t, S, c) PROVE Only(d, S, c)
  <2> PICK i \in DOMAIN t : At(t, S) = {i} /\ t[i] = c
    BY <1>8 DEF Only
  <2>1. n + i \in At(d, S) /\ d[n + i] = c
    BY <1>4
  <2>2. At(d, S) = {n + i}
    BY <1>5, <1>8, <2>1 DEF None
  <2>3. n + i \in DOMAIN d
    BY <2>1 DEF At
  <2> QED
    BY <2>1, <2>2, <2>3 DEF Only
<1> QED
  BY <1>6, <1>7, <1>8

LEMMA AppendHolds ==
  ASSUME NEW T, NEW s \in Seq(T), NEW c, NEW S
  PROVE  /\ c \notin S => Keeps(s, Append(s, c), S)
         /\ c \in S => /\ Ends(Append(s, c), S, c)
                       /\ None(s, S) => Only(Append(s, c), S, c)
<1> PICK t : t = <<c>>
  OBVIOUS
<1>1. t \in Seq({c}) /\ DOMAIN t = {1} /\ t[1] = c
  OBVIOUS
<1>2. Append(s, c) = s \o t
  <2>1. s \in Seq(T \cup {c}) /\ t \in Seq(T \cup {c})
    OBVIOUS
  <2> QED
    BY <2>1
<1>3. c \notin S => None(t, S)
  BY <1>1 DEF None, At
<1>4. c \in S => Only(t, S, c)
  BY <1>1 DEF Only, At
<1>5. c \in S => Ends(t, S, c)
  BY <1>1, <1>4, OnlyEnds
<1> QED
  BY <1>1, <1>2, <1>3, <1>4, <1>5, ConcatHolds

LEMMA TailHolds ==
  ASSUME NEW T, NEW s \in Seq(T), s # <<>>, NEW S
  PROVE  /\ None(s, S) => Head(s) \notin S /\ None(Tail(s), S)
         /\ Head(s) \notin S => Keeps(s, Tail(s), S)
         /\ \A c : Only(s, S, c) => Head(s) \notin S \/ (c = Head(s) /\ None(Tail(s), S))
         /\ \A c : Ends(s, S, c) => \/ Ends(Tail(s), S, c)
                                    \/ c = Head(s) /\ None(Tail(s), S)
<1> PICK n, h, t : n = Len(s) /\ h = Head(s) /\ t = Tail(s)
  OBVIOUS
<1>1. /\ n \in Nat /\ DOMAIN s = 1 .. n /\ 1 \in 1 .. n /\ h = s[1]
      /\ DOMAIN t = 1 .. n - 1
      /\ \A i \in 1 .. n - 1 : t[i] = s[i + 1]
  OBVIOUS
<1>2. \A i \in At(t, S) : i \in 1 .. n - 1 /\ i + 1 \in At(s, S) /\ t[i] = s[i + 1]
  BY <1>1 DEF At
<1>3. \A i \in At(s, S) : (i = 1 /\ h \in S) \/ (i - 1 \in At(t, S) /\ t[i - 1] = s[i] /\ i > 1)
  <2> TAKE i \in At(s, S)
  <2>1. i \in 1 .. n /\ s[i] \in S
    BY <1>1 DEF At
  <2>2. CASE i = 1
    BY <1>1, <2>1, <2>2
  <2>3. CASE i # 1
    <3>1. i - 1 \in 1 .. n - 1 /\ (i - 1) + 1 = i /\ i > 1
      BY <1>1, <2>1, <2>3
    <3>2. t[i - 1] = s[i]
      BY <1>1, <3>1
    <3> QED
      BY <1>1, <2>1, <3>1, <3>2 DEF At
  <2> QED
    BY <2>2, <2>3
<1>4. h \in S => 1 \in At(s, S)
  BY <1>1 DEF At
<1>5. None(s, S) => h \notin S /\ None(t, S)
  BY <1>2, <1>4 DEF None
<1>6. ASSUME NEW c, NEW i \in At(s, S), i # 1, s[i] = c,
             \A j \in At(s, S) : j <= i
      PROVE  Ends(t, S, c)
  <2>1. i - 1 \in At(t, S) /\ t[i - 1] = c /\ i \in 1 .. n
    BY <1>1, <1>3, <1>6 DEF At
  <2>2. ASSUME NEW j \in At(t, S) PROVE j <= i - 1
    <3>1. j \in 1 .. n - 1 /\ j + 1 <= i
      BY <1>2, <1>6
    <3> QED
      BY <1>1, <2>1, <3>1
  <2> QED
    BY <2>1, <2>2 DEF Ends
<1>7. ASSUME h \notin S PROVE Keeps(s, t, S)
  <2>1. 1 \notin At(s, S)
    BY <1>1, <1>7 DEF At
  <2>2. ASSUME NEW c, Ends(s, S, c) PROVE Ends(t, S, c)
    BY <1>6, <2>1, <2>2 DEF Ends
  <2>3. ASSUME NEW c, Only(s, S, c) PROVE Only(t, S, c)
    <3> PICK i \in DOMAIN s : At(s, S) = {i} /\ s[i] = c
      BY <2>3 DEF Only
    <3>1. i - 1 \in At(t, S) /\ t[i - 1] = c /\ i \in 1 .. n
      BY <1>1, <1>3, <2>1
    <3>2. \A j \in At(t, S) : j = i - 1
      <4> TAKE j \in At(t, S)
      <4>1. j + 1 = i /\ j \in 1 .. n - 1
        BY <1>2
      <4> QED
        BY <1>1, <4>1
    <3>3. At(t, S) = {i - 1} /\ i - 1 \in DOMAIN t
      BY <3>1, <3>2 DEF At
    <3> QED
      BY <3>1, <3>3 DEF Only
  <2> QED
    BY <1>5, <2>2, <2>3 DEF Keeps
<1>8. ASSUME NEW c, Only(s, S, c), h \in S PROVE c = h /\ None(t, S)
  <2> PICK i \in DOMAIN s : At(s, S) = {i} /\ s[i] = c
    BY <1>8 DEF Only
  <2>1. i = 1
    BY <1>4, <1>8
  <2>2. ASSUME NEW j \in At(t, S) PROVE FALSE
    BY <1>1, <1>2, <2>1
  <2> QED
    BY <1>1, <2>1, <2>2 DEF None
<1>9. ASSUME NEW c, Ends(s, S, c) PROVE Ends(t, S, c) \/ (c = h /\ None(t, S))
  <2> PICK i \in At(s, S) : s[i] = c /\ \A j \in At(s, S) : j <= i
    BY <1>9 DEF Ends
  <2>1. CASE i = 1
    <3>1. ASSUME NEW j \in At(t, S) PROVE FALSE
      <4>1. j \in 1 .. n - 1 /\ j + 1 <= 1
        BY <1>2, <2>1
      <4> QED
        BY <1>1, <4>1
    <3> QED
      BY <1>1, <2>1, <3>1 DEF None
  <2>2. CASE i # 1
    BY <1>6, <2>2
  <2> QED
    BY <2>1, <2>2
<1> QED
  BY <1>5, <1>7, <1>8, <1>9

(* A batch says of the zones what it says without its other commands. *)
For(z) == {c \in ZoneCalls : c.zone = z}

LEMMA BatchHolds ==
  ASSUME NEW b, IsBatch(b), NEW z
  PROVE  Keeps(b, ZoneCommandsOf(b), For(z)) /\ None(<<>>, For(z))
<1> PICK S, I, at, n, out :
       /\ S = For(z) /\ I = {i \in DOMAIN b : b[i].type \in {"upsert", "remove"}}
       /\ at = InOrder(I) /\ n = Cardinality(I) /\ out = [k \in DOMAIN at |-> b[at[k]]]
  OBVIOUS
<1>0. out = ZoneCommandsOf(b)
  BY DEF ZoneCommandsOf
<1>1. Lists(at, I, n) /\ n \in Nat /\ I \subseteq Nat
  <2>1. b \in Seq(ToSet(b))
    BY DEF IsBatch
  <2>2. Len(b) \in Nat /\ DOMAIN b = 1 .. Len(b)
    BY <2>1
  <2>3. I \in SUBSET (1 .. Len(b))
    BY <2>2
  <2>4. Lists(InOrder(I), I, Cardinality(I)) /\ Cardinality(I) \in Nat
    BY <2>2, <2>3, InOrderOf, Zenon
  <2>5. I \subseteq Nat
    BY <2>2, <2>3
  <2> QED
    BY <2>4, <2>5
<1>2. /\ DOMAIN at = 1 .. n /\ \A k \in 1 .. n : at[k] \in I /\ at[k] \in Nat
      /\ \A j, k \in 1 .. n : j < k => at[j] < at[k]
      /\ \A i \in I : \E k \in 1 .. n : at[k] = i
  BY <1>1 DEF Lists, ToSet
<1>3. DOMAIN out = 1 .. n /\ \A k \in 1 .. n : out[k] = b[at[k]]
  BY <1>2
<1>4. At(b, S) \subseteq I
  BY DEF At, For, ZoneCalls
<1>5. \A k \in At(out, S) : k \in 1 .. n /\ at[k] \in At(b, S)
  BY <1>2, <1>3 DEF At
<1>6. \A i \in At(b, S) : \E k \in 1 .. n : at[k] = i /\ k \in At(out, S) /\ out[k] = b[i]
  BY <1>2, <1>3, <1>4 DEF At
<1>7. None(b, S) => None(out, S)
  BY <1>5 DEF None
<1>8. ASSUME NEW c, Ends(b, S, c) PROVE Ends(out, S, c)
  <2> PICK i \in At(b, S) : b[i] = c /\ \A j \in At(b, S) : j <= i
    BY <1>8 DEF Ends
  <2> PICK k \in 1 .. n : at[k] = i /\ k \in At(out, S) /\ out[k] = b[i]
    BY <1>6
  <2>1. ASSUME NEW j \in At(out, S) PROVE j <= k
    <3>1. j \in 1 .. n /\ at[j] <= at[k]
      BY <1>5
    <3>2. at[j] \in Nat /\ at[k] \in Nat /\ (k < j => at[k] < at[j])
      BY <1>2, <3>1
    <3>3. ~ (k < j)
      BY <3>1, <3>2
    <3> QED
      BY <1>1, <3>1, <3>3
  <2> QED
    BY <2>1 DEF Ends
<1>9. ASSUME NEW c, Only(b, S, c) PROVE Only(out, S, c)
  <2> PICK i \in DOMAIN b : At(b, S) = {i} /\ b[i] = c
    BY <1>9 DEF Only
  <2> PICK k \in 1 .. n : at[k] = i /\ k \in At(out, S) /\ out[k] = b[i]
    BY <1>6
  <2>1. ASSUME NEW j \in At(out, S) PROVE j = k
    <3>1. j \in 1 .. n /\ at[j] = at[k]
      BY <1>5
    <3> QED
      BY <1>1, <1>2, <3>1
  <2>2. At(out, S) = {k} /\ k \in DOMAIN out
    BY <1>3, <2>1
  <2> QED
    BY <2>2 DEF Only
<1>10. None(<<>>, S)
  BY DEF None, At
<1> QED
  BY <1>0, <1>7, <1>8, <1>9, <1>10 DEF Keeps

LEMMA ListHolds ==
  ASSUME NEW s \in Seq(ZoneCalls), \A i, j \in DOMAIN s : s[i].zone = s[j].zone => i = j, NEW z
  PROVE  /\ \A c \in ToSet(s) : c.zone = z => Only(s, For(z), c)
         /\ (\A c \in ToSet(s) : c.zone # z) => None(s, For(z))
<1>1. \A i \in DOMAIN s : s[i] \in ZoneCalls
  OBVIOUS
<1>2. ASSUME NEW c \in ToSet(s), c.zone = z PROVE Only(s, For(z), c)
  <2> PICK i \in DOMAIN s : s[i] = c
    BY DEF ToSet
  <2>1. At(s, For(z)) = {i}
    BY <1>1, <1>2 DEF At, For
  <2> QED
    BY <2>1 DEF Only
<1>3. ASSUME \A c \in ToSet(s) : c.zone # z PROVE None(s, For(z))
  BY <1>3 DEF None, At, For, ToSet
<1> QED
  BY <1>2, <1>3

-----------------------------------------------------------------------------
(* The zones, and the commands and answers on their way to and from them *)

Told(z) == [zone: {z}, applied: BOOLEAN]
Reply(z, applied) == [zone |-> z, applied |-> applied]

(* The rights a zone grants and those a command leaves it, as an Option.   *)
Open(z) == IF z \in DOMAIN zones THEN {zones[z]} ELSE {}
Effect(c) == IF c.type = "upsert" THEN {c.rights} ELSE {}

(* No command and no answer about z is under way. *)
Quiet(z) == /\ None(outbox, For(z)) /\ None(zone_calls, For(z))
            /\ None(zone_answers, Told(z))

(* The command c, or the answer to one, is all that is under way about z.  *)
Sent(z, c) ==
  /\ None(zone_answers, Told(z))
  /\ \/ Only(outbox, For(z), c) /\ None(zone_calls, For(z))
     \/ None(outbox, For(z)) /\ Only(zone_calls, For(z), c)

Replied(z, applied) ==
  /\ None(outbox, For(z)) /\ None(zone_calls, For(z))
  /\ Only(zone_answers, Told(z), Reply(z, applied))

(* What is under way leaves z granting want, if it is applied. *)
Becomes(z, want) ==
  \/ \E c \in For(z) : Ends(outbox, For(z), c) /\ Effect(c) = want
  \/ /\ None(outbox, For(z))
     /\ \E c \in For(z) : Ends(zone_calls, For(z), c) /\ Effect(c) = want
  \/ None(outbox, For(z)) /\ None(zone_calls, For(z)) /\ Open(z) = want

(* A step that concerns no command about z, or takes it to the host. *)
Still(z) ==
  /\ Quiet(z) => Quiet(z)'
  /\ \A c : Sent(z, c) => Sent(z, c)'
  /\ \A applied : Replied(z, applied) => Replied(z, applied)'
  /\ \A want : Becomes(z, want) => Becomes(z, want)'
  /\ Open(z)' = Open(z)

LEMMA KeepsItself == ASSUME NEW s, NEW S PROVE Keeps(s, s, S)
BY DEF Keeps

LEMMA KeptStill ==
  ASSUME NEW z, Keeps(outbox, outbox', For(z)), Keeps(zone_calls, zone_calls', For(z)),
         Keeps(zone_answers, zone_answers', Told(z)), Open(z)' = Open(z)
  PROVE  Still(z)
<1> PICK S, T : S = For(z) /\ T = Told(z)
  OBVIOUS
<1>1. /\ None(outbox, S) => None(outbox', S)
      /\ None(zone_calls, S) => None(zone_calls', S)
      /\ None(zone_answers, T) => None(zone_answers', T)
  BY DEF Keeps
<1>2. \A c : /\ Only(outbox, S, c) => Only(outbox', S, c)
             /\ Only(zone_calls, S, c) => Only(zone_calls', S, c)
             /\ Only(zone_answers, T, c) => Only(zone_answers', T, c)
             /\ Ends(outbox, S, c) => Ends(outbox', S, c)
             /\ Ends(zone_calls, S, c) => Ends(zone_calls', S, c)
  BY DEF Keeps
<1>3. Quiet(z) => Quiet(z)'
  BY <1>1 DEF Quiet
<1>4. \A c : Sent(z, c) => Sent(z, c)'
  BY <1>1, <1>2 DEF Sent
<1>5. \A applied : Replied(z, applied) => Replied(z, applied)'
  BY <1>1, <1>2 DEF Replied
<1>6. \A want : Becomes(z, want) => Becomes(z, want)'
  BY <1>1, <1>2 DEF Becomes
<1> QED
  BY <1>3, <1>4, <1>5, <1>6 DEF Still

LEMMA AcceptStill ==
  ASSUME Typed, AcceptBatch, NEW z
  PROVE  Still(z)
<1> PICK S, t : S = For(z) /\ t = ZoneCommandsOf(outbox)
  OBVIOUS
<1>1. /\ outbox' = <<>> /\ zone_calls' = zone_calls \o t
      /\ zones' = zones /\ zone_answers' = zone_answers
  BY DEF AcceptBatch
<1>2. /\ None(outbox', S)
      /\ None(outbox, S) => None(t, S)
      /\ \A c : Only(outbox, S, c) => Only(t, S, c)
      /\ \A c : Ends(outbox, S, c) => Ends(t, S, c)
  BY <1>1, BatchHolds DEF Typed, Keeps
<1>3. /\ None(t, S) => Keeps(zone_calls, zone_calls', S)
      /\ \A c : Ends(t, S, c) => Ends(zone_calls', S, c)
      /\ None(zone_calls, S) => \A c : Only(t, S, c) => Only(zone_calls', S, c)
  <2>1. zone_calls \in Seq(ZoneCalls) /\ t \in Seq(ZoneCalls)
    BY ZoneCommandsOfBatch DEF Typed
  <2> QED
    BY <1>1, <2>1, ConcatHolds
<1>4. None(outbox, S) => /\ None(zone_calls, S) => None(zone_calls', S)
                         /\ \A c : Only(zone_calls, S, c) => Only(zone_calls', S, c)
                         /\ \A c : Ends(zone_calls, S, c) => Ends(zone_calls', S, c)
  BY <1>2, <1>3 DEF Keeps
<1>5. Quiet(z) => Quiet(z)'
  BY <1>1, <1>2, <1>4 DEF Quiet
<1>6. \A c : Sent(z, c) => Sent(z, c)'
  BY <1>1, <1>2, <1>3, <1>4 DEF Sent
<1>7. \A applied : Replied(z, applied) => Replied(z, applied)'
  BY <1>1, <1>2, <1>4 DEF Replied
<1>8. Open(z)' = Open(z)
  BY <1>1 DEF Open
<1>9. \A want : Becomes(z, want) => Becomes(z, want)'
  BY <1>2, <1>3, <1>4, <1>8 DEF Becomes
<1> QED
  BY <1>5, <1>6, <1>7, <1>8, <1>9 DEF Still

LEMMA FirstOf ==
  ASSUME NEW T, NEW s \in Seq(T), s # <<>>
  PROVE  1 \in DOMAIN s /\ s[1] \in T /\ Head(s) = s[1]
OBVIOUS

LEMMA TailIn ==
  ASSUME NEW T, NEW s \in Seq(T), s # <<>>
  PROVE  \A i \in DOMAIN Tail(s) : \E j \in DOMAIN s : Tail(s)[i] = s[j]
<1> TAKE i \in DOMAIN Tail(s)
<1>1. i + 1 \in DOMAIN s /\ Tail(s)[i] = s[i + 1]
  OBVIOUS
<1> QED
  BY <1>1

LEMMA AppendIn ==
  ASSUME NEW T, NEW s \in Seq(T), NEW a
  PROVE  \A i \in DOMAIN Append(s, a) :
            Append(s, a)[i] = a \/ (i \in DOMAIN s /\ Append(s, a)[i] = s[i])
<1> TAKE i \in DOMAIN Append(s, a)
<1> PICK n : n = Len(s)
  OBVIOUS
<1>1. n \in Nat /\ DOMAIN s = 1 .. n /\ i \in 1 .. n + 1
  OBVIOUS
<1>2. i = n + 1 \/ i \in 1 .. n
  BY <1>1
<1> QED
  BY <1>1, <1>2

LEMMA NoAnswers ==
  ASSUME NEW s \in Seq([zone: ZoneIds, applied: BOOLEAN]),
         \A z \in ZoneIds : None(s, Told(z))
  PROVE  s = <<>>
<1> PICK T : T = [zone: ZoneIds, applied: BOOLEAN]
  OBVIOUS
<1> SUFFICES ASSUME s # <<>> PROVE FALSE
  OBVIOUS
<1>1. 1 \in DOMAIN s /\ s[1] \in T
  BY FirstOf
<1> PICK z : z = s[1].zone
  OBVIOUS
<1>2. z \in ZoneIds /\ s[1] \in Told(z)
  BY <1>1 DEF Told
<1> QED
  BY <1>1, <1>2 DEF None, At

(* Nothing is under way about any zone. *)
LEMMA QuietIs ==
  ASSUME Typed, \A z \in ZoneIds : Quiet(z)
  PROVE  OfTypes({"upsert", "remove"}) = {} /\ zone_calls = <<>> /\ zone_answers = <<>>
<1>1. ASSUME NEW c \in ToSet(outbox), c.type \in {"upsert", "remove"} PROVE FALSE
  <2>1. c \in ZoneCalls
    BY <1>1, CommandIs DEF Typed, IsBatch
  <2> PICK z : z = c.zone
    OBVIOUS
  <2>2. z \in ZoneIds /\ c \in For(z)
    BY <2>1 DEF For, ZoneCalls
  <2>3. \E i \in DOMAIN outbox : outbox[i] = c
    BY DEF ToSet
  <2> QED
    BY <2>2, <2>3 DEF Quiet, None, At
<1>2. ASSUME zone_calls # <<>> PROVE FALSE
  <2>1. zone_calls \in Seq(ZoneCalls)
    BY DEF Typed
  <2>2. 1 \in DOMAIN zone_calls /\ zone_calls[1] \in ZoneCalls
    BY <1>2, <2>1, FirstOf
  <2> PICK z : z = zone_calls[1].zone
    OBVIOUS
  <2>3. z \in ZoneIds /\ zone_calls[1] \in For(z)
    BY <2>2 DEF For, ZoneCalls
  <2> QED
    BY <2>2, <2>3 DEF Quiet, None, At
<1>3. zone_answers = <<>>
  BY NoAnswers DEF Typed, Quiet
<1> QED
  BY <1>1, <1>2, <1>3 DEF OfTypes

-----------------------------------------------------------------------------
(* The rewriting of zones *)

Spent == refusals >= MaxRefusals
AllApplied == \A i \in DOMAIN zone_answers : zone_answers[i].applied

(* A zone that is rewritten: its command is under way, or the answer.      *)
Rewritten(z, old, new) ==
  \/ \E c \in For(z) : Sent(z, c) /\ Effect(c) = new /\ Open(z) = old
  \/ Replied(z, TRUE) /\ Open(z) = new
  \/ Replied(z, FALSE) /\ Open(z) = old /\ Spent

(* One that is not, or no longer. *)
Settled(z, failed, old, new) ==
  Quiet(z) /\ (Open(z) = new \/ (failed /\ Open(z) = old))

(* The zones of ids are rewritten for the register after, which took the   *)
(* place of before; an answer so far was a refusal if failed.              *)
Rewriting(ids, failed, before, after) ==
  /\ \A z \in ids : Rewritten(z, Want(before, z), Want(after, z))
  /\ \A z \in ZoneIds \ ids : Settled(z, failed, Want(before, z), Want(after, z))
  /\ failed => Spent

(* The zones are those of the register once every command is executed; if  *)
(* there is any, none will be refused.                                     *)
Matched(register) ==
  /\ \A z \in ZoneIds : Becomes(z, Want(register, z))
  /\ (\A z \in ZoneIds : Quiet(z)) \/ (Spent /\ AllApplied)

LEMMA StillRewritten ==
  ASSUME NEW z, Still(z), Spent => Spent'
  PROVE  /\ \A old, new : Rewritten(z, old, new) => Rewritten(z, old, new)'
         /\ \A failed, old, new : Settled(z, failed, old, new) => Settled(z, failed, old, new)'
BY DEF Still, Rewritten, Settled

LEMMA StillRewriting ==
  ASSUME \A z \in ZoneIds : Still(z), Spent => Spent', AllApplied => AllApplied',
         NEW ids, ids \subseteq ZoneIds, NEW failed, NEW before, NEW after
  PROVE  /\ Rewriting(ids, failed, before, after) => Rewriting(ids, failed, before, after)'
         /\ Matched(after) => Matched(after)'
<1>1. ASSUME Rewriting(ids, failed, before, after)
      PROVE  Rewriting(ids, failed, before, after)'
  <2>1. ASSUME NEW z \in ids
        PROVE  Rewritten(z, Want(before, z), Want(after, z))'
    BY <1>1, StillRewritten DEF Rewriting, Want
  <2>2. ASSUME NEW z \in ZoneIds \ ids
        PROVE  Settled(z, failed, Want(before, z), Want(after, z))'
    BY <1>1, StillRewritten DEF Rewriting, Want
  <2> QED
    BY <1>1, <2>1, <2>2 DEF Rewriting
<1>2. ASSUME Matched(after) PROVE Matched(after)'
  <2>1. ASSUME NEW z \in ZoneIds PROVE Becomes(z, Want(after, z))'
    BY <1>2 DEF Matched, Still, Want
  <2>2. (\A z \in ZoneIds : Quiet(z)) => \A z \in ZoneIds : Quiet(z)'
    BY DEF Still
  <2> QED
    BY <1>2, <2>1, <2>2 DEF Matched
<1> QED
  BY <1>1, <1>2

(* The first answer is taken; the batch gains no zone command. *)
Answered(answer) ==
  /\ zone_answers # <<>> /\ answer = Head(zone_answers) /\ zone_answers' = Tail(zone_answers)
  /\ UNCHANGED <<pending_queries, calls, answers, zones, zone_calls, refusals>>
  /\ \A z : Keeps(outbox, outbox', For(z))

LEMMA AnswerMoves ==
  ASSUME Typed, NEW answer, Answered(answer)
  PROVE  /\ answer.zone \in ZoneIds /\ answer.applied \in BOOLEAN
         /\ AllApplied => answer.applied = TRUE /\ AllApplied'
         /\ \A z : z # answer.zone => Still(z)
         /\ \A z : Open(z)' = Open(z) /\ \A want : Becomes(z, want) => Becomes(z, want)'
         /\ ~ Quiet(answer.zone) /\ \A c : ~ Sent(answer.zone, c)
         /\ \A applied : Replied(answer.zone, applied) =>
                           answer.applied = applied /\ Quiet(answer.zone)'
<1> PICK T, s, t : /\ T = [zone: ZoneIds, applied: BOOLEAN]
                   /\ s = zone_answers /\ t = Tail(zone_answers)
  OBVIOUS
<1>0. /\ zones' = zones /\ zone_calls' = zone_calls
      /\ \A z : Keeps(outbox, outbox', For(z))
  BY DEF Answered
<1>1. s \in Seq(T) /\ s # <<>> /\ t = Tail(s) /\ answer = Head(s) /\ zone_answers' = t
  BY DEF Typed, Answered
<1>2. 1 \in DOMAIN s /\ s[1] = answer /\ answer \in T
  <2>1. 1 \in DOMAIN s /\ s[1] \in T /\ Head(s) = s[1]
    BY <1>1, FirstOf
  <2> QED
    BY <1>1, <2>1
<1>3. /\ answer.zone \in ZoneIds /\ answer.applied \in BOOLEAN
      /\ answer = Reply(answer.zone, answer.applied)
  BY <1>2 DEF Reply
<1>4. AllApplied => answer.applied = TRUE /\ AllApplied'
  <2>1. \A i \in DOMAIN t : \E j \in DOMAIN s : t[i] = s[j]
    BY <1>1, TailIn
  <2>2. AllApplied => \A i \in DOMAIN s : s[i].applied
    BY DEF AllApplied
  <2>3. (\A i \in DOMAIN t : t[i].applied) => AllApplied'
    BY <1>1 DEF AllApplied
  <2>4. ASSUME AllApplied PROVE \A i \in DOMAIN t : t[i].applied
    BY <2>1, <2>2, <2>4, Zenon
  <2> QED
    BY <1>2, <1>3, <2>2, <2>3, <2>4
<1>5. /\ None(s, Told(answer.zone)) => FALSE
      /\ \A c : Only(s, Told(answer.zone), c) => c = answer /\ None(t, Told(answer.zone))
  <2>1. answer \in Told(answer.zone)
    BY <1>3 DEF Told, Reply
  <2>2. Head(s) \in Told(answer.zone)
    BY <1>1, <2>1
  <2> QED
    BY <1>1, <2>2, TailHolds
<1>6. \A z : Open(z)' = Open(z)
  BY <1>0 DEF Open
<1>7. ASSUME NEW z, z # answer.zone PROVE Still(z)
  <2>1. answer \notin Told(z)
    BY <1>7 DEF Told
  <2>2. Keeps(s, t, Told(z))
    BY <1>1, <2>1, TailHolds
  <2>3. Keeps(zone_answers, zone_answers', Told(z)) /\ Keeps(zone_calls, zone_calls', For(z))
    BY <1>0, <1>1, <2>2, KeepsItself
  <2> QED
    BY <1>0, <1>6, <2>3, KeptStill
<1>8. ASSUME NEW z, NEW want, Becomes(z, want) PROVE Becomes(z, want)'
  <2>1. /\ None(outbox, For(z)) => None(outbox', For(z))
        /\ \A c : Ends(outbox, For(z), c) => Ends(outbox', For(z), c)
    BY <1>0 DEF Keeps
  <2> QED
    BY <1>0, <1>6, <1>8, <2>1 DEF Becomes
<1>9. ~ Quiet(answer.zone) /\ \A c : ~ Sent(answer.zone, c)
  BY <1>5 DEF Quiet, Sent
<1>10. ASSUME NEW applied, Replied(answer.zone, applied)
       PROVE  answer.applied = applied /\ Quiet(answer.zone)'
  <2> PICK z : z = answer.zone
    OBVIOUS
  <2>1. Reply(z, applied) = answer /\ None(t, Told(z)) /\ None(outbox, For(z)) /\ None(zone_calls, For(z))
    BY <1>5, <1>10 DEF Replied
  <2>2. answer.applied = applied
    BY <2>1 DEF Reply
  <2>3. None(outbox', For(z))
    BY <1>0, <2>1 DEF Keeps
  <2>4. Quiet(z)'
    BY <1>0, <1>1, <2>1, <2>3 DEF Quiet
  <2> QED
    BY <2>2, <2>4
<1> QED
  BY <1>3, <1>4, <1>6, <1>7, <1>8, <1>9, <1>10

LEMMA RewritingAnswered ==
  ASSUME Typed, NEW answer, Answered(answer),
         NEW ids, ids \subseteq ZoneIds, NEW failed, NEW before, NEW after,
         Rewriting(ids, failed, before, after),
         NEW left, left = ids \ {answer.zone},
         NEW now \in BOOLEAN, now <=> failed \/ ~ answer.applied
  PROVE  /\ answer.zone \in ids /\ Rewriting(left, now, before, after)'
         /\ ~ answer.applied => Open(answer.zone)' = Want(before, answer.zone)
<1> PICK y : y = answer.zone
  OBVIOUS
<1>1. /\ y \in ZoneIds /\ answer.applied \in BOOLEAN /\ ~ Quiet(y)
      /\ \A z : z # y => Still(z)
      /\ \A c : ~ Sent(y, c)
      /\ \A applied : Replied(y, applied) => answer.applied = applied /\ Quiet(y)'
      /\ \A z : Open(z)' = Open(z)
  BY AnswerMoves
<1>2. y \in ids
  BY <1>1 DEF Rewriting, Settled
<1>3. Spent' <=> Spent
  BY DEF Spent, Answered
<1>4. /\ Rewritten(y, Want(before, y), Want(after, y))
      /\ \A z \in ids : Rewritten(z, Want(before, z), Want(after, z))
      /\ \A z \in ZoneIds \ ids : Settled(z, failed, Want(before, z), Want(after, z))
      /\ failed => Spent
  BY <1>2 DEF Rewriting
<1>5. /\ Quiet(y)'
      /\ \/ answer.applied = TRUE /\ Open(y) = Want(after, y)
         \/ answer.applied = FALSE /\ Open(y) = Want(before, y) /\ Spent
  BY <1>1, <1>4 DEF Rewritten
<1>6. Settled(y, now, Want(before, y), Want(after, y))'
  <2>1. \/ Open(y)' = Want(after, y)
        \/ now /\ Open(y)' = Want(before, y)
    BY <1>1, <1>5
  <2> QED
    BY <1>5, <2>1 DEF Settled, Want
<1>7. ASSUME NEW z \in left PROVE Rewritten(z, Want(before, z), Want(after, z))'
  BY <1>1, <1>3, <1>4, StillRewritten DEF Want
<1>8. ASSUME NEW z \in ZoneIds \ left
      PROVE  Settled(z, now, Want(before, z), Want(after, z))'
  <2>1. CASE z = y
    BY <1>6, <2>1
  <2>2. CASE z # y
    <3>1. Settled(z, failed, Want(before, z), Want(after, z)) /\ Still(z)
      BY <1>1, <1>4, <2>2
    <3>2. Settled(z, now, Want(before, z), Want(after, z))
      BY <3>1 DEF Settled
    <3> QED
      BY <1>3, <3>1, <3>2, StillRewritten DEF Want
  <2> QED
    BY <2>1, <2>2
<1>9. now => Spent'
  BY <1>3, <1>4, <1>5
<1>10. Rewriting(left, now, before, after)'
  BY <1>7, <1>8, <1>9 DEF Rewriting
<1> QED
  BY <1>1, <1>2, <1>5, <1>10

(* The first command is executed or refused. *)
Executed(call, applied) ==
  /\ zone_calls' = Tail(zone_calls)
  /\ zone_answers' = Append(zone_answers, Reply(call.zone, applied))
  /\ UNCHANGED outbox
  /\ IF applied
     THEN /\ \A z : Open(z)' = IF z = call.zone THEN Effect(call) ELSE Open(z)
          /\ UNCHANGED refusals
     ELSE UNCHANGED zones /\ refusals < MaxRefusals /\ refusals' = refusals + 1

LEMMA ExecuteZoneIs ==
  ASSUME Typed, ExecuteZone
  PROVE  /\ zone_calls # <<>> /\ Head(zone_calls) \in ZoneCalls
         /\ \E applied \in BOOLEAN : Executed(Head(zone_calls), applied)
         /\ UNCHANGED <<plugin, store, timers, requesting>>
<1> PICK call : call = Head(zone_calls)
  OBVIOUS
<1>1. /\ zone_calls # <<>> /\ zone_calls' = Tail(zone_calls)
      /\ UNCHANGED <<plugin, store, timers, requesting, outbox>>
      /\ \/ /\ zones' = IF call.type = "upsert" THEN With(zones, call.zone, call.rights)
                        ELSE Without(zones, {call.zone})
            /\ zone_answers' = Append(zone_answers, [zone |-> call.zone, applied |-> TRUE])
            /\ UNCHANGED refusals
         \/ /\ refusals < MaxRefusals /\ refusals' = refusals + 1
            /\ zone_answers' = Append(zone_answers, [zone |-> call.zone, applied |-> FALSE])
            /\ UNCHANGED zones
  BY DEF ExecuteZone
<1>2. call \in ZoneCalls
  BY <1>1, FirstOf DEF Typed
<1>3. ASSUME zones' = IF call.type = "upsert" THEN With(zones, call.zone, call.rights)
                      ELSE Without(zones, {call.zone}),
             NEW z
      PROVE  Open(z)' = IF z = call.zone THEN Effect(call) ELSE Open(z)
  BY <1>3 DEF Open, Effect, With, Without
<1>4. Executed(call, TRUE) \/ Executed(call, FALSE)
  BY <1>1, <1>3 DEF Executed, Reply
<1> QED
  BY <1>1, <1>2, <1>4

LEMMA ExecuteMoves ==
  ASSUME Typed, NEW call, zone_calls # <<>>, call = Head(zone_calls), call \in ZoneCalls,
         NEW applied \in BOOLEAN, Executed(call, applied)
  PROVE  /\ \A z : z # call.zone => Still(z)
         /\ ~ Quiet(call.zone) /\ \A b : ~ Replied(call.zone, b)
         /\ \A c : Sent(call.zone, c) =>
               c = call /\ None(outbox, For(call.zone)) /\ Replied(call.zone, applied)'
         /\ applied => \A want : Becomes(call.zone, want) => Becomes(call.zone, want)'
<1> PICK y, a, s, t, u, U :
       /\ y = call.zone /\ a = Reply(y, applied) /\ s = zone_calls /\ t = Tail(zone_calls)
       /\ u = zone_answers /\ U = [zone: ZoneIds, applied: BOOLEAN]
  OBVIOUS
<1>1. /\ s \in Seq(ZoneCalls) /\ s # <<>> /\ t = Tail(s) /\ call = Head(s) /\ u \in Seq(U)
      /\ zone_calls' = t /\ zone_answers' = Append(u, a) /\ outbox' = outbox
      /\ ~ applied => zones' = zones
      /\ applied => \A z : Open(z)' = IF z = y THEN Effect(call) ELSE Open(z)
  BY DEF Typed, Executed
<1>2. call \in For(y) /\ \A z : z # y => call \notin For(z)
  BY DEF For
<1>3. a \in Told(y) /\ \A z : z # y => a \notin Told(z)
  BY DEF Reply, Told
<1>4. /\ ~ None(s, For(y))
      /\ \A c : Only(s, For(y), c) => c = call /\ None(t, For(y))
      /\ \A c : Ends(s, For(y), c) => Ends(t, For(y), c) \/ (c = call /\ None(t, For(y)))
  BY <1>1, <1>2, TailHolds
<1>5. None(u, Told(y)) => Only(zone_answers', Told(y), a)
  BY <1>1, <1>3, AppendHolds
<1>6. ASSUME NEW z, z # y PROVE Still(z)
  <2>1. Keeps(s, t, For(z))
    BY <1>1, <1>2, <1>6, TailHolds
  <2>2. Keeps(u, Append(u, a), Told(z))
    BY <1>1, <1>3, <1>6, AppendHolds
  <2>3. Open(z)' = Open(z)
    BY <1>1, <1>6 DEF Open
  <2>4. /\ Keeps(outbox, outbox', For(z)) /\ Keeps(zone_calls, zone_calls', For(z))
        /\ Keeps(zone_answers, zone_answers', Told(z))
    BY <1>1, <2>1, <2>2, KeepsItself
  <2> QED
    BY <2>3, <2>4, KeptStill
<1>7. ~ Quiet(y) /\ \A b : ~ Replied(y, b)
  BY <1>4 DEF Quiet, Replied
<1>8. ASSUME NEW c, Sent(y, c) PROVE c = call /\ None(outbox, For(y)) /\ Replied(y, applied)'
  <2>1. None(u, Told(y)) /\ None(outbox, For(y)) /\ Only(s, For(y), c)
    BY <1>4, <1>8 DEF Sent
  <2>2. c = call /\ None(zone_calls', For(y)) /\ Only(zone_answers', Told(y), a)
          /\ None(outbox', For(y))
    BY <1>1, <1>4, <1>5, <2>1
  <2>3. Replied(y, applied)'
    BY <2>2 DEF Replied
  <2> QED
    BY <2>1, <2>2, <2>3
<1>9. ASSUME applied, NEW want, Becomes(y, want) PROVE Becomes(y, want)'
  <2>1. Open(y)' = Effect(call)
    BY <1>1, <1>9
  <2>2. CASE \E c \in For(y) : Ends(outbox, For(y), c) /\ Effect(c) = want
    BY <1>1, <2>2 DEF Becomes
  <2>3. ASSUME None(outbox, For(y)), NEW c \in For(y), Ends(s, For(y), c), Effect(c) = want
        PROVE  Becomes(y, want)'
    <3>1. None(outbox', For(y))
      BY <1>1, <2>3
    <3>2. CASE Ends(t, For(y), c)
      BY <1>1, <2>3, <3>1, <3>2 DEF Becomes
    <3>3. CASE c = call /\ None(t, For(y))
      BY <1>1, <2>1, <2>3, <3>1, <3>3 DEF Becomes
    <3> QED
      BY <1>4, <2>3, <3>2, <3>3
  <2> QED
    BY <1>4, <1>9, <2>2, <2>3 DEF Becomes
<1> QED
  BY <1>6, <1>7, <1>8, <1>9

LEMMA RewritingExecuted ==
  ASSUME MaxRefusals <= 1, Typed, ExecuteZone,
         NEW ids, ids \subseteq ZoneIds, NEW failed, NEW before, NEW after,
         Rewriting(ids, failed, before, after)
  PROVE  Rewriting(ids, failed, before, after)'
<1> PICK call : call = Head(zone_calls)
  OBVIOUS
<1> PICK applied \in BOOLEAN : Executed(call, applied)
  BY ExecuteZoneIs
<1> PICK y : y = call.zone
  OBVIOUS
<1>1. zone_calls # <<>> /\ call \in ZoneCalls /\ y \in ZoneIds
  BY ExecuteZoneIs DEF ZoneCalls
<1>2. /\ \A z : z # y => Still(z)
      /\ ~ Quiet(y) /\ \A b : ~ Replied(y, b)
      /\ \A c : Sent(y, c) => c = call /\ Replied(y, applied)'
  BY <1>1, ExecuteMoves
<1>3. (Spent => Spent' /\ applied = TRUE) /\ (applied = FALSE => Spent')
  BY BoundsAssumption DEF Typed, ZonesTyped, Executed, Spent
<1>4. /\ \A z \in ids : Rewritten(z, Want(before, z), Want(after, z))
      /\ \A z \in ZoneIds \ ids : Settled(z, failed, Want(before, z), Want(after, z))
      /\ failed => Spent
  BY DEF Rewriting
<1>5. y \in ids
  BY <1>1, <1>2, <1>4 DEF Settled
<1>6. Rewritten(y, Want(before, y), Want(after, y))'
  <2>1. Effect(call) = Want(after, y) /\ Open(y) = Want(before, y) /\ Replied(y, applied)'
    BY <1>2, <1>4, <1>5 DEF Rewritten
  <2>2. CASE applied = TRUE
    <3>1. Open(y)' = Want(after, y)
      BY <2>1, <2>2 DEF Executed
    <3> QED
      BY <2>1, <2>2, <3>1 DEF Rewritten, Want
  <2>3. CASE applied = FALSE
    <3>1. Open(y)' = Want(before, y)
      BY <2>1, <2>3 DEF Executed, Open
    <3> QED
      BY <1>3, <2>1, <2>3, <3>1 DEF Rewritten, Want
  <2> QED
    BY <2>2, <2>3
<1>7. ASSUME NEW z \in ids PROVE Rewritten(z, Want(before, z), Want(after, z))'
  <2>1. CASE z = y
    BY <1>6, <2>1
  <2>2. CASE z # y
    BY <1>2, <1>3, <1>4, <2>2, StillRewritten DEF Want
  <2> QED
    BY <2>1, <2>2
<1>8. ASSUME NEW z \in ZoneIds \ ids
      PROVE  Settled(z, failed, Want(before, z), Want(after, z))'
  BY <1>2, <1>3, <1>4, <1>5, StillRewritten DEF Want
<1> QED
  BY <1>3, <1>4, <1>7, <1>8 DEF Rewriting

(* Once all refusals are spent every command is applied, and answered so. *)
LEMMA SpentExecuted ==
  ASSUME Typed, ExecuteZone, Spent, AllApplied
  PROVE  /\ Spent' /\ AllApplied'
         /\ \A z \in ZoneIds : \A want : Becomes(z, want) => Becomes(z, want)'
<1> PICK call : call = Head(zone_calls)
  OBVIOUS
<1> PICK applied \in BOOLEAN : Executed(call, applied)
  BY ExecuteZoneIs
<1>1. zone_calls # <<>> /\ call \in ZoneCalls
  BY ExecuteZoneIs
<1>2. applied = TRUE /\ Spent'
  BY BoundsAssumption DEF Typed, ZonesTyped, Executed, Spent
<1>3. AllApplied'
  <2> PICK s, a, U : /\ s = zone_answers /\ a = Reply(call.zone, TRUE)
                     /\ U = [zone: ZoneIds, applied: BOOLEAN]
    OBVIOUS
  <2>1. s \in Seq(U) /\ zone_answers' = Append(s, a) /\ a.applied
    BY <1>2 DEF Typed, Executed, Reply
  <2>2. \A i \in DOMAIN Append(s, a) : Append(s, a)[i] = a \/ (i \in DOMAIN s /\ Append(s, a)[i] = s[i])
    BY <2>1, AppendIn
  <2>3. \A i \in DOMAIN s : s[i].applied
    BY DEF AllApplied
  <2>4. \A i \in DOMAIN Append(s, a) : Append(s, a)[i].applied
    BY <2>1, <2>2, <2>3, Zenon
  <2> QED
    BY <2>1, <2>4 DEF AllApplied
<1>4. /\ \A z : z # call.zone => Still(z)
      /\ \A want : Becomes(call.zone, want) => Becomes(call.zone, want)'
  BY <1>1, <1>2, ExecuteMoves
<1>5. ASSUME NEW z, NEW want, Becomes(z, want) PROVE Becomes(z, want)'
  BY <1>4, <1>5 DEF Still
<1> QED
  BY <1>2, <1>3, <1>5

LEMMA MatchedExecuted ==
  ASSUME Typed, ExecuteZone, NEW r, Matched(r)
  PROVE  Matched(r)'
<1>1. Spent /\ AllApplied
  BY ExecuteZoneIs, QuietIs DEF Matched
<1>2. /\ Spent' /\ AllApplied'
      /\ \A z \in ZoneIds : \A want : Becomes(z, want) => Becomes(z, want)'
  BY <1>1, SpentExecuted
<1>3. ASSUME NEW z \in ZoneIds PROVE Becomes(z, Want(r, z))'
  BY <1>2 DEF Matched, Want
<1> QED
  BY <1>2, <1>3 DEF Matched

LEMMA MatchedAnswered ==
  ASSUME Typed, NEW answer, Answered(answer), NEW r, Matched(r)
  PROVE  answer.applied = TRUE /\ Matched(r)' /\ Spent' /\ AllApplied'
<1>1. Spent /\ AllApplied
  BY QuietIs DEF Matched, Answered
<1>2. /\ answer.applied = TRUE /\ AllApplied'
      /\ \A z : \A want : Becomes(z, want) => Becomes(z, want)'
  BY <1>1, AnswerMoves
<1>3. Spent'
  BY <1>1 DEF Spent, Answered
<1>4. ASSUME NEW z \in ZoneIds PROVE Becomes(z, Want(r, z))'
  BY <1>2 DEF Matched, Want
<1> QED
  BY <1>2, <1>3, <1>4 DEF Matched

(* The commands of s bring the zones of ids, and no others, to the         *)
(* register.                                                               *)
Brings(s, ids, register) ==
  /\ s \in Seq(ZoneCalls)
  /\ \A z \in ids : \E c \in For(z) : Only(s, For(z), c) /\ Effect(c) = Want(register, z)
  /\ \A z \in ZoneIds \ ids : None(s, For(z))

LEMMA UpsertsBring ==
  ASSUME NEW r, Charter!IsRegister(r), NEW ids, ids \subseteq ClaimZones(r)
  PROVE  Brings(UpsertAll(r, ids), ids, r)
<1> PICK s : s = UpsertAll(r, ids)
  OBVIOUS
<1>1. ids \in SUBSET ZoneIds /\ \A zone \in ids : zone[1] \in DOMAIN r
  BY DEF ClaimZones
<1>2. /\ s \in Seq(ZoneCalls) /\ ToSet(s) = {UpsertClaim(r, zone) : zone \in ids}
      /\ \A i, j \in DOMAIN s : s[i].zone = s[j].zone => i = j
  BY <1>1, UpsertAllOf
<1>3. ASSUME NEW z \in ids
      PROVE  \E c \in For(z) : Only(s, For(z), c) /\ Effect(c) = Want(r, z)
  <2> PICK c : c = UpsertClaim(r, z)
    OBVIOUS
  <2>1. c \in ToSet(s) /\ c.zone = z /\ Effect(c) = Want(r, z)
    BY <1>2 DEF UpsertClaim, Effect, Want
  <2>2. c \in For(z)
    BY <1>2, <2>1 DEF For, ToSet
  <2> QED
    BY <1>2, <2>1, <2>2, ListHolds
<1>4. ASSUME NEW z \in ZoneIds \ ids PROVE None(s, For(z))
  <2>1. \A c \in ToSet(s) : c.zone # z
    BY <1>2 DEF UpsertClaim
  <2> QED
    BY <1>2, <2>1, ListHolds
<1> QED
  BY <1>2, <1>3, <1>4 DEF Brings

LEMMA RemovesBring ==
  ASSUME NEW r, NEW ids, ids \subseteq ZoneIds, ids \cap ClaimZones(r) = {},
         NEW s, s = SetToSeq({RemoveZone(zone) : zone \in ids})
  PROVE  Brings(s, ids, r)
<1>1. /\ s \in Seq(ZoneCalls) /\ ToSet(s) = {RemoveZone(zone) : zone \in ids}
      /\ \A i, j \in DOMAIN s : s[i].zone = s[j].zone => i = j
  BY RemoveAllOf
<1>2. ASSUME NEW z \in ids
      PROVE  \E c \in For(z) : Only(s, For(z), c) /\ Effect(c) = Want(r, z)
  <2> PICK c : c = RemoveZone(z)
    OBVIOUS
  <2>1. c \in ToSet(s) /\ c.zone = z /\ Effect(c) = Want(r, z)
    BY <1>1 DEF RemoveZone, Effect, Want
  <2>2. c \in For(z)
    BY <1>1, <2>1 DEF For, ToSet
  <2> QED
    BY <1>1, <2>1, <2>2, ListHolds
<1>3. ASSUME NEW z \in ZoneIds \ ids PROVE None(s, For(z))
  <2>1. \A c \in ToSet(s) : c.zone # z
    BY <1>1 DEF RemoveZone
  <2> QED
    BY <1>1, <2>1, ListHolds
<1> QED
  BY <1>1, <1>2, <1>3 DEF Brings

LEMMA BringsQueued ==
  ASSUME Typed, NEW s, NEW ids, NEW r, Brings(s, ids, r), outbox' = outbox \o s,
         UNCHANGED zoning
  PROVE  /\ \A z \in ids : \E c \in For(z) : /\ Ends(outbox', For(z), c)
                                             /\ Effect(c) = Want(r, z)
                                             /\ Quiet(z) => Sent(z, c)'
         /\ \A z \in ZoneIds \ ids : Still(z)
         /\ \A z : Open(z)' = Open(z)
<1> PICK o : o = outbox
  OBVIOUS
<1>1. /\ o \in Seq(ToSet(o)) /\ s \in Seq(ZoneCalls) /\ outbox' = o \o s
      /\ zone_calls' = zone_calls /\ zone_answers' = zone_answers
  BY DEF Typed, IsBatch, Brings, zoning
<1>2. \A z : Open(z)' = Open(z)
  BY DEF Open, zoning
<1>3. ASSUME NEW z \in ids
      PROVE  \E c \in For(z) : /\ Ends(outbox', For(z), c)
                               /\ Effect(c) = Want(r, z)
                               /\ Quiet(z) => Sent(z, c)'
  <2> PICK c \in For(z) : Only(s, For(z), c) /\ Effect(c) = Want(r, z)
    BY DEF Brings
  <2>1. Ends(s, For(z), c)
    BY <1>1, OnlyEnds
  <2>2. /\ Ends(outbox', For(z), c)
        /\ None(o, For(z)) => Only(outbox', For(z), c)
    BY <1>1, <2>1, ConcatHolds
  <2>3. Quiet(z) => Sent(z, c)'
    BY <1>1, <2>2 DEF Quiet, Sent
  <2> QED
    BY <2>2, <2>3
<1>4. ASSUME NEW z \in ZoneIds \ ids PROVE Still(z)
  <2>1. None(s, For(z))
    BY DEF Brings
  <2>2. Keeps(outbox, outbox', For(z))
    BY <1>1, <2>1, ConcatHolds
  <2> QED
    BY <1>1, <1>2, <2>2, KeepsItself, KeptStill
<1> QED
  BY <1>2, <1>3, <1>4

LEMMA RewritingStarts ==
  ASSUME Typed, NEW s, NEW ids, NEW before, NEW after, ids \subseteq ZoneIds,
         Brings(s, ids, after), outbox' = outbox \o s, UNCHANGED zoning,
         \A z \in ZoneIds : Quiet(z) /\ Open(z) = Want(before, z),
         \A z \in ZoneIds \ ids : Want(before, z) = Want(after, z)
  PROVE  Rewriting(ids, FALSE, before, after)'
<1>1. ASSUME NEW z \in ids PROVE Rewritten(z, Want(before, z), Want(after, z))'
  <2>1. Quiet(z) /\ Open(z)' = Want(before, z)
    BY BringsQueued
  <2>2. \E c \in For(z) : Effect(c) = Want(after, z) /\ Sent(z, c)'
    BY <2>1, BringsQueued
  <2> QED
    BY <2>1, <2>2 DEF Rewritten, Want, Effect
<1>2. ASSUME NEW z \in ZoneIds \ ids
      PROVE  Settled(z, FALSE, Want(before, z), Want(after, z))'
  <2>1. Quiet(z) /\ Still(z) /\ Open(z)' = Want(after, z)
    BY BringsQueued
  <2> QED
    BY <2>1 DEF Still, Settled, Want
<1> QED
  BY <1>1, <1>2 DEF Rewriting

(* The commands added to what is under way bring the zones to the register *)
(* if the others are on their way there.                                   *)
LEMMA MatchedStarts ==
  ASSUME Typed, NEW s, NEW ids, NEW r, ids \subseteq ZoneIds,
         Brings(s, ids, r), outbox' = outbox \o s, UNCHANGED zoning, Spent, AllApplied,
         \A z \in ZoneIds \ ids : Becomes(z, Want(r, z))
  PROVE  Matched(r)' /\ Spent' /\ AllApplied'
<1>1. Spent' /\ AllApplied'
  BY DEF zoning, Spent, AllApplied
<1>2. ASSUME NEW z \in ZoneIds PROVE Becomes(z, Want(r, z))'
  <2>1. CASE z \in ids
    <3>1. \E c \in For(z) : Ends(outbox', For(z), c) /\ Effect(c) = Want(r, z)
      BY <2>1, BringsQueued
    <3> QED
      BY <3>1 DEF Becomes, Want, Effect
  <2>2. CASE z \notin ids
    <3>1. Still(z)
      BY <2>2, BringsQueued
    <3> QED
      BY <2>2, <3>1 DEF Still, Want
  <2> QED
    BY <2>1, <2>2
<1> QED
  BY <1>1, <1>2 DEF Matched

(* When every zone is rewritten the zones are those of the register. *)
LEMMA RewritingEnds ==
  ASSUME NEW before, NEW after, Rewriting({}, FALSE, before, after)'
  PROVE  Matched(after)'
<1>1. \A z \in ZoneIds : Quiet(z)' /\ Open(z)' = Want(after, z)
  BY DEF Rewriting, Settled, Want
<1> QED
  BY <1>1 DEF Matched, Quiet, Becomes, Want

LEMMA QuietMatched ==
  ASSUME NEW r, Matched(r), NEW z \in ZoneIds,
         None(outbox, For(z)), None(zone_calls, For(z))
  PROVE  Open(z) = Want(r, z)
<1>1. Becomes(z, Want(r, z))
  BY DEF Matched
<1> QED
  BY <1>1 DEF Becomes, Ends, None

-----------------------------------------------------------------------------
(* What the plugin and its zones are about *)

AllQuiet == \A z \in ZoneIds : Quiet(z)

NoRead == \A c \in ToSet(outbox) \cup calls \cup answers : c.type # "get"

(* The towns are not read yet, or cannot be. *)
Reading ==
  /\ ~ loaded /\ startup_zones = {} /\ pending = {} /\ pending_queries = {}
  /\ AllQuiet /\ \A z \in ZoneIds : Open(z) = {}

(* The zones of the towns that were read are written. *)
Opening ==
  /\ ~ loaded /\ pending = {} /\ pending_queries = {}
  /\ \E ids, failed, none, read :
        /\ startup_zones = {[remaining |-> ids, failed |-> failed]}
        /\ none = NoTowns /\ read = towns
        /\ Rewriting(ids, failed, none, read)

(* A zone was refused at the start, or a town could not be written back:   *)
(* the plugin answers no more commands.                                    *)
Lost ==
  /\ ~ loaded /\ startup_zones = {} /\ NoRead /\ Spent /\ AllApplied
  /\ \A u \in pending : ~ u.failed /\ u.stage # "rollback"

(* No update rewrites zones that may still be refused. *)
Serving ==
  /\ loaded /\ startup_zones = {}
  /\ \E now : now = towns /\ Matched(now)
  /\ \A u \in pending : /\ Zonal(u.before, u.after, u.zone_action) /\ ~ u.failed
                        /\ u.stage = "save" \/ (u.stage = "zone" /\ Spent /\ AllApplied)

(* An update is stored and rewrites its zones. *)
Changing ==
  /\ loaded /\ startup_zones = {}
  /\ \E u : /\ pending = {u} /\ u.stage = "zone"
            /\ Zonal(u.before, u.after, u.zone_action)
            /\ Rewriting(u.awaiting, u.failed, u.before, u.after)
            /\ ZonesOf(Syncs(u.zone_action), u.before) = {} =>
                  ~ u.failed /\ u.awaiting = ZonesOf(u.zone_action, u.after)

(* A zone of it was refused: the towns before it are written back.  Its    *)
(* zones other than those are as they were.                                *)
Undoing ==
  /\ loaded /\ startup_zones = {} /\ Spent /\ AllQuiet
  /\ \E u : /\ pending = {u} /\ u.stage = "rollback"
            /\ Zonal(u.before, u.after, u.zone_action)
            /\ \A z \in ZoneIds \ ZonesOf(Syncs(u.zone_action), u.before) :
                  Open(z) = Want(u.before, z)

(* The inductive invariant of ZonesMatch, beside Charted. *)
Phase == Reading \/ Opening \/ Lost \/ Serving \/ Changing \/ Undoing

(* A step that changes no zone and no update. *)
Steady ==
  /\ \A z \in ZoneIds : Still(z)
  /\ UNCHANGED <<loaded, startup_zones, towns, pending, refusals, zone_answers>>
  /\ ~ loaded /\ pending_queries = {} => pending_queries' = {}
  /\ NoRead => NoRead'

LEMMA SteadyPhase ==
  ASSUME Typed, Phase, Steady
  PROVE  Phase'
<1>1. /\ UNCHANGED <<loaded, startup_zones, towns, pending, refusals, zone_answers>>
      /\ \A z \in ZoneIds : Still(z)
      /\ Spent => Spent'
      /\ AllApplied => AllApplied'
      /\ AllQuiet => AllQuiet'
  BY DEF Steady, Still, AllQuiet, Spent, AllApplied
<1>2. \A z \in ZoneIds : Open(z)' = Open(z)
  BY <1>1 DEF Still
<1>3. ASSUME NEW ids, NEW failed, NEW before, NEW after, ids \subseteq ZoneIds
      PROVE  /\ Rewriting(ids, failed, before, after) => Rewriting(ids, failed, before, after)'
             /\ Matched(after) => Matched(after)'
  BY <1>1, <1>3, StillRewriting
<1>4. CASE Reading
  <2>1. Reading'
    BY <1>1, <1>2, <1>4 DEF Reading, Steady
  <2> QED
    BY <2>1 DEF Phase
<1>5. CASE Opening
  <2> PICK ids, failed, none, read :
         /\ startup_zones = {[remaining |-> ids, failed |-> failed]}
         /\ none = NoTowns /\ read = towns
         /\ Rewriting(ids, failed, none, read)
    BY <1>5 DEF Opening
  <2>1. ids \subseteq ZoneIds
    BY DEF Typed, MemoryTyped
  <2>2. Rewriting(ids, failed, none, read)'
    BY <1>3, <2>1
  <2>3. Opening'
    BY <1>1, <1>5, <2>2 DEF Opening, Steady
  <2> QED
    BY <2>3 DEF Phase
<1>6. CASE Lost
  <2>1. Lost'
    BY <1>1, <1>6 DEF Lost, Steady
  <2> QED
    BY <2>1 DEF Phase
<1>7. CASE Serving
  <2> PICK now : now = towns /\ Matched(now)
    BY <1>7 DEF Serving
  <2>1. Matched(now)' /\ now = towns'
    BY <1>1, <1>3
  <2>2. Serving'
    BY <1>1, <1>7, <2>1 DEF Serving
  <2> QED
    BY <2>2 DEF Phase
<1>8. CASE Changing
  <2> PICK u : /\ pending = {u} /\ u.stage = "zone"
               /\ Zonal(u.before, u.after, u.zone_action)
               /\ Rewriting(u.awaiting, u.failed, u.before, u.after)
               /\ ZonesOf(Syncs(u.zone_action), u.before) = {} =>
                     ~ u.failed /\ u.awaiting = ZonesOf(u.zone_action, u.after)
    BY <1>8 DEF Changing
  <2>1. u.awaiting \subseteq ZoneIds
    BY UpdateOf DEF Typed
  <2>2. Rewriting(u.awaiting, u.failed, u.before, u.after)'
    BY <1>3, <2>1
  <2>3. Changing'
    BY <1>1, <1>8, <2>2 DEF Changing
  <2> QED
    BY <2>3 DEF Phase
<1>9. CASE Undoing
  <2>1. Undoing'
    BY <1>1, <1>2, <1>9, UpdateOf DEF Undoing, Typed
  <2> QED
    BY <2>1 DEF Phase
<1> QED
  BY <1>4, <1>5, <1>6, <1>7, <1>8, <1>9 DEF Phase

LEMMA NothingAppended ==
  ASSUME UNCHANGED <<zoning, outbox>>, NEW z
  PROVE  Still(z)
<1>1. /\ outbox' = outbox /\ zone_calls' = zone_calls /\ zone_answers' = zone_answers
      /\ Open(z)' = Open(z)
  BY DEF zoning, Open
<1> QED
  BY <1>1, KeepsItself, KeptStill

LEMMA OtherAppended ==
  ASSUME Typed, NEW c, c \notin ZoneCalls, outbox' = Append(outbox, c), NEW z
  PROVE  Keeps(outbox, outbox', For(z)) /\ (UNCHANGED zoning => Still(z))
<1>1. outbox \in Seq(ToSet(outbox)) /\ c \notin For(z)
  BY DEF Typed, IsBatch, For
<1>2. Keeps(outbox, outbox', For(z))
  BY <1>1, AppendHolds
<1>3. ASSUME UNCHANGED zoning PROVE Still(z)
  <2>1. zone_calls' = zone_calls /\ zone_answers' = zone_answers /\ Open(z)' = Open(z)
    BY <1>3 DEF zoning, Open
  <2> QED
    BY <1>2, <2>1, KeepsItself, KeptStill
<1> QED
  BY <1>2, <1>3

LEMMA DecidedPhase ==
  ASSUME Typed, Phase, Decided, UNCHANGED zoning, calls' = calls, answers' \subseteq answers,
         ~ loaded /\ pending_queries = {} =>
            UNCHANGED <<pending, outbox>> /\ pending_queries' = {}
  PROVE  Phase'
<1>1. UNCHANGED <<towns, storage_version, loaded, startup_zones, zones, zone_calls,
                  zone_answers, refusals>>
  BY DEF Decided, memory, zoning
<1>2. CASE UNCHANGED <<pending, outbox>>
  <2>1. \A z \in ZoneIds : Still(z)
    BY <1>2, NothingAppended
  <2>2. Steady
    BY <1>1, <1>2, <2>1 DEF Steady, NoRead
  <2> QED
    BY <2>2, SteadyPhase
<1>3. ASSUME NEW c \in Chatter, pending' = pending, outbox' = Append(outbox, c)
      PROVE  Phase'
  <2>1. IsCommand(c) /\ c.type \in {"query", "timer"}
    BY ChatterIs
  <2>2. ToSet(outbox') = ToSet(outbox) \cup {c}
    <3>1. ToSet(Append(outbox, c)) = ToSet(outbox) \cup {c}
      BY <2>1, AppendBatch DEF Typed
    <3> QED
      BY <1>3, <3>1
  <2>3. c \notin ZoneCalls
    BY <2>1 DEF ZoneCalls
  <2>4. \A z \in ZoneIds : Still(z)
    BY <1>3, <2>3, OtherAppended
  <2>5. Steady
    BY <1>1, <1>3, <2>1, <2>2, <2>4 DEF Steady, NoRead
  <2> QED
    BY <2>5, SteadyPhase
<1>4. ASSUME NEW after, NEW za, Proposal(after, za), Save(after, za), pending = {}
      PROVE  Phase'
  <2> PICK u, c : u = Saving(after, za) /\ c = Cas("save", storage_version, after)
    OBVIOUS
  <2>1. pending' = {u} /\ outbox' = Append(outbox, c)
    BY <1>4 DEF Save, Saving
  <2>2. /\ u.stage = "save" /\ u.failed = FALSE /\ u.before = towns /\ u.after = after
        /\ u.zone_action = za
    BY DEF Saving
  <2>3. Zonal(u.before, u.after, u.zone_action)
    BY <1>4, <2>2 DEF Proposal
  <2>4. IsCommand(c) /\ c.type = "cas"
    <3>1. IsCommand(Cas("save", storage_version, after))
      BY <1>4, CasIs DEF Typed, MemoryTyped, Proposal
    <3>2. c.type = "cas"
      BY DEF Cas
    <3> QED
      BY <3>1, <3>2, Zenon
  <2>5. ToSet(outbox') = ToSet(outbox) \cup {c}
    <3>1. ToSet(Append(outbox, c)) = ToSet(outbox) \cup {c}
      BY <2>4, AppendBatch DEF Typed
    <3> QED
      BY <2>1, <3>1
  <2>6. \A z \in ZoneIds : Still(z)
    <3>1. c \notin ZoneCalls
      BY <2>4 DEF ZoneCalls
    <3> QED
      BY <2>1, <3>1, OtherAppended
  <2>7. loaded \/ pending_queries # {}
    <3>1. ASSUME pending' = pending PROVE FALSE
      BY <1>4, <2>1, <3>1
    <3> QED
      BY <3>1
  <2>8. CASE Serving
    <3> PICK now : now = towns /\ Matched(now)
      BY <2>8 DEF Serving
    <3>1. Matched(now)' /\ now = towns'
      <4>1. (Spent => Spent') /\ (AllApplied => AllApplied')
        BY <1>1 DEF Spent, AllApplied
      <4>2. {} \subseteq ZoneIds
        OBVIOUS
      <4> QED
        BY <1>1, <2>6, <4>1, <4>2, StillRewriting
    <3>2. Serving'
      BY <1>1, <2>1, <2>2, <2>3, <2>8, <3>1 DEF Serving
    <3> QED
      BY <3>2 DEF Phase
  <2>9. CASE Lost
    <3>1. NoRead'
      BY <1>1, <2>4, <2>5, <2>9 DEF Lost, NoRead
    <3>2. Lost'
      BY <1>1, <2>1, <2>2, <2>9, <3>1 DEF Lost, Spent, AllApplied
    <3> QED
      BY <3>2 DEF Phase
  <2>10. ~ Reading /\ ~ Opening /\ ~ Changing /\ ~ Undoing
    BY <1>4, <2>7 DEF Reading, Opening, Changing, Undoing
  <2> QED
    BY <2>8, <2>9, <2>10 DEF Phase
<1>5. ASSUME NEW after, NEW za, Save(after, za), pending # {}
      PROVE  UNCHANGED <<pending, outbox>>
  BY <1>5 DEF Save
<1> QED
  BY <1>2, <1>3, <1>4, <1>5 DEF Decided

LEMMA CommandPhase ==
  ASSUME Typed, Phase, Command
  PROVE  Phase'
<1>1. Decided /\ UNCHANGED host /\ loaded
  BY CommandDecides DEF Typed
<1>2. UNCHANGED <<zoning, calls, answers>>
  BY <1>1 DEF host, requesting
<1> QED
  BY <1>1, <1>2, DecidedPhase

LEMMA PlayersPhase ==
  ASSUME Typed, Phase, NEW answer, IsAnswer(answer), PlayersAnswered(answer),
         UNCHANGED zoning, calls' = calls, answers' \subseteq answers
  PROVE  Phase'
<1>1. Decided
  BY PlayersAnsweredDecides DEF Typed
<1>2. pending_queries = {} => UNCHANGED <<pending, outbox>> /\ pending_queries' = {}
  BY DEF PlayersAnswered
<1> QED
  BY <1>1, <1>2, DecidedPhase

LEMMA ReadPhase ==
  ASSUME Typed, Phase, Loading, NEW answer \in answers, TownsRead(answer),
         UNCHANGED <<zoning, inviting>>
  PROVE  Phase'
<1> PICK r, ids, none, s : /\ r = answer.value /\ ids = ClaimZones(r) /\ none = NoTowns
                           /\ s = UpsertAll(r, ids)
  OBVIOUS
<1>1. answer.type = "get" /\ pending = {} /\ pending_queries = {} /\ loaded = FALSE /\ startup_zones = {}
  BY DEF Loading
<1>2. Reading
  BY <1>1 DEF Phase, Opening, Lost, NoRead, Serving, Changing, Undoing
<1>3. Charter!IsRegister(r) /\ ids \subseteq ZoneIds
  BY TownsReadTyped DEF Typed, ClaimZones
<1>4. /\ towns' = r /\ loaded' = (ids = {}) /\ outbox' = outbox \o s /\ UNCHANGED pending
      /\ startup_zones' = IF ids = {} THEN {} ELSE {[remaining |-> ids, failed |-> FALSE]}
  BY DEF TownsRead
<1>5. Brings(s, ids, r)
  BY <1>3, UpsertsBring
<1>6. \A z \in ZoneIds : Want(none, z) = {}
  BY EmptyRegister DEF Want, ClaimZones
<1>7. \A z \in ZoneIds : Quiet(z) /\ Open(z) = Want(none, z)
  BY <1>2, <1>6 DEF Reading, AllQuiet
<1>8. \A z \in ZoneIds \ ids : Want(none, z) = Want(r, z)
  BY <1>6 DEF Want
<1>9. Rewriting(ids, FALSE, none, r)'
  BY <1>3, <1>4, <1>5, <1>7, <1>8, RewritingStarts
<1>10. CASE ids = {}
  <2>1. Rewriting({}, FALSE, none, r)'
    BY <1>9, <1>10
  <2>2. Matched(r)' /\ r = towns'
    BY <1>4, <2>1, RewritingEnds
  <2>3. Serving'
    BY <1>1, <1>4, <1>10, <2>2 DEF Serving
  <2> QED
    BY <2>3 DEF Phase
<1>11. CASE ids # {}
  <2> PICK failed : failed = FALSE
    OBVIOUS
  <2>1. Rewriting(ids, failed, none, r)' /\ r = towns' /\ none = NoTowns
    BY <1>4, <1>9
  <2>2. startup_zones' = {[remaining |-> ids, failed |-> failed]}
    BY <1>4, <1>11
  <2>3. Opening'
    BY <1>1, <1>4, <1>11, <2>1, <2>2 DEF Opening, inviting
  <2> QED
    BY <2>3 DEF Phase
<1> QED
  BY <1>10, <1>11

(* The update whose write is answered. *)
LEMMA WrittenIs ==
  ASSUME ProtocolKept, NEW answer \in answers, NEW u \in pending, Awaited(answer, u)
  PROVE  /\ pending = {u} /\ u.stage \in {"save", "rollback"}
         /\ u.stage = "save" => u.before = towns
<1>1. answer \in CasAnswers
  BY DEF CasAnswers, Awaited
<1> QED
  BY <1>1, ProtocolAnswer DEF ProtocolKept, Fits

(* Until it is confirmed a save leaves the zones alone. *)
LEMMA SavingPhase ==
  ASSUME Phase, NEW u, pending = {u}, u.stage = "save"
  PROVE  Lost \/ Serving
BY DEF Phase, Reading, Opening, Changing, Undoing

LEMMA UndoingPhase ==
  ASSUME Phase, NEW u, pending = {u}, u.stage = "rollback"
  PROVE  Undoing
BY DEF Phase, Reading, Opening, Changing, Lost, Serving

(* What follows a confirmed update brings the zones to the towns after it. *)
LEMMA FollowBrings ==
  ASSUME NEW u, UpdateTyped(u), Zonal(u.before, u.after, u.zone_action),
         NEW ids, ids = ZonesOf(u.zone_action, u.after)
  PROVE  /\ ids \subseteq ZoneIds /\ Brings(Follow(u, ids), ids, u.after)
         /\ \A z \in ZoneIds \ ids : Want(u.before, z) = Want(u.after, z)
<1>1. ids \subseteq ZoneIds /\ Charter!IsRegister(u.after)
  BY UpdateOf DEF Zonal
<1>2. \A z \in ZoneIds \ ids : Want(u.before, z) = Want(u.after, z)
  BY DEF Zonal
<1>3. CASE Removes(u.zone_action)
  <2>1. ids \cap ClaimZones(u.after) = {}
    BY <1>3 DEF Zonal
  <2>2. Follow(u, ids) = SetToSeq({RemoveZone(zone) : zone \in ids})
    BY <1>3 DEF Follow, Removes
  <2>3. Brings(Follow(u, ids), ids, u.after)
    BY <1>1, <2>1, <2>2, RemovesBring
  <2> QED
    BY <1>1, <1>2, <2>3
<1>4. CASE ~ Removes(u.zone_action)
  <2>1. ids \subseteq ClaimZones(u.after)
    BY <1>4 DEF Zonal
  <2>2. Follow(u, ids) = UpsertAll(u.after, ids)
    BY <1>4 DEF Follow, Removes
  <2>3. Brings(Follow(u, ids), ids, u.after)
    BY <1>1, <2>1, <2>2, UpsertsBring
  <2> QED
    BY <1>1, <1>2, <2>3
<1> QED
  BY <1>3, <1>4

LEMMA CommittedPhase ==
  ASSUME Typed, Phase, Working, ProtocolKept, NEW answer \in answers,
         answers' = answers \ {answer}, UNCHANGED <<store, calls, zoning, inviting>>,
         NEW u \in pending, Committed(answer, u)
  PROVE  Phase'
<1> PICK ids, s : ids = ZonesOf(u.zone_action, u.after) /\ s = Follow(u, ids)
  OBVIOUS
<1> PICK v : v = Zoning(u, ids)
  OBVIOUS
<1>1. /\ Awaited(answer, u) /\ u.stage # "rollback" /\ towns' = u.after
      /\ pending' = IF ids = {} THEN {} ELSE {v}
      /\ outbox' = outbox \o s /\ UNCHANGED <<loaded, startup_zones>>
  BY DEF Committed, ZonesOf, Zoning
<1>2. pending = {u} /\ u.stage = "save" /\ u.before = towns /\ UpdateTyped(u)
  BY <1>1, WrittenIs DEF Typed
<1>3. NoRead'
  <2>1. Working'
    BY CommittedKeeps
  <2> QED
    BY <2>1 DEF Working, NoRead
<1>4. (Spent => Spent') /\ (AllApplied => AllApplied')
  BY DEF zoning, Spent, AllApplied
<1>5. ASSUME ids # {}, ids \subseteq ZoneIds
      PROVE  /\ v.stage = "zone" /\ v.before = u.before /\ v.after = u.after
             /\ v.zone_action = u.zone_action /\ v.awaiting = ids /\ v.failed = u.failed
  BY <1>2, <1>5, ZoningOf
<1>6. CASE Lost
  <2>1. ids \subseteq ZoneIds
    BY <1>2, UpdateOf, ZonesOfRegister
  <2>2. \A w \in pending' : ~ w.failed /\ w.stage # "rollback"
    BY <1>1, <1>2, <1>5, <1>6, <2>1 DEF Lost
  <2>3. Lost'
    BY <1>1, <1>3, <1>4, <1>6, <2>2 DEF Lost
  <2> QED
    BY <2>3 DEF Phase
<1>7. CASE Serving
  <2> PICK before, after, now : before = u.before /\ after = u.after /\ now = towns /\ Matched(now)
    BY <1>7 DEF Serving
  <2>1. Zonal(before, after, u.zone_action) /\ ~ u.failed
    BY <1>2, <1>7 DEF Serving
  <2>2. /\ ids \subseteq ZoneIds /\ Brings(s, ids, after)
        /\ \A z \in ZoneIds \ ids : Want(before, z) = Want(after, z)
    BY <1>2, <2>1, FollowBrings
  <2>3. before = now /\ after = towns'
    BY <1>1, <1>2
  <2>4. CASE AllQuiet
    <3>1. \A z \in ZoneIds : Quiet(z) /\ Open(z) = Want(before, z)
      BY <2>3, <2>4, QuietMatched DEF AllQuiet, Quiet
    <3>2. Rewriting(ids, FALSE, before, after)'
      BY <1>1, <2>2, <3>1, RewritingStarts
    <3>3. CASE ids = {}
      <4>1. Rewriting({}, FALSE, before, after)'
        BY <3>2, <3>3
      <4>2. Matched(after)'
        BY <4>1, RewritingEnds
      <4>3. Serving'
        BY <1>1, <1>7, <2>3, <3>3, <4>2 DEF Serving
      <4> QED
        BY <4>3 DEF Phase
    <3>4. CASE ids # {}
      <4>1. /\ v.stage = "zone" /\ v.before = before /\ v.after = after
            /\ v.zone_action = u.zone_action /\ v.awaiting = ids /\ v.failed = u.failed
        BY <1>5, <2>2, <3>4
      <4>2. u.failed = FALSE
        BY <1>2, <2>1, UpdateOf
      <4>3. Rewriting(v.awaiting, v.failed, v.before, v.after)'
        BY <3>2, <4>1, <4>2
      <4>4. /\ pending' = {v} /\ Zonal(v.before, v.after, v.zone_action)
            /\ v.awaiting = ZonesOf(v.zone_action, v.after)
        BY <1>1, <2>1, <3>4, <4>1
      <4>5. Changing'
        BY <1>1, <1>7, <4>1, <4>2, <4>3, <4>4 DEF Changing, Serving
      <4> QED
        BY <4>5 DEF Phase
    <3> QED
      BY <3>3, <3>4
  <2>5. CASE Spent /\ AllApplied
    <3>1. \A z \in ZoneIds \ ids : Becomes(z, Want(after, z))
      BY <2>2, <2>3 DEF Matched
    <3>2. Matched(after)' /\ Spent' /\ AllApplied'
      BY <1>1, <2>2, <2>5, <3>1, MatchedStarts
    <3>3. \A w \in pending' : /\ Zonal(w.before, w.after, w.zone_action) /\ ~ w.failed
                              /\ w.stage = "zone"
      BY <1>1, <1>5, <2>1, <2>2
    <3>4. Serving'
      BY <1>1, <1>7, <2>3, <3>2, <3>3 DEF Serving
    <3> QED
      BY <3>4 DEF Phase
  <2> QED
    BY <2>4, <2>5 DEF Matched, AllQuiet
<1> QED
  BY <1>2, <1>6, <1>7, SavingPhase

LEMMA RolledBackPhase ==
  ASSUME Typed, Phase, ProtocolKept, NEW answer \in answers,
         UNCHANGED zoning, NEW u \in pending, RolledBack(answer, u)
  PROVE  Phase'
<1> PICK before, ids, s : /\ before = u.before /\ ids = ZonesOf(Syncs(u.zone_action), before)
                          /\ s = UpsertAll(before, ids)
  OBVIOUS
<1>1. /\ Awaited(answer, u) /\ u.stage = "rollback" /\ towns' = before /\ pending' = {}
      /\ loaded' = TRUE /\ outbox' = outbox \o s /\ UNCHANGED startup_zones
  BY DEF RolledBack, ZonesOf, Syncs
<1>2. pending = {u} /\ Charter!IsRegister(before)
  BY <1>1, WrittenIs, UpdateOf DEF Typed
<1>3. Undoing
  BY <1>1, <1>2, UndoingPhase
<1>4. /\ Spent /\ AllQuiet /\ startup_zones = {} /\ ids \subseteq ClaimZones(before)
      /\ \A z \in ZoneIds \ ids : Open(z) = Want(before, z)
  BY <1>2, <1>3 DEF Undoing, Zonal
<1>5. ids \subseteq ZoneIds /\ Brings(s, ids, before)
  BY <1>2, <1>4, UpsertsBring DEF ClaimZones
<1>6. AllApplied
  BY <1>4, QuietIs DEF AllQuiet, AllApplied
<1>7. \A z \in ZoneIds \ ids : Becomes(z, Want(before, z))
  BY <1>4 DEF AllQuiet, Quiet, Becomes
<1>8. Matched(before)' /\ before = towns'
  BY <1>1, <1>4, <1>5, <1>6, <1>7, MatchedStarts
<1>9. Serving'
  BY <1>1, <1>4, <1>8 DEF Serving
<1> QED
  BY <1>9 DEF Phase

LEMMA GivenUpPhase ==
  ASSUME Typed, Phase, Working, ProtocolKept, NEW answer \in answers,
         answers' \subseteq answers, UNCHANGED <<calls, zoning>>,
         NEW u \in pending, NotCommitted(answer, u) \/ NotRolledBack(answer, u)
  PROVE  Phase'
<1>1. Awaited(answer, u) /\ pending' = {} /\ UNCHANGED <<towns, startup_zones, outbox>>
  BY DEF NotCommitted, NotRolledBack, memory
<1>2. pending = {u} /\ u.stage \in {"save", "rollback"}
  BY <1>1, WrittenIs
<1>3. NoRead'
  BY <1>1 DEF Working, NoRead
<1>4. (Spent => Spent') /\ (AllApplied => AllApplied')
  BY DEF zoning, Spent, AllApplied
<1>5. CASE Lost /\ u.stage = "save"
  <2>1. Lost'
    BY <1>1, <1>3, <1>4, <1>5 DEF Lost, NotCommitted, NotRolledBack, memory
  <2> QED
    BY <2>1 DEF Phase
<1>6. CASE Serving /\ u.stage = "save"
  <2> PICK now : now = towns /\ Matched(now)
    BY <1>6 DEF Serving
  <2>1. \A z \in ZoneIds : Still(z)
    BY <1>1, NothingAppended
  <2>2. Matched(now)' /\ now = towns'
    BY <1>1, <1>4, <2>1, StillRewriting
  <2>3. Serving'
    BY <1>1, <1>6, <2>2 DEF Serving, NotCommitted, NotRolledBack, memory
  <2> QED
    BY <2>3 DEF Phase
<1>7. CASE u.stage = "rollback"
  <2>1. Undoing
    BY <1>2, <1>7, UndoingPhase
  <2>2. AllApplied
    BY <2>1, QuietIs DEF Undoing, AllQuiet, AllApplied
  <2>3. Lost'
    BY <1>1, <1>3, <1>4, <1>7, <2>1, <2>2 DEF Lost, Undoing, NotCommitted, NotRolledBack
  <2> QED
    BY <2>3 DEF Phase
<1> QED
  BY <1>2, <1>5, <1>6, <1>7, SavingPhase

LEMMA DeliverPhase ==
  ASSUME Charted, Phase, NEW type, Deliver(type)
  PROVE  Phase'
<1> PICK answer \in answers :
       /\ answers' = answers \ {answer}
       /\ StorageAnswered(answer) \/ PlayersAnswered(answer)
       /\ UNCHANGED <<store, timers, calls, zoning>>
  BY DEF Deliver
<1>1. Typed /\ ProtocolKept /\ IsAnswer(answer) /\ (Loading \/ Working)
  BY DEF Charted, Typed
<1>2. CASE PlayersAnswered(answer)
  BY <1>1, <1>2, PlayersPhase
<1>3. CASE StorageAnswered(answer) /\ answer.type = "get"
  <2>1. Loading
    BY <1>1, <1>3 DEF Working
  <2>2. CASE TownsRead(answer)
    BY <1>1, <1>3, <2>1, <2>2, ReadPhase DEF StorageAnswered
  <2>3. CASE Unreadable(answer)
    <3>1. \A z \in ZoneIds : Still(z)
      BY <2>3, NothingAppended DEF Unreadable
    <3>2. Steady
      BY <1>3, <2>1, <2>3, <3>1 DEF Steady, Unreadable, Loading, zoning, inviting, NoRead, StorageAnswered
    <3> QED
      BY <1>1, <3>2, SteadyPhase
  <2> QED
    BY <1>3, <2>2, <2>3 DEF StorageAnswered, Committed, NotCommitted, RolledBack, NotRolledBack,
                           Awaited, Ignored
<1>4. CASE StorageAnswered(answer) /\ answer.type # "get"
  <2>1. \/ \E u \in pending : \/ Committed(answer, u) \/ NotCommitted(answer, u)
                              \/ RolledBack(answer, u) \/ NotRolledBack(answer, u)
        \/ Ignored(answer)
    BY <1>4 DEF StorageAnswered, TownsRead, Unreadable
  <2>2. ~ Ignored(answer)
    BY <1>1, AnswerAwaited DEF Ignored
  <2>3. Working
    BY <1>1, <1>4 DEF Loading
  <2> QED
    BY <1>1, <1>4, <2>1, <2>2, <2>3, CommittedPhase, RolledBackPhase, GivenUpPhase
       DEF StorageAnswered
<1> QED
  BY <1>2, <1>3, <1>4

(* The zones' answers *)

LEMMA StartupPhase ==
  ASSUME Charted, Typed', Phase, NEW answer, Answered(answer), StartupAnswered(answer)
  PROVE  Phase'
<1>1. startup_zones # {} /\ Typed
  BY DEF StartupAnswered, Charted
<1>2. Opening
  BY <1>1 DEF Phase, Reading, Lost, Serving, Changing, Undoing
<1>p. PICK ids, failed, none, read :
         /\ startup_zones = {[remaining |-> ids, failed |-> failed]}
         /\ none = NoTowns /\ read = towns
         /\ Rewriting(ids, failed, none, read)
  BY <1>2 DEF Opening
<1>q. PICK left : left = ids \ {answer.zone}
  OBVIOUS
<1>r. PICK now \in BOOLEAN : now <=> failed \/ ~ answer.applied
  <2>1. (failed \/ ~ answer.applied) \in BOOLEAN
    OBVIOUS
  <2> QED
    BY <2>1
<1>3. /\ UNCHANGED <<towns, storage_version, pending, outbox>>
      /\ IF left = {} THEN loaded' = ~ now /\ startup_zones' = {}
         ELSE /\ startup_zones' = {[remaining |-> left, failed |-> now]}
              /\ UNCHANGED loaded
  <2> PICK startup \in startup_zones :
         LET remaining == startup.remaining \ {answer.zone}
             refused == startup.failed \/ ~ answer.applied
         IN  IF remaining = {}
             THEN loaded' = ~ refused /\ startup_zones' = {}
             ELSE /\ startup_zones' = {[remaining |-> remaining, failed |-> refused]}
                  /\ UNCHANGED loaded
    BY DEF StartupAnswered
  <2>1. startup.remaining = ids /\ startup.failed = failed
    BY <1>p
  <2>2. UNCHANGED <<towns, storage_version, pending, outbox>>
    BY DEF StartupAnswered
  <2> QED
    BY <1>q, <1>r, <2>1, <2>2
<1>4. ids \subseteq ZoneIds
  BY <1>1, <1>p DEF Typed, MemoryTyped
<1>5. Rewriting(left, now, none, read)' /\ read = towns'
  <2>1. Rewriting(ids, failed, none, read)
    BY <1>p
  <2>2. Rewriting(left, now, none, read)'
    BY <1>1, <1>4, <1>q, <1>r, <2>1, RewritingAnswered
  <2> QED
    BY <1>3, <1>p, <2>2
<1>6. pending' = {} /\ pending_queries' = {} /\ loaded = FALSE
  BY <1>2, <1>3 DEF Opening, Answered, Charted, Typed, MemoryTyped
<1>7. CASE left # {}
  <2>1. Opening'
    BY <1>3, <1>5, <1>6, <1>7, <1>p DEF Opening
  <2> QED
    BY <2>1 DEF Phase
<1>8. CASE left = {} /\ ~ now
  <2>1. now = FALSE
    BY <1>8
  <2>2. Rewriting({}, FALSE, none, read)'
    BY <1>5, <1>8, <2>1
  <2>3. Matched(read)'
    BY <2>2, RewritingEnds
  <2>4. Serving'
    BY <1>3, <1>5, <1>6, <1>8, <2>3 DEF Serving
  <2> QED
    BY <2>4 DEF Phase
<1>9. CASE left = {} /\ now
  <2>1. Spent' /\ \A z \in ZoneIds : Quiet(z)'
    BY <1>5, <1>9 DEF Rewriting, Settled
  <2>2. AllApplied'
    <3>1. zone_answers' \in Seq([zone: ZoneIds, applied: BOOLEAN])
      BY DEF Typed
    <3>2. zone_answers' = <<>>
      BY <2>1, <3>1, NoAnswers DEF Quiet
    <3> QED
      BY <3>2 DEF AllApplied
  <2>3. NoRead'
    BY <1>1, <1>3 DEF Charted, Loading, Working, NoRead, Answered
  <2>4. Lost'
    BY <1>3, <1>6, <1>9, <2>1, <2>2, <2>3 DEF Lost
  <2> QED
    BY <2>4 DEF Phase
<1> QED
  BY <1>7, <1>8, <1>9

(* The last answer leaves every zone of the town there was before as it    *)
(* was, but for those that are written again.                              *)
LEMMA UndoneZones ==
  ASSUME NEW before, NEW after, NEW acts, Zonal(before, after, acts),
         NEW ids, NEW y \in ids, ids \ {y} = {}, NEW failed, NEW now,
         Rewriting({}, now, before, after)',
         ~ failed => Open(y)' = Want(before, y),
         ZonesOf(Syncs(acts), before) = {} => ~ failed /\ ids = ZonesOf(acts, after)
  PROVE  \A z \in ZoneIds \ ZonesOf(Syncs(acts), before) : Open(z)' = Want(before, z)
<1> TAKE z \in ZoneIds \ ZonesOf(Syncs(acts), before)
<1>1. Open(z)' = Want(after, z) \/ Open(z)' = Want(before, z)
  BY DEF Rewriting, Settled, Want
<1>2. CASE ZonesOf(acts, after) = ZonesOf(Syncs(acts), before)
  BY <1>1, <1>2 DEF Zonal
<1>3. CASE /\ ZonesOf(Syncs(acts), before) = {}
           /\ \A w, x \in ZonesOf(acts, after) : w = x
  <2>1. CASE z = y
    BY <1>3, <2>1
  <2>2. CASE z # y
    <3>1. z \notin ZonesOf(acts, after)
      BY <1>3, <2>2
    <3> QED
      BY <1>1, <3>1 DEF Zonal
  <2> QED
    BY <2>1, <2>2
<1> QED
  BY <1>2, <1>3 DEF Zonal

(* What an answer makes of the update that waits for it: it waits for the  *)
(* zones left, is done, or is undone if one was refused.                   *)
Advances(u, left, now) ==
  \/ /\ left # {} /\ UNCHANGED outbox
     /\ \E w : /\ pending' = {w} /\ w.stage = "zone" /\ w.before = u.before
               /\ w.after = u.after /\ w.zone_action = u.zone_action
               /\ w.awaiting = left /\ w.failed = now
  \/ left = {} /\ now = FALSE /\ pending' = {} /\ UNCHANGED outbox
  \/ /\ left = {} /\ now = TRUE
     /\ \E c : c \notin ZoneCalls /\ outbox' = Append(outbox, c)
     /\ \E w : /\ pending' = {w} /\ w.stage = "rollback" /\ w.before = u.before
               /\ w.after = u.after /\ w.zone_action = u.zone_action

LEMMA UpdateAdvances ==
  ASSUME Typed, NEW answer, NEW u \in pending, UpdateAnswered(answer, u),
         NEW now \in BOOLEAN, now <=> u.failed \/ ~ answer.applied,
         NEW left, left = u.awaiting \ {answer.zone}
  PROVE  /\ u.stage = "zone" /\ answer.zone \in u.awaiting /\ u.awaiting \subseteq ZoneIds
         /\ UNCHANGED memory /\ Advances(u, left, now)
<1>1. UpdateTyped(u) /\ MemoryTyped
  BY DEF Typed
<1>2. /\ UpdateAnsweredDoes(answer, u)
      /\ u.stage = "zone" /\ answer.zone \in u.awaiting /\ UNCHANGED memory
  BY UpdateAnsweredIs
<1>3. u.awaiting \subseteq ZoneIds
  BY <1>1, UpdateOf
<1> PICK zone : zone = answer.zone
  OBVIOUS
<1> PICK failed \in BOOLEAN :
       /\ failed = (u.failed \/ ~ answer.applied)
       /\ \/ /\ u.awaiting \ {answer.zone} # {}
             /\ pending' = {Waiting(u, answer.zone, failed)} /\ UNCHANGED outbox
          \/ /\ u.awaiting \ {answer.zone} = {} /\ failed = FALSE
             /\ pending' = {} /\ UNCHANGED outbox
          \/ /\ u.awaiting \ {answer.zone} = {} /\ failed = TRUE
             /\ pending' = {RollingBack(u, answer.zone, failed)}
             /\ outbox' = Append(outbox, Cas("rollback", storage_version, u.before))
  BY <1>2 DEF UpdateAnsweredDoes
<1>4. failed = now
  OBVIOUS
<1>5. ASSUME NEW w, w = Waiting(u, zone, failed)
      PROVE  /\ w.stage = u.stage /\ w.before = u.before /\ w.after = u.after
             /\ w.zone_action = u.zone_action /\ w.awaiting = u.awaiting \ {zone}
             /\ w.failed = failed
  <2>1. w = [stage |-> u.stage, request |-> u.request, before |-> u.before,
             after |-> u.after, zone_action |-> u.zone_action,
             awaiting |-> u.awaiting \ {zone}, failed |-> failed]
    BY <1>1, <1>5, WaitingOf, Zenon
  <2> QED
    BY <2>1
<1>6. ASSUME NEW w, w = RollingBack(u, zone, failed), u.awaiting \ {zone} = {}
      PROVE  /\ w.stage = "rollback" /\ w.before = u.before /\ w.after = u.after
             /\ w.zone_action = u.zone_action
  <2>1. w = [stage |-> "rollback", request |-> <<"rollback", storage_version>>,
             before |-> u.before, after |-> u.after, zone_action |-> u.zone_action,
             awaiting |-> {}, failed |-> failed]
    BY <1>1, <1>6, RollingBackOf, Zenon
  <2> QED
    BY <2>1
<1>7. Cas("rollback", storage_version, u.before) \notin ZoneCalls
  BY DEF Cas, ZoneCalls
<1> QED
  BY <1>2, <1>3, <1>4, <1>5, <1>6, <1>7 DEF Advances

LEMMA UpdatePhase ==
  ASSUME Charted, Typed', Phase, NEW answer, Answered(answer),
         NEW u \in pending, UpdateAnswered(answer, u)
  PROVE  Phase'
<1>0. Typed /\ ProtocolKept /\ UpdateTyped(u)
  BY DEF Charted, Typed
<1>r. PICK now \in BOOLEAN : now <=> u.failed \/ ~ answer.applied
  <2>1. (u.failed \/ ~ answer.applied) \in BOOLEAN
    OBVIOUS
  <2> QED
    BY <2>1
<1>q. PICK left, before, after, acts :
         /\ left = u.awaiting \ {answer.zone}
         /\ before = u.before /\ after = u.after /\ acts = u.zone_action
  OBVIOUS
<1>1. /\ u.stage = "zone" /\ answer.zone \in u.awaiting /\ u.awaiting \subseteq ZoneIds
      /\ UNCHANGED memory
      /\ \/ /\ left # {} /\ UNCHANGED outbox
            /\ \E w : /\ pending' = {w} /\ w.stage = "zone" /\ w.before = before
                      /\ w.after = after /\ w.zone_action = acts
                      /\ w.awaiting = left /\ w.failed = now
         \/ left = {} /\ now = FALSE /\ pending' = {} /\ UNCHANGED outbox
         \/ /\ left = {} /\ now = TRUE
            /\ \E w : /\ pending' = {w} /\ w.stage = "rollback" /\ w.before = before
                      /\ w.after = after /\ w.zone_action = acts
  <2>1. left = u.awaiting \ {answer.zone}
    BY <1>q
  <2>2. /\ u.stage = "zone" /\ answer.zone \in u.awaiting /\ u.awaiting \subseteq ZoneIds
        /\ UNCHANGED memory /\ Advances(u, left, now)
    BY <1>0, <1>r, <2>1, UpdateAdvances
  <2> QED
    BY <1>q, <2>2 DEF Advances
<1>2. UNCHANGED <<loaded, startup_zones, towns>>
  BY <1>1 DEF memory
<1>3. pending = {u} /\ after = towns
  BY <1>0, <1>1, <1>q DEF ProtocolKept, Protocol, Fits
<1>4. CASE Changing
  <2>1. /\ loaded /\ startup_zones = {} /\ Zonal(before, after, acts)
        /\ Rewriting(u.awaiting, u.failed, before, after)
        /\ ZonesOf(Syncs(acts), before) = {} =>
              ~ u.failed /\ u.awaiting = ZonesOf(acts, after)
    BY <1>3, <1>4, <1>q DEF Changing
  <2>2. /\ Rewriting(left, now, before, after)'
        /\ ~ answer.applied => Open(answer.zone)' = Want(before, answer.zone)
    BY <1>0, <1>1, <1>q, <1>r, <2>1, RewritingAnswered
  <2>3. ASSUME left # {}, NEW w, pending' = {w}, w.stage = "zone", w.before = before,
               w.after = after, w.zone_action = acts, w.awaiting = left, w.failed = now
        PROVE  Phase'
    <3>1. ZonesOf(Syncs(acts), before) # {}
      BY <1>1, <1>q, <2>1, <2>3 DEF Zonal
    <3>2. Rewriting(w.awaiting, w.failed, w.before, w.after)'
      BY <2>2, <2>3
    <3>3. Changing'
      BY <1>2, <2>1, <2>3, <3>1, <3>2 DEF Changing
    <3> QED
      BY <3>3 DEF Phase
  <2>4. ASSUME left = {}, now = FALSE, pending' = {} PROVE Phase'
    <3>1. Rewriting({}, FALSE, before, after)'
      BY <2>2, <2>4
    <3>2. Matched(after)' /\ after = towns'
      BY <1>2, <1>3, <3>1, RewritingEnds
    <3>3. Serving'
      BY <1>2, <2>1, <2>4, <3>2 DEF Serving
    <3> QED
      BY <3>3 DEF Phase
  <2>5. ASSUME left = {}, now = TRUE, NEW w, pending' = {w}, w.stage = "rollback",
               w.before = before, w.after = after, w.zone_action = acts
        PROVE  Phase'
    <3>1. Rewriting({}, now, before, after)' /\ now
      BY <2>2, <2>5
    <3>2. Spent' /\ AllQuiet'
      BY <3>1 DEF Rewriting, Settled, AllQuiet
    <3>3. \A z \in ZoneIds \ ZonesOf(Syncs(acts), before) : Open(z)' = Want(before, z)
      <4>1. ~ u.failed => Open(answer.zone)' = Want(before, answer.zone)
        BY <1>r, <2>2, <3>1
      <4>2. u.awaiting \ {answer.zone} = {}
        BY <1>q, <2>5
      <4> QED
        BY <1>1, <2>1, <3>1, <4>1, <4>2, UndoneZones
    <3>4. \A z \in ZoneIds \ ZonesOf(Syncs(w.zone_action), w.before) :
             Open(z)' = Want(w.before, z)
      BY <2>5, <3>3
    <3>5. Zonal(w.before, w.after, w.zone_action)
      BY <2>1, <2>5
    <3>6. Undoing'
      BY <1>2, <2>1, <2>5, <3>2, <3>4, <3>5 DEF Undoing, Want
    <3> QED
      BY <3>6 DEF Phase
  <2> QED
    BY <1>1, <2>3, <2>4, <2>5
<1>5. CASE Serving
  <2> PICK reg : reg = towns /\ Matched(reg)
    BY <1>5 DEF Serving
  <2>1. Zonal(before, after, acts) /\ ~ u.failed /\ Spent /\ AllApplied
    BY <1>1, <1>5, <1>q DEF Serving
  <2>2. answer.applied = TRUE /\ Matched(reg)' /\ Spent' /\ AllApplied' /\ reg = towns'
    BY <1>0, <1>2, MatchedAnswered
  <2>3. now = FALSE
    BY <1>r, <2>1, <2>2
  <2>4. \A w \in pending' : /\ Zonal(w.before, w.after, w.zone_action) /\ ~ w.failed
                            /\ w.stage = "zone"
    BY <1>1, <2>1, <2>3
  <2>5. Serving'
    BY <1>2, <1>5, <2>2, <2>4 DEF Serving
  <2> QED
    BY <2>5 DEF Phase
<1>6. CASE Lost
  <2>1. ~ u.failed /\ Spent /\ AllApplied
    BY <1>6 DEF Lost
  <2>2. answer.applied = TRUE /\ AllApplied' /\ Spent'
    <3>1. answer.applied = TRUE /\ AllApplied'
      BY <1>0, <2>1, AnswerMoves
    <3> QED
      BY <2>1, <3>1 DEF Spent, Answered
  <2>3. now = FALSE
    BY <1>r, <2>1, <2>2
  <2>4. \A w \in pending' : ~ w.failed /\ w.stage # "rollback"
    BY <1>1, <2>3
  <2>5. NoRead'
    BY <1>1, <1>6, <2>3 DEF Lost, NoRead, Answered
  <2>6. Lost'
    BY <1>2, <1>6, <2>2, <2>4, <2>5 DEF Lost
  <2> QED
    BY <2>6 DEF Phase
<1>7. ~ Reading /\ ~ Opening /\ ~ Undoing
  BY <1>1, <1>3 DEF Reading, Opening, Undoing
<1> QED
  BY <1>4, <1>5, <1>6, <1>7 DEF Phase

LEMMA UnawaitedPhase ==
  ASSUME Charted, Phase, NEW answer, Answered(answer), UnawaitedZone(answer)
  PROVE  Phase'
<1>0. Typed /\ zone_answers # <<>>
  BY DEF Charted, Answered
<1>1. /\ \A startup \in startup_zones : answer.zone \notin startup.remaining
      /\ \A u \in pending : ~ AwaitedZone(answer, u)
      /\ UNCHANGED <<towns, loaded, startup_zones, pending, outbox>>
  BY DEF UnawaitedZone, memory
<1>2. ~ Reading /\ ~ Undoing
  BY <1>0, QuietIs DEF Reading, Undoing, AllQuiet
<1>r. ASSUME NEW failed PROVE \E now \in BOOLEAN : now <=> failed \/ ~ answer.applied
  <2>1. (failed \/ ~ answer.applied) \in BOOLEAN
    OBVIOUS
  <2> QED
    BY <2>1
<1>3. CASE Opening
  <2>p. PICK ids, failed, none, read :
           /\ startup_zones = {[remaining |-> ids, failed |-> failed]}
           /\ none = NoTowns /\ read = towns
           /\ Rewriting(ids, failed, none, read)
    BY <1>3 DEF Opening
  <2>1. ids \subseteq ZoneIds /\ answer.zone \notin ids
    BY <1>0, <1>1, <2>p DEF Typed, MemoryTyped
  <2>q. PICK left : left = ids \ {answer.zone}
    OBVIOUS
  <2>r. PICK now \in BOOLEAN : now <=> failed \/ ~ answer.applied
    BY <1>r
  <2>2. Rewriting(ids, failed, none, read)
    BY <2>p
  <2>3. answer.zone \in ids
    BY <1>0, <2>1, <2>q, <2>r, <2>2, RewritingAnswered
  <2> QED
    BY <2>1, <2>3
<1>4. CASE Changing
  <2> PICK u : pending = {u} /\ u.stage = "zone" /\ startup_zones = {}
                 /\ Rewriting(u.awaiting, u.failed, u.before, u.after)
    BY <1>4 DEF Changing
  <2>1. u.awaiting \subseteq ZoneIds
    BY <1>0, UpdateOf DEF Typed
  <2>q. PICK left : left = u.awaiting \ {answer.zone}
    OBVIOUS
  <2>r. PICK now \in BOOLEAN : now <=> u.failed \/ ~ answer.applied
    BY <1>r
  <2>2. answer.zone \in u.awaiting
    BY <1>0, <2>1, <2>q, <2>r, RewritingAnswered
  <2> QED
    BY <1>1, <2>2 DEF AwaitedZone
<1>5. CASE Serving
  <2> PICK reg : reg = towns /\ Matched(reg)
    BY <1>5 DEF Serving
  <2>1. Matched(reg)' /\ Spent' /\ AllApplied' /\ reg = towns'
    BY <1>0, <1>1, MatchedAnswered
  <2>2. Serving'
    BY <1>1, <1>5, <2>1 DEF Serving
  <2> QED
    BY <2>2 DEF Phase
<1>6. CASE Lost
  <2>1. AllApplied'
    BY <1>0, <1>6, AnswerMoves DEF Lost
  <2>2. Spent' /\ NoRead'
    BY <1>1, <1>6 DEF Lost, Spent, NoRead, Answered
  <2>3. Lost'
    BY <1>1, <1>6, <2>1, <2>2 DEF Lost
  <2> QED
    BY <2>3 DEF Phase
<1> QED
  BY <1>2, <1>3, <1>4, <1>5, <1>6 DEF Phase

LEMMA ZoneAnsweredPhase ==
  ASSUME Charted, Typed', Phase, ZoneAnswered
  PROVE  Phase'
<1> PICK answer : answer = Head(zone_answers)
  OBVIOUS
<1>1. /\ zone_answers # <<>> /\ zone_answers' = Tail(zone_answers)
      /\ UNCHANGED <<pending_queries, calls, answers, zones, zone_calls, refusals>>
      /\ \/ StartupAnswered(answer)
         \/ \E u \in pending : UpdateAnswered(answer, u)
         \/ UnawaitedZone(answer)
  BY DEF ZoneAnswered, inviting, requesting
<1>2. Typed
  BY DEF Charted
<1>3. ASSUME UNCHANGED outbox PROVE Answered(answer)
  BY <1>1, <1>3, KeepsItself DEF Answered
<1>4. CASE StartupAnswered(answer)
  BY <1>3, <1>4, StartupPhase DEF StartupAnswered
<1>5. ASSUME NEW u \in pending, UpdateAnswered(answer, u) PROVE Phase'
  <2>r. PICK now \in BOOLEAN : now <=> u.failed \/ ~ answer.applied
    <3>1. (u.failed \/ ~ answer.applied) \in BOOLEAN
      OBVIOUS
    <3> QED
      BY <3>1
  <2>q. PICK left : left = u.awaiting \ {answer.zone}
    OBVIOUS
  <2>1. Advances(u, left, now)
    BY <1>2, <1>5, <2>q, <2>r, UpdateAdvances
  <2>2. ASSUME NEW c, c \notin ZoneCalls, outbox' = Append(outbox, c) PROVE Answered(answer)
    <3>1. \A z : Keeps(outbox, outbox', For(z))
      BY <1>2, <2>2, OtherAppended
    <3> QED
      BY <1>1, <3>1 DEF Answered
  <2>3. Answered(answer)
    BY <1>3, <2>1, <2>2 DEF Advances
  <2> QED
    BY <1>5, <2>3, UpdatePhase
<1>6. CASE UnawaitedZone(answer)
  BY <1>3, <1>6, UnawaitedPhase DEF UnawaitedZone
<1> QED
  BY <1>1, <1>4, <1>5, <1>6

-----------------------------------------------------------------------------
(* The host, and the invariant *)

LEMMA ExecuteZonePhase ==
  ASSUME MaxRefusals <= 1, Typed, Phase, ExecuteZone
  PROVE  Phase'
<1>1. /\ zone_calls # <<>>
      /\ UNCHANGED <<towns, loaded, startup_zones, pending, pending_queries, calls, answers>>
      /\ UNCHANGED outbox
  BY DEF ExecuteZone, plugin, memory, inviting, requesting
<1>2. ~ Reading /\ ~ Undoing
  BY <1>1, QuietIs DEF Reading, Undoing, AllQuiet
<1>3. CASE Opening
  <2> PICK ids, failed, none, read :
         /\ startup_zones = {[remaining |-> ids, failed |-> failed]}
         /\ none = NoTowns /\ read = towns
         /\ Rewriting(ids, failed, none, read)
    BY <1>3 DEF Opening
  <2>1. ids \subseteq ZoneIds
    BY DEF Typed, MemoryTyped
  <2>2. Rewriting(ids, failed, none, read)'
    BY <2>1, RewritingExecuted
  <2>3. Opening'
    BY <1>1, <1>3, <2>2 DEF Opening
  <2> QED
    BY <2>3 DEF Phase
<1>4. CASE Changing
  <2> PICK u : /\ pending = {u} /\ u.stage = "zone"
               /\ Zonal(u.before, u.after, u.zone_action)
               /\ Rewriting(u.awaiting, u.failed, u.before, u.after)
               /\ ZonesOf(Syncs(u.zone_action), u.before) = {} =>
                     ~ u.failed /\ u.awaiting = ZonesOf(u.zone_action, u.after)
    BY <1>4 DEF Changing
  <2>1. u.awaiting \subseteq ZoneIds
    BY UpdateOf DEF Typed
  <2>2. Rewriting(u.awaiting, u.failed, u.before, u.after)'
    BY <2>1, RewritingExecuted
  <2>3. Changing'
    BY <1>1, <1>4, <2>2 DEF Changing
  <2> QED
    BY <2>3 DEF Phase
<1>5. CASE Serving
  <2> PICK reg : reg = towns /\ Matched(reg)
    BY <1>5 DEF Serving
  <2>1. Matched(reg)' /\ reg = towns'
    BY <1>1, MatchedExecuted
  <2>2. Spent /\ AllApplied => Spent' /\ AllApplied'
    BY SpentExecuted
  <2>3. Serving'
    BY <1>1, <1>5, <2>1, <2>2 DEF Serving
  <2> QED
    BY <2>3 DEF Phase
<1>6. CASE Lost
  <2>1. Spent' /\ AllApplied'
    BY <1>6, SpentExecuted DEF Lost
  <2>2. NoRead'
    BY <1>1, <1>6 DEF Lost, NoRead
  <2>3. Lost'
    BY <1>1, <1>6, <2>1, <2>2 DEF Lost
  <2> QED
    BY <2>3 DEF Phase
<1> QED
  BY <1>2, <1>3, <1>4, <1>5, <1>6 DEF Phase

LEMMA HostPhase ==
  ASSUME Typed, Phase,
         \/ AcceptBatch
         \/ \E type \in {"get", "cas", "query"} : Execute(type)
         \/ \E p \in Players : TimerFired(p)
         \/ UNCHANGED vars
  PROVE  Phase'
<1>1. CASE AcceptBatch
  <2>1. \A z \in ZoneIds : Still(z)
    BY <1>1, AcceptStill
  <2>2. NoRead => NoRead'
    <3>1. /\ outbox' = <<>> /\ calls' \subseteq calls \cup ToSet(outbox) /\ answers' = answers
      BY <1>1 DEF AcceptBatch, OfTypes
    <3> QED
      BY <3>1, EmptyBatch DEF NoRead
  <2>3. Steady
    BY <1>1, <2>1, <2>2 DEF AcceptBatch, plugin, memory, inviting, Steady
  <2> QED
    BY <2>3, SteadyPhase
<1>2. ASSUME NEW type, Execute(type) PROVE Phase'
  <2> PICK call \in calls : /\ calls' = calls \ {call}
                            /\ ExecuteGet(call) \/ ExecuteCas(call) \/ ExecuteQuery(call)
                            /\ UNCHANGED <<plugin, timers, zoning, outbox>>
    BY <1>2 DEF Execute
  <2>1. \A z \in ZoneIds : Still(z)
    BY NothingAppended
  <2>2. \A a \in answers' : a \in answers \/ call.type = "get" \/ a.type # "get"
    BY DEF ExecuteGet, ExecuteCas, ExecuteQuery
  <2>3. NoRead => NoRead'
    BY <2>2 DEF NoRead
  <2>4. Steady
    BY <2>1, <2>3 DEF plugin, memory, inviting, zoning, Steady
  <2> QED
    BY <2>4, SteadyPhase
<1>3. ASSUME NEW p, TimerFired(p) PROVE Phase'
  <2>1. UNCHANGED <<memory, pending, pending_queries, requesting, zoning, outbox>>
    BY <1>3 DEF TimerFired
  <2>2. \A z \in ZoneIds : Still(z)
    BY <2>1, NothingAppended
  <2>3. Steady
    BY <2>1, <2>2 DEF memory, requesting, zoning, NoRead, Steady
  <2> QED
    BY <2>3, SteadyPhase
<1>4. CASE UNCHANGED vars
  <2>1. UNCHANGED <<memory, pending, pending_queries, requesting, zoning, outbox>>
    BY <1>4 DEF vars, plugin, inviting, host
  <2>2. \A z \in ZoneIds : Still(z)
    BY <2>1, NothingAppended
  <2>3. Steady
    BY <2>1, <2>2 DEF memory, requesting, zoning, NoRead, Steady
  <2> QED
    BY <2>3, SteadyPhase
<1> QED
  BY <1>1, <1>2, <1>3, <1>4

LEMMA NextPhase ==
  ASSUME "restart" \notin Faults, "batch_rejection" \notin Faults,
         "reply_rejection" \notin Faults, MaxRefusals <= 1,
         Charted, Charted', Phase, [Next]_vars
  PROVE  Phase'
<1>1. Typed /\ Typed'
  BY DEF Charted
<1>2. ~ RejectBatch /\ ~ Restart
  BY DEF RejectBatch, Restart
<1>3. \/ Command
      \/ \E type \in {"get", "cas", "players"} : Deliver(type)
      \/ ZoneAnswered \/ ExecuteZone
      \/ \/ AcceptBatch
         \/ \E type \in {"get", "cas", "query"} : Execute(type)
         \/ \E p \in Players : TimerFired(p)
         \/ UNCHANGED vars
  BY <1>2 DEF Next, Callback
<1> QED
  BY <1>1, <1>3, CommandPhase, DeliverPhase, ZoneAnsweredPhase, ExecuteZonePhase, HostPhase

LEMMA InitPhase == Init => Phase
<1> SUFFICES ASSUME Init PROVE Phase
  OBVIOUS
<1>1. /\ loaded = FALSE /\ startup_zones = {} /\ pending = {} /\ pending_queries = {}
      /\ outbox = <<Get>> /\ zone_calls = <<>> /\ zone_answers = <<>> /\ DOMAIN zones = {}
  BY DEF Init
<1>2. ASSUME NEW z PROVE Quiet(z) /\ Open(z) = {}
  <2>1. \A i \in DOMAIN outbox : outbox[i] = Get
    BY <1>1
  <2>2. Get \notin For(z)
    BY DEF Get, For, ZoneCalls
  <2>3. None(outbox, For(z))
    BY <2>1, <2>2 DEF None, At
  <2>4. None(zone_calls, For(z)) /\ None(zone_answers, Told(z))
    BY <1>1 DEF None, At
  <2> QED
    BY <1>1, <2>3, <2>4 DEF Quiet, Open
<1>3. Reading
  BY <1>1, <1>2 DEF Reading, AllQuiet
<1> QED
  BY <1>3 DEF Phase

LEMMA PhaseMatches ==
  ASSUME Typed, Phase
  PROVE  ZonesMatch
<1> SUFFICES ASSUME loaded, pending = {}, OfTypes({"upsert", "remove"}) = {}, zone_calls = <<>>
             PROVE  zones = [zone \in ClaimZones(towns) |-> Rights(towns[zone[1]])]
  BY DEF ZonesMatch
<1>1. Serving
  BY DEF Phase, Reading, Opening, Lost, Changing, Undoing
<1> PICK reg : reg = towns /\ Matched(reg)
  BY <1>1 DEF Serving
<1>2. ASSUME NEW z PROVE None(outbox, For(z)) /\ None(zone_calls, For(z))
  <2>1. \A i \in DOMAIN outbox : outbox[i].type \notin {"upsert", "remove"}
    BY DEF OfTypes, ToSet
  <2>2. \A c \in For(z) : c.type \in {"upsert", "remove"}
    BY DEF For, ZoneCalls
  <2> QED
    BY <2>1, <2>2 DEF None, At
<1>3. \A z \in ZoneIds : Open(z) = Want(reg, z)
  BY <1>2, QuietMatched
<1>4. DOMAIN zones \subseteq ZoneIds /\ zones = [z \in DOMAIN zones |-> zones[z]]
  BY DEF Typed, ZonesTyped
<1>5. ClaimZones(towns) \subseteq ZoneIds
  BY DEF ClaimZones
<1>6. \A z \in ZoneIds : /\ z \in DOMAIN zones <=> z \in ClaimZones(towns)
                         /\ z \in DOMAIN zones => zones[z] = Rights(towns[z[1]])
  BY <1>3 DEF Open, Want
<1>7. DOMAIN zones = ClaimZones(towns)
  BY <1>4, <1>5, <1>6
<1>8. \A z \in DOMAIN zones : zones[z] = Rights(towns[z[1]])
  BY <1>4, <1>6
<1> QED
  BY <1>4, <1>7, <1>8

(* solaris-towns/README.md:11, lib.rs:595 to 680: whenever no update is    *)
(* pending and no zone command is left, the zones are those of the towns,  *)
(* through saves of unknown fate, a refused zone and its rollback, and     *)
(* updates that are started while a rollback still restores its zones.     *)
(* The hypotheses: a restart writes the zones of the claims there are and  *)
(* removes no others, a refused batch takes its zone commands with it, and *)
(* a zone refused while it is restored stays as it is, for nothing looks   *)
(* at that answer.                                                         *)
THEOREM ZonesMatchAlways ==
  ASSUME "restart" \notin Faults, "batch_rejection" \notin Faults,
         "reply_rejection" \notin Faults, MaxRefusals <= 1
  PROVE  Spec => []ZonesMatch
<1>1. Init => Phase
  BY InitPhase
<1>2. Charted /\ Charted' /\ Phase /\ [Next]_vars => Phase'
  BY NextPhase
<1>3. Charted /\ Phase => ZonesMatch
  BY PhaseMatches DEF Charted
<1>4. Spec => []Charted
  BY AlwaysCharted
<1> QED
  BY <1>1, <1>2, <1>3, <1>4, PTL DEF Spec
=============================================================================
