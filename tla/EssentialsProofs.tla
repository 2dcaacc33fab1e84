-------------------------- MODULE EssentialsProofs --------------------------
(***************************************************************************)
(* Theorems about Essentials for any sessions, registers, names, limits,   *)
(* casts, initial stores and faults.  Only that a request has its timer    *)
(* needs a host that refuses no batch of messages alone (RepliesAccepted). *)
(*                                                                         *)
(* A refused batch puts a whole copy of the correlations back, so most of  *)
(* the invariant is stated of any copy c and holds both of the present     *)
(* correlations and of the copy taken before the last event.               *)
(***************************************************************************)
EXTENDS Essentials, TLAPS, FiniteSetTheorems

RepliesAccepted == "reply_rejection" \notin Faults

Storages == [request : Nat, session : Sessions, key : Keys,
             kind : {"set", "get", "delete"}, name : Names, old : Dimensions]
Queries == [request : Nat, kind : {"tpa", "msg", "accept"}, session : Sessions,
            target : Sessions, at : Dimensions, from : SUBSET Sessions]
Teleports == [request : Nat, session : Sessions, old : Dimensions]

SaveIds == Keys \X Nat
Saves == [session : Sessions, kind : {"set", "delete"}, name : Names]
Records == [version : Nat, value : Places]
PlayerLists == UNION {[S -> Dimensions] : S \in SUBSET Sessions}

Partial(f, S, T) == DOMAIN f \subseteq S /\ f \in [DOMAIN f -> T]

TypedCopy(c) ==
  /\ c.pending_storage \subseteq Storages
  /\ Partial(c.pending_saves, SaveIds, Saves)
  /\ c.pending_queries \subseteq Queries
  /\ c.pending_teleports \subseteq Teleports
  /\ Partial(c.tpa_by_target, Sessions, Sessions)
  /\ Partial(c.replies, Sessions, Sessions)

Gets == [type : {"get"}, request : Nat, key : Keys]
Writes == [type : {"cas"}, save : SaveIds, key : Keys, expected : Nat, value : Places]
Onlines == [type : {"online"}, request : Nat]
Transfers == [type : {"teleport"}, request : Nat, session : Sessions, dimension : Dimensions]
Calls == Gets \cup Writes \cup Onlines \cup Transfers

Offers == [type : {"message"}, session : Sessions, from : Sessions]
Notices == {Message}
Reports == [type : {"message"}, saved : Names, places : Places]
Signals == [type : {"schedule", "cancel"}, session : Sessions]

Answers ==
  [type : {"get"}, request : Nat, outcome : {"read", "failed"}, record : Records]
    \cup [type : {"cas"}, save : SaveIds, outcome : {"committed", "refused", "failed"},
          value : Places]
    \cup [type : {"online"}, request : Nat, players : PlayerLists]
    \cup [type : {"teleport"}, request : Nat, outcome : {"committed", "refused"}]

TypeOK ==
  /\ TypedCopy(CallbackCorrelations)
  /\ \A c \in last_callback : TypedCopy(c)
  /\ Partial(backs, Sessions, Dimensions)
  /\ online \subseteq Sessions /\ left \subseteq Sessions
  /\ where \in [Sessions -> Dimensions]
  /\ timers \subseteq Sessions
  /\ store \in [Keys -> Records]
  /\ Partial(shown, Sessions, Sessions)
  /\ outbox \subseteq Calls \cup Offers \cup Notices \cup Reports \cup Signals
  /\ calls \subseteq Calls
  /\ answers \subseteq Answers

-----------------------------------------------------------------------------
(* The inductive invariant *)

(* A record read from register k, which may have been replaced since. *)
Past(k, record) ==
  /\ record.version <= store[k].version
  /\ record.version = store[k].version => record = store[k]

(* What awaits x knows which register it asked for. *)
RequestOf(c, x) ==
  /\ x.type = "get" => /\ \E y \in c.pending_storage : y.request = x.request
                       /\ \A y \in c.pending_storage : y.request = x.request => y.key = x.key
  /\ x.type = "online" => \E y \in c.pending_queries : y.request = x.request
  /\ x.type = "teleport" => \E y \in c.pending_teleports : y.request = x.request

AnswerTo(c, x) ==
  /\ x.type = "get" =>
        /\ \E y \in c.pending_storage : y.request = x.request
        /\ \A y \in c.pending_storage : y.request = x.request => Past(y.key, x.record)
  /\ x.type = "online" => \E y \in c.pending_queries : y.request = x.request
  /\ x.type = "teleport" => \E y \in c.pending_teleports : y.request = x.request

Keeps(c) ==
  /\ \A x \in calls : RequestOf(c, x)
  /\ \A x \in answers : AnswerTo(c, x)

(* The copy for a refusal of the batch knows all that the host already had. *)
Correlated ==
  /\ Keeps(CallbackCorrelations)
  /\ \A x \in outbox : RequestOf(CallbackCorrelations, x)
  /\ \A c \in last_callback : Keeps(c)

Numbered(x) == x.type \in {"get", "online", "teleport"}

(* No two requests or answers under way have one number. *)
Distinct ==
  /\ \A x, y \in outbox : Numbered(x) /\ Numbered(y) => x = y
  /\ \A x \in outbox, y \in calls \cup answers :
        Numbered(x) /\ Numbered(y) => x.request # y.request
  /\ \A x \in calls, y \in answers : Numbered(x) /\ Numbered(y) => x.request # y.request
  /\ \A x, y \in calls : Numbered(x) /\ Numbered(y) /\ x.request = y.request => x = y
  /\ \A x, y \in answers : Numbered(x) /\ Numbered(y) /\ x.request = y.request => x = y

(* So few are used that one is always free. *)
FiniteCopy(c) == /\ IsFiniteSet(c.pending_storage) /\ IsFiniteSet(c.pending_queries)
                 /\ IsFiniteSet(c.pending_teleports)

Finite ==
  /\ FiniteCopy(CallbackCorrelations)
  /\ \A c \in last_callback : FiniteCopy(c)
  /\ IsFiniteSet({x \in outbox : x \in Calls}) /\ IsFiniteSet(calls) /\ IsFiniteSet(answers)

Live(c) ==
  \A t \in DOMAIN c.tpa_by_target : t \in DOMAIN shown /\ shown[t] = c.tpa_by_target[t]

Timed(c) == RepliesAccepted => \A t \in DOMAIN c.tpa_by_target : t \in timers

(* Nobody is about to be shown a request, or its timer to be set. *)
Quiet ==
  /\ \A x \in outbox : x \notin Offers
  /\ \A t \in DOMAIN tpa_by_target : Cancel(t) \notin outbox
  /\ Live(CallbackCorrelations) /\ Timed(CallbackCorrelations)

(* A new request of t, which may take the place of another. *)
Offering(t) ==
  /\ t \in DOMAIN tpa_by_target
  /\ outbox = {Schedule(t), Shown(t, tpa_by_target[t])}
  /\ \A u \in DOMAIN tpa_by_target \ {t} :
        /\ u \in DOMAIN shown /\ shown[u] = tpa_by_target[u]
        /\ RepliesAccepted => u \in timers

(* The copy may hold the request whose timer has fired: the batch is its    *)
(* message, and tells nothing else.                                         *)
Offered ==
  /\ Quiet \/ \E t \in Sessions : Offering(t)
  /\ \A c \in last_callback : Live(c) /\ (Requests(outbox) # {} => Timed(c))

(* places, changed at one name as Atlas allows. *)
OneChange(k, places, changed) ==
  \E n \in Names :
     \/ n \in DOMAIN places /\ changed = Drop(places, {n})
     \/ /\ n \in DOMAIN places \/ Cardinality(DOMAIN places) < Limit[k]
        /\ \E d \in Dimensions : changed = Set(places, n, d)

(* The write x, if it commits, is one change of its register. *)
ChangesOnce(x) ==
  /\ x.expected <= store[x.key].version
  /\ x.expected = store[x.key].version => OneChange(x.key, store[x.key].value, x.value)

Saving == \A x \in outbox \cup calls : x.type = "cas" => ChangesOnce(x)

Sound == Correlated /\ Distinct /\ Finite /\ Offered /\ Saving

-----------------------------------------------------------------------------
(* Data *)

LEMMA SetPartial ==
  ASSUME NEW S, NEW T, NEW f, Partial(f, S, T), NEW x \in S, NEW y \in T
  PROVE  Partial(Set(f, x, y), S, T)
<1> PICK g : g = Set(f, x, y)
  OBVIOUS
<1>1. DOMAIN g = DOMAIN f \cup {x} /\ \A z \in DOMAIN g : g[z] = IF z = x THEN y ELSE f[z]
  BY DEF Set
<1>2. g = [z \in DOMAIN g |-> g[z]]
  BY DEF Set
<1>3. \A z \in DOMAIN g : g[z] \in T
  BY <1>1 DEF Partial
<1>4. DOMAIN g \subseteq S
  BY <1>1 DEF Partial
<1> QED
  BY <1>2, <1>3, <1>4 DEF Partial

LEMMA DropPartial ==
  ASSUME NEW S, NEW T, NEW f, Partial(f, S, T), NEW D
  PROVE  Partial(Drop(f, D), S, T)
<1> PICK g : g = Drop(f, D)
  OBVIOUS
<1>1. DOMAIN g = DOMAIN f \ D /\ \A z \in DOMAIN g : g[z] = f[z]
  BY DEF Drop
<1>2. g = [z \in DOMAIN g |-> g[z]]
  BY DEF Drop
<1>3. \A z \in DOMAIN g : g[z] \in T
  BY <1>1 DEF Partial
<1>4. DOMAIN g \subseteq S
  BY <1>1 DEF Partial
<1> QED
  BY <1>2, <1>3, <1>4 DEF Partial

LEMMA EmptyPartial == \A S, T : Partial(<<>>, S, T)
BY DEF Partial

LEMMA PlacesDef ==
  ASSUME NEW f
  PROVE  f \in Places <=> Partial(f, Names, Dimensions \cup {Unknown})
BY DEF Places, Partial

LEMMA ListsDef ==
  ASSUME NEW f
  PROVE  f \in PlayerLists <=> Partial(f, Sessions, Dimensions)
BY DEF PlayerLists, Partial

LEMMA PlacesChange ==
  ASSUME NEW f \in Places, NEW n \in Names
  PROVE  /\ \A d \in Dimensions : Set(f, n, d) \in Places
         /\ Drop(f, {n}) \in Places
BY PlacesDef, SetPartial, DropPartial

(* Some small number is not in a finite set. *)
LEMMA NumbersLeft ==
  ASSUME NEW S, IsFiniteSet(S)
  PROVE  \E n \in 1 .. Cardinality(S) + 1 : n \notin S
<1>1. Cardinality(S) \in Nat
  BY FS_CardinalityType
<1>2. Cardinality(1 .. Cardinality(S) + 1) = Cardinality(S) + 1
  BY <1>1, FS_Interval
<1>3. ~ (1 .. Cardinality(S) + 1 \subseteq S)
  <2>1. SUFFICES ASSUME 1 .. Cardinality(S) + 1 \subseteq S PROVE FALSE
    OBVIOUS
  <2>2. Cardinality(1 .. Cardinality(S) + 1) <= Cardinality(S)
    BY <2>1, FS_Subset
  <2> QED
    BY <1>1, <1>2, <2>2
<1> QED
  BY <1>3

LEMMA FiniteNumbers ==
  ASSUME NEW S, IsFiniteSet(S)
  PROVE  IsFiniteSet({x.request : x \in S})
<1> DEFINE T == {x.request : x \in S}
           f == [x \in S |-> x.request]
<1>1. f \in [S -> T] /\ \A t \in T : \E x \in S : f[x] = t
  OBVIOUS
<1>2. f \in Surjection(S, T)
  BY <1>1 DEF Surjection
<1> HIDE DEF T, f
<1>3. IsFiniteSet(T)
  BY <1>2, FS_Surjection
<1> QED
  BY <1>3 DEF T

Used == {x.request : x \in pending_storage \cup pending_queries \cup pending_teleports}
          \cup {x.request : x \in {y \in calls \cup answers : y.type # "cas"}}

(* next_request returns an id not in use. *)
LEMMA NewRequestIsNew ==
  ASSUME Finite
  PROVE  /\ NewRequest \in Nat
         /\ \A x \in pending_storage \cup pending_queries \cup pending_teleports :
               x.request # NewRequest
         /\ \A x \in calls \cup answers : x.type # "cas" => x.request # NewRequest
<1> PICK P, Q : /\ P = pending_storage \cup pending_queries \cup pending_teleports
                /\ Q = {y \in calls \cup answers : y.type # "cas"}
  OBVIOUS
<1>1. IsFiniteSet(P)
  BY FS_Union DEF Finite, FiniteCopy, CallbackCorrelations
<1>2. IsFiniteSet(Q)
  <2>1. IsFiniteSet(calls \cup answers)
    BY FS_Union DEF Finite
  <2> QED
    BY <2>1, FS_Subset
<1>3. IsFiniteSet(Used)
  <2>1. IsFiniteSet({x.request : x \in P}) /\ IsFiniteSet({x.request : x \in Q})
    BY <1>1, <1>2, FiniteNumbers
  <2> QED
    BY <2>1, FS_Union DEF Used
<1>4. \E n \in 1 .. Cardinality(Used) + 1 : n \notin Used
  BY <1>3, NumbersLeft
<1>5. NewRequest = CHOOSE n \in 1 .. Cardinality(Used) + 1 : n \notin Used
  BY DEF NewRequest, Used
<1>6. NewRequest \in 1 .. Cardinality(Used) + 1 /\ NewRequest \notin Used
  BY <1>4, <1>5
<1>7. NewRequest \in Nat
  BY <1>3, <1>6, FS_CardinalityType
<1> QED
  BY <1>6, <1>7 DEF Used

-----------------------------------------------------------------------------
(* Types *)

Batches == Calls \cup Offers \cup Notices \cup Reports \cup Signals

(* What every callback leaves alone, and the copy it takes. *)
LEMMA CallbackType ==
  ASSUME TypeOK, TypedCopy(CallbackCorrelations)', outbox' \subseteq Batches,
         Partial(backs, Sessions, Dimensions)', Snapshot,
         answers' \subseteq answers, calls' = calls, timers' \subseteq timers,
         left' \subseteq left, UNCHANGED <<online, where, store, shown>>
  PROVE  TypeOK'
<1>1. \A c \in last_callback' : c = CallbackCorrelations
  BY DEF Snapshot
<1>2. \A c \in last_callback' : TypedCopy(c)
  BY <1>1 DEF TypeOK
<1> QED
  BY <1>2 DEF TypeOK, Batches

LEMMA BeginTeleportType ==
  ASSUME TypeOK, Finite, outbox = {},
         NEW s \in Sessions, NEW d, NEW old \in Dimensions, BeginTeleport(s, d, old)
  PROVE  pending_teleports' \subseteq Teleports /\ outbox' \subseteq Batches
<1>1. NewRequest \in Nat
  BY NewRequestIsNew
<1> PICK n : n = NewRequest
  OBVIOUS
<1>2. pending_teleports \subseteq Teleports
  BY DEF TypeOK, TypedCopy, CallbackCorrelations
<1>3. CASE Told /\ UNCHANGED pending_teleports
  BY <1>2, <1>3 DEF Told, Batches, Notices
<1>4. CASE d = old /\ pending_teleports' = pending_teleports \cup
                        {[request |-> n, session |-> s, old |-> old]}
                   /\ outbox' = {[type |-> "teleport", request |-> n, session |-> s,
                                  dimension |-> d]}
  <2>1. [request |-> n, session |-> s, old |-> old] \in Teleports
    BY <1>1 DEF Teleports
  <2>2. [type |-> "teleport", request |-> n, session |-> s, dimension |-> d] \in Transfers
    BY <1>1, <1>4 DEF Transfers
  <2> QED
    BY <1>2, <1>4, <2>1, <2>2 DEF Batches, Calls
<1> QED
  BY <1>3, <1>4 DEF BeginTeleport

LEMMA QueryType ==
  ASSUME TypeOK, Finite, NEW kind \in {"tpa", "msg", "accept"},
         NEW s \in Sessions, NEW target \in Sessions, NEW from \in SUBSET Sessions,
         Query(kind, s, target, from)
  PROVE  pending_queries' \subseteq Queries /\ Online \in Batches
<1>1. NewRequest \in Nat /\ where[s] \in Dimensions
  BY NewRequestIsNew DEF TypeOK
<1> PICK n, d : n = NewRequest /\ d = where[s]
  OBVIOUS
<1>2. [request |-> n, kind |-> kind, session |-> s, target |-> target, at |-> d,
       from |-> from] \in Queries
  BY <1>1 DEF Queries
<1>3. pending_queries \subseteq Queries
  BY DEF TypeOK, TypedCopy, CallbackCorrelations
<1>4. Online \in Onlines
  BY <1>1 DEF Online, Onlines
<1> QED
  BY <1>2, <1>3, <1>4 DEF Query, Batches, Calls

LEMMA CommandType ==
  ASSUME TypeOK, Finite, Command
  PROVE  TypeOK'
<1>1. Snapshot
  BY DEF Command
<1>2. ASSUME NEW s \in Sessions, NEW command, Give(s, command),
             TypedCopy(CallbackCorrelations)', outbox' \subseteq Batches
      PROVE  TypeOK'
  <2>1. UNCHANGED <<backs, online, left, where, timers, store, shown, calls, answers>>
    BY <1>2 DEF Give, world
  <2>2. Partial(backs, Sessions, Dimensions)'
    BY <2>1 DEF TypeOK
  <2> QED
    BY <1>1, <1>2, <2>1, <2>2, CallbackType
<1> USE DEF TypedCopy, CallbackCorrelations
<1>3. ASSUME NEW s \in Sessions, NEW kind \in {"set", "get", "delete"},
             NEW k \in Registers[s], NEW n \in Names, Place(s, kind, k, n)
      PROVE  TypeOK'
  <2>1. k \in Keys /\ where[s] \in Dimensions /\ NewRequest \in Nat
    BY InputsAssumption, NewRequestIsNew DEF TypeOK
  <2> PICK r, d : r = NewRequest /\ d = where[s]
    OBVIOUS
  <2>2. [request |-> r, session |-> s, key |-> k, kind |-> kind, name |-> n, old |-> d]
          \in Storages
    BY <2>1 DEF Storages
  <2>3. [type |-> "get", request |-> r, key |-> k] \in Gets
    BY <2>1 DEF Gets
  <2>4. TypedCopy(CallbackCorrelations)'
    BY <1>3, <2>2 DEF Place, Give, TypeOK
  <2>5. outbox' \subseteq Batches
    BY <1>3, <2>3 DEF Place, Batches, Calls
  <2> QED
    BY <1>2, <1>3, <2>4, <2>5 DEF Place
<1>4. ASSUME NEW s \in Sessions, NEW kind \in {"tpa", "msg"}, NEW target \in Sessions,
             Ask(kind, s, target)
      PROVE  TypeOK'
  <2>1. pending_queries' \subseteq Queries /\ Online \in Batches
    BY <1>4, QueryType DEF Ask
  <2> QED
    BY <1>2, <1>4, <2>1 DEF Ask, Give, Query, TypeOK
<1>5. ASSUME NEW s \in Sessions, Back(s)
      PROVE  TypeOK'
  <2>1. pending_teleports' \subseteq Teleports /\ outbox' \subseteq Batches
    BY <1>5, BeginTeleportType DEF Back, Give, Free, TypeOK
  <2> QED
    BY <1>2, <1>5, <2>1 DEF Back, Give, TypeOK
<1>6. ASSUME NEW s \in Sessions, TpaAccept(s)
      PROVE  TypeOK'
  <2>1. {tpa_by_target[s]} \in SUBSET Sessions
    BY <1>6 DEF TpaAccept, TypeOK, Partial
  <2>2. pending_queries' \subseteq Queries /\ Online \in Batches
    BY <1>6, <2>1, QueryType DEF TpaAccept
  <2>3. Cancel(s) \in Batches
    BY DEF Cancel, Batches, Signals
  <2>4. Partial(tpa_by_target, Sessions, Sessions)'
    BY <1>6, DropPartial DEF TpaAccept, TypeOK
  <2> QED
    BY <1>2, <1>6, <2>2, <2>3, <2>4 DEF TpaAccept, Give, Query, TypeOK
<1>7. ASSUME NEW s \in Sessions, Reply(s)
      PROVE  TypeOK'
  <2>1. outbox' \subseteq Batches
    BY <1>7 DEF Reply, Told, Batches, Notices
  <2> QED
    BY <1>2, <1>7, <2>1 DEF Reply, correlations, TypeOK
<1> QED
  BY <1>3, <1>4, <1>5, <1>6, <1>7 DEF Command

LEMMA DeliverType ==
  ASSUME TypeOK, Finite, Deliver
  PROVE  TypeOK'
<1> USE DEF TypedCopy, CallbackCorrelations
<1> PICK answer \in answers :
      /\ Free
      /\ answers' = answers \ {answer}
      /\ \/ StorageGet(answer) \/ StorageCas(answer)
         \/ OnlinePlayers(answer) \/ Teleported(answer)
      /\ Snapshot
      /\ UNCHANGED <<world, timers, store, shown, calls>>
  BY DEF Deliver
<1>1. answer \in Answers /\ outbox = {}
  BY DEF TypeOK, Free
<1>2. ASSUME TypedCopy(CallbackCorrelations)', outbox' \subseteq Batches,
             Partial(backs, Sessions, Dimensions)'
      PROVE  TypeOK'
  BY <1>2, CallbackType DEF world
<1> Told => outbox' \subseteq Batches
  BY DEF Told, Batches, Notices
<1>3. CASE StorageGet(answer)
  <2> PICK current \in pending_storage :
        /\ pending_storage' = pending_storage \ {current}
        /\ IF answer.outcome = "read" /\ Decodable(current.key, answer.record.value)
           THEN /\ \/ Lookup(current, answer.record.value)
                   \/ Change(current, answer.record)
                /\ UNCHANGED <<tpa_by_target, replies>>
           ELSE Nothing
        /\ UNCHANGED <<pending_queries, backs>>
    BY <1>3 DEF StorageGet
  <2>1. current \in Storages
    BY DEF TypeOK
  <2>2. answer.record \in Records
    BY <1>1, <1>3 DEF StorageGet, Answers
  <2>3. CASE Nothing
    BY <1>1, <1>2, <2>3 DEF Nothing, TypeOK
  <2>4. ASSUME Lookup(current, answer.record.value), UNCHANGED <<tpa_by_target, replies>>
        PROVE  TypeOK'
    <3>1. current.session \in Sessions /\ current.old \in Dimensions
      BY <2>1 DEF Storages
    <3>2. pending_teleports' \subseteq Teleports /\ outbox' \subseteq Batches
      <4>1. CASE Told /\ UNCHANGED pending_teleports
        BY <1>1, <4>1 DEF TypeOK
      <4>2. CASE BeginTeleport(current.session, answer.record.value[current.name], current.old)
        BY <1>1, <3>1, <4>2, BeginTeleportType
      <4> QED
        BY <2>4, <4>1, <4>2 DEF Lookup
    <3> QED
      BY <1>2, <2>4, <3>2 DEF Lookup, TypeOK
  <2>5. ASSUME Change(current, answer.record), UNCHANGED <<tpa_by_target, replies>>
        PROVE  TypeOK'
    <3>1. CASE Told /\ UNCHANGED pending_saves
      BY <1>1, <1>2, <2>5, <3>1 DEF Change, TypeOK
    <3>2. ASSUME NEW changed \in Changed(current, answer.record.value),
                 NEW id, id = <<current.key, answer.record.version>>,
                 pending_saves' = Set(pending_saves, id, [session |-> current.session,
                                                          kind |-> current.kind,
                                                          name |-> current.name]),
                 outbox' = {[type |-> "cas", save |-> id, key |-> current.key,
                             expected |-> answer.record.version, value |-> changed]}
          PROVE  TypeOK'
      <4>1. id \in SaveIds
        BY <2>1, <2>2, <3>2 DEF SaveIds, Storages, Records
      <4>2. [session |-> current.session, kind |-> current.kind, name |-> current.name]
              \in Saves
        BY <2>1, <2>5 DEF Change, Storages, Saves
      <4>3. Partial(pending_saves, SaveIds, Saves)'
        BY <3>2, <4>1, <4>2, SetPartial DEF TypeOK
      <4>4. changed \in Places
        <5>1. /\ answer.record.value \in Places
              /\ current.name \in Names /\ current.old \in Dimensions
          BY <2>1, <2>2 DEF Records, Storages
        <5> QED
          BY <3>2, <5>1, PlacesChange DEF Changed
      <4>5. [type |-> "cas", save |-> id, key |-> current.key,
             expected |-> answer.record.version, value |-> changed] \in Writes
        BY <2>1, <2>2, <4>1, <4>4 DEF Writes, Storages, Records
      <4>6. outbox' \subseteq Batches
        BY <3>2, <4>5 DEF Batches, Calls
      <4> QED
        BY <1>2, <2>5, <4>3, <4>6 DEF Change, TypeOK
    <3> QED
      BY <2>5, <3>1, <3>2 DEF Change
  <2> QED
    BY <2>3, <2>4, <2>5
<1>4. CASE StorageCas(answer)
  <2>1. answer.value \in Places
    BY <1>1, <1>4 DEF StorageCas, Answers
  <2>2. ASSUME NEW id \in DOMAIN pending_saves
        PROVE  [type |-> "message", saved |-> pending_saves[id].name,
                places |-> answer.value] \in Reports
    <3>1. pending_saves[id] \in Saves
      BY DEF TypeOK, Partial
    <3> QED
      BY <2>1, <3>1 DEF Saves, Reports
  <2>3. outbox' \subseteq Batches
    BY <1>4, <2>2 DEF StorageCas, Batches, Notices
  <2>4. Partial(pending_saves, SaveIds, Saves)'
    BY <1>4, DropPartial DEF StorageCas, TypeOK
  <2> QED
    BY <1>2, <1>4, <2>3, <2>4 DEF StorageCas, TypeOK
<1>5. CASE OnlinePlayers(answer)
  <2> PICK current \in pending_queries :
        /\ pending_queries' = pending_queries \ {current}
        /\ \/ Accepted(current, answer.players)
           \/ Requested(current) \/ Texted(current)
           \/ Told /\ UNCHANGED <<pending_teleports, tpa_by_target, replies>>
        /\ UNCHANGED <<pending_storage, pending_saves, backs>>
    BY <1>5 DEF OnlinePlayers
  <2>1. current \in Queries
    BY DEF TypeOK
  <2>2. CASE Told /\ UNCHANGED <<pending_teleports, tpa_by_target, replies>>
    BY <1>1, <1>2, <2>2 DEF TypeOK
  <2>3. CASE Accepted(current, answer.players)
    <3> PICK from \in current.from :
          \/ from \in DOMAIN answer.players /\ answer.players[from] = current.at
             /\ BeginTeleport(from, current.at, answer.players[from])
          \/ Told /\ UNCHANGED pending_teleports
      BY <2>3 DEF Accepted
    <3>1. from \in Sessions /\ current.at \in Dimensions
      BY <2>1 DEF Queries
    <3>2. pending_teleports' \subseteq Teleports /\ outbox' \subseteq Batches
      BY <1>1, <3>1, BeginTeleportType DEF TypeOK
    <3> QED
      BY <1>2, <2>3, <3>2 DEF Accepted, TypeOK
  <2>4. CASE Requested(current)
    <3>1. current.session \in Sessions /\ current.target \in Sessions
      BY <2>1 DEF Queries
    <3>2. outbox' \subseteq Batches
      BY <2>4, <3>1 DEF Requested, Schedule, Shown, Batches, Signals, Offers
    <3>3. Partial(tpa_by_target, Sessions, Sessions)'
      BY <2>4, <3>1, SetPartial DEF Requested, TypeOK
    <3> QED
      BY <1>2, <2>4, <3>2, <3>3 DEF Requested, TypeOK
  <2>5. CASE Texted(current)
    <3>1. current.session \in Sessions /\ current.target \in Sessions
      BY <2>1 DEF Queries
    <3>2. Partial(replies, Sessions, Sessions)'
      <4>1. Partial(Set(replies, current.session, current.target), Sessions, Sessions)
        BY <3>1, SetPartial DEF TypeOK
      <4> QED
        BY <2>5, <3>1, <4>1, SetPartial DEF Texted
    <3> QED
      BY <1>1, <1>2, <2>5, <3>2 DEF Texted, TypeOK
  <2> QED
    BY <2>2, <2>3, <2>4, <2>5
<1>6. CASE Teleported(answer)
  <2> PICK current \in pending_teleports :
        /\ pending_teleports' = pending_teleports \ {current}
        /\ backs' = IF answer.outcome = "committed" THEN Set(backs, current.session, current.old)
                                                    ELSE backs
        /\ Told
        /\ UNCHANGED <<pending_storage, pending_saves, pending_queries, tpa_by_target, replies>>
    BY <1>6 DEF Teleported
  <2>1. current.session \in Sessions /\ current.old \in Dimensions
    BY DEF TypeOK, Teleports
  <2>2. Partial(backs, Sessions, Dimensions)'
    BY <2>1, SetPartial DEF TypeOK
  <2> QED
    BY <1>1, <1>2, <2>2 DEF TypeOK
<1> QED
  BY <1>3, <1>4, <1>5, <1>6

LEMMA EventType ==
  ASSUME TypeOK, NEW s \in Sessions, TimerFired(s) \/ PlayerDied(s) \/ PlayerLeft(s)
  PROVE  TypeOK'
<1> USE DEF TypedCopy, CallbackCorrelations
<1>1. CASE TimerFired(s)
  <2>1. Partial(tpa_by_target, Sessions, Sessions)'
    BY <1>1, DropPartial DEF TimerFired, TypeOK
  <2>2. TypedCopy(CallbackCorrelations)' /\ Partial(backs, Sessions, Dimensions)'
    BY <1>1, <2>1 DEF TimerFired, TypeOK
  <2>3. outbox' \subseteq Batches
    BY <1>1 DEF TimerFired, Batches, Notices
  <2> QED
    BY <1>1, <2>2, <2>3, CallbackType DEF TimerFired, world
<1>2. CASE PlayerDied(s)
  <2>1. Partial(backs, Sessions, Dimensions)'
    <3>1. where[s] \in Dimensions
      BY DEF TypeOK
    <3> QED
      BY <1>2, <3>1, SetPartial DEF PlayerDied, TypeOK
  <2>2. TypedCopy(CallbackCorrelations)'
    BY <1>2 DEF PlayerDied, correlations, TypeOK
  <2> QED
    BY <1>2, <2>1, <2>2, CallbackType DEF PlayerDied, Free, world
<1>3. CASE PlayerLeft(s)
  <2>1. /\ Partial(tpa_by_target, Sessions, Sessions)'
        /\ Partial(replies, Sessions, Sessions)'
        /\ Partial(backs, Sessions, Dimensions)'
    BY <1>3, DropPartial DEF PlayerLeft, TypeOK
  <2>2. TypedCopy(CallbackCorrelations)'
    BY <1>3, <2>1 DEF PlayerLeft, TypeOK
  <2>3. outbox' \subseteq Batches
    <3>1. DOMAIN tpa_by_target \subseteq Sessions
      BY DEF TypeOK, Partial
    <3>2. \A t \in Sessions : Cancel(t) \in Batches
      BY DEF Cancel, Batches, Signals
    <3> QED
      BY <1>3, <3>1, <3>2 DEF PlayerLeft
  <2> QED
    BY <1>3, <2>1, <2>2, <2>3, CallbackType DEF PlayerLeft
<1> QED
  BY <1>1, <1>2, <1>3

LEMMA WriteOutcomes ==
  ASSUME NEW record, NEW expected, NEW value,
         NEW x \in CasExecutions(record, expected, value)
  PROVE  /\ x.outcome \in {"committed", "refused", "failed"}
         /\ \/ x.record = record
            \/ x.record = Written(record, value) /\ record.version = expected
BY DEF CasExecutions, CasOutcomes

LEMMA ExecuteType ==
  ASSUME TypeOK, Execute
  PROVE  TypeOK'
<1> PICK call \in calls :
      /\ calls' = calls \ {call}
      /\ ExecuteGet(call) \/ ExecuteCas(call) \/ ExecuteOnline(call) \/ ExecuteTeleport(call)
      /\ UNCHANGED <<correlations, backs, last_callback, acts, online, left, timers, shown,
                     outbox>>
  BY DEF Execute
<1>1. call \in Calls
  BY DEF TypeOK
<1>2. ASSUME answers' \subseteq Answers, store' \in [Keys -> Records], where' = where
      PROVE  TypeOK'
  BY <1>2 DEF TypeOK, TypedCopy, CallbackCorrelations, correlations
<1>3. CASE ExecuteGet(call)
  <2>1. call \in Gets
    BY <1>1, <1>3 DEF ExecuteGet, Calls, Writes, Onlines, Transfers
  <2>2. store[call.key] \in Records /\ call.request \in Nat
    BY <2>1 DEF Gets, TypeOK
  <2> PICK outcome \in ReadOutcomes :
        answers' = answers \cup {[type |-> "get", request |-> call.request,
                                  outcome |-> outcome, record |-> store[call.key]]}
    BY <1>3 DEF ExecuteGet
  <2>3. [type |-> "get", request |-> call.request,
         outcome |-> outcome, record |-> store[call.key]] \in Answers
    BY <2>2 DEF Answers, ReadOutcomes
  <2> QED
    BY <1>2, <1>3, <2>3 DEF ExecuteGet, TypeOK
<1>4. CASE ExecuteCas(call)
  <2>1. call \in Writes
    BY <1>1, <1>4 DEF ExecuteCas, Calls, Gets, Onlines, Transfers
  <2>2. /\ call.key \in Keys /\ store[call.key] \in Records
        /\ call.value \in Places /\ call.save \in SaveIds
    BY <2>1 DEF Writes, TypeOK
  <2> PICK x \in CasExecutions(store[call.key], call.expected, call.value) :
        /\ store' = [store EXCEPT ![call.key] = x.record]
        /\ answers' = answers \cup {[type |-> "cas", save |-> call.save,
                                     outcome |-> x.outcome, value |-> call.value]}
    BY <1>4 DEF ExecuteCas
  <2>3. /\ x.outcome \in {"committed", "refused", "failed"}
        /\ x.record = store[call.key] \/ x.record = Written(store[call.key], call.value)
    BY WriteOutcomes
  <2>4. Written(store[call.key], call.value) \in Records
    BY <2>2 DEF Written, Records
  <2>5. store' \in [Keys -> Records]
    BY <2>2, <2>3, <2>4 DEF TypeOK
  <2>6. [type |-> "cas", save |-> call.save, outcome |-> x.outcome, value |-> call.value]
          \in Answers
    BY <2>2, <2>3 DEF Answers
  <2> QED
    BY <1>2, <1>4, <2>5, <2>6 DEF ExecuteCas, TypeOK
<1>5. CASE ExecuteOnline(call)
  <2>1. call \in Onlines
    BY <1>1, <1>5 DEF ExecuteOnline, Calls, Gets, Writes, Transfers
  <2> PICK players : players = [s \in online |-> where[s]]
    OBVIOUS
  <2>2. players \in PlayerLists
    <3>1. DOMAIN players = online /\ \A s \in online : players[s] = where[s]
      OBVIOUS
    <3>2. players \in [online -> Dimensions] /\ online \in SUBSET Sessions
      BY <3>1 DEF TypeOK
    <3> QED
      BY <3>2 DEF PlayerLists
  <2>3. [type |-> "online", request |-> call.request, players |-> players] \in Answers
    BY <2>1, <2>2 DEF Onlines, Answers
  <2> QED
    BY <1>2, <1>5, <2>3 DEF ExecuteOnline, TypeOK
<1>6. CASE ExecuteTeleport(call)
  <2>1. call \in Transfers
    BY <1>1, <1>6 DEF ExecuteTeleport, Calls, Gets, Writes, Onlines
  <2> PICK outcome \in {"committed", "refused"} :
        answers' = answers \cup {[type |-> "teleport", request |-> call.request,
                                  outcome |-> outcome]}
    BY <1>6 DEF ExecuteTeleport
  <2>2. [type |-> "teleport", request |-> call.request, outcome |-> outcome] \in Answers
    BY <2>1 DEF Transfers, Answers
  <2> QED
    BY <1>2, <1>6, <2>2 DEF ExecuteTeleport, TypeOK
<1> QED
  BY <1>3, <1>4, <1>5, <1>6

(* What an accepted batch shows, and which timers it sets and cancels. *)
LEMMA BatchEffects ==
  ASSUME TypeOK, AcceptBatch
  PROVE  /\ Quiet => shown' = shown
         /\ \A t \in Sessions : Offering(t) =>
               shown' = Set(shown, t, tpa_by_target[t]) /\ timers' = timers \cup {t}
         /\ timers' \subseteq Sessions
         /\ \A t \in timers : Cancel(t) \notin outbox => t \in timers'
         /\ calls' = calls \cup {x \in outbox : x \in Calls}
<1> USE DEF Of
<1>1. \A x \in outbox : /\ x.type = "message" => x \in Offers \cup Notices \cup Reports
                        /\ x.type = "schedule" \/ x.type = "cancel" => x \in Signals
                        /\ x.type \in {"get", "cas", "online", "teleport"} <=> x \in Calls
  BY DEF TypeOK, Calls, Gets, Writes, Onlines, Transfers, Offers, Notices, Message,
         Reports, Signals
<1>2. \A x \in Of("message") : "from" \in DOMAIN x <=> x \in Offers
  <2>1. ASSUME NEW x \in Offers PROVE "from" \in DOMAIN x
    BY <2>1 DEF Offers
  <2>2. ASSUME NEW x \in Notices PROVE "from" \notin DOMAIN x
    BY <2>2 DEF Notices, Message
  <2>3. ASSUME NEW x \in Reports PROVE "from" \notin DOMAIN x
    BY <2>3 DEF Reports
  <2> QED
    BY <1>1, <2>1, <2>2, <2>3
<1> PICK from : from = RequestsShown
  OBVIOUS
<1>3. shown' = [s \in DOMAIN shown \cup {c.session : c \in from} |->
                  IF \E c \in from : c.session = s
                  THEN (CHOOSE c \in from : c.session = s).from ELSE shown[s]]
  BY DEF AcceptBatch
<1>4. ASSUME Quiet PROVE shown' = shown
  <2>1. from = {}
    BY <1>2, <1>4 DEF Quiet, RequestsShown
  <2>2. shown = [s \in DOMAIN shown |-> shown[s]]
    BY DEF TypeOK, Partial
  <2>3. shown' = [s \in DOMAIN shown |-> shown[s]]
    BY <1>3, <2>1
  <2> QED
    BY <2>2, <2>3
<1>5. ASSUME NEW t \in Sessions, Offering(t)
      PROVE  shown' = Set(shown, t, tpa_by_target[t]) /\ timers' = timers \cup {t}
  <2> PICK f : f = tpa_by_target[t]
    OBVIOUS
  <2>1. outbox = {Schedule(t), Shown(t, f)}
    BY <1>5 DEF Offering
  <2>2. /\ Of("message") = {Shown(t, f)} /\ Of("schedule") = {Schedule(t)}
        /\ Of("cancel") = {}
    BY <2>1 DEF Schedule, Shown
  <2>3. Shown(t, f).session = t /\ Shown(t, f).from = f /\ "from" \in DOMAIN Shown(t, f)
    BY DEF Shown
  <2>4. from = {Shown(t, f)}
    BY <2>2, <2>3 DEF RequestsShown
  <2>5. (CHOOSE c \in from : c.session = t).from = f
    BY <2>3, <2>4
  <2>6. shown' = [s \in DOMAIN shown \cup {t} |-> IF s = t THEN f ELSE shown[s]]
    BY <1>3, <2>3, <2>4, <2>5
  <2>7. Schedule(t).session = t
    BY DEF Schedule
  <2>8. timers' = timers \cup {t}
    BY <2>2, <2>7 DEF AcceptBatch
  <2> QED
    BY <2>6, <2>8 DEF Set
<1>6. timers' \subseteq Sessions
  BY <1>1 DEF AcceptBatch, Signals, TypeOK
<1>7. ASSUME NEW t \in timers, Cancel(t) \notin outbox PROVE t \in timers'
  <2>1. ASSUME NEW c \in Of("cancel") PROVE c = Cancel(c.session)
    <3>1. c \in Signals /\ c.type = "cancel"
      BY <1>1
    <3> QED
      BY <3>1 DEF Signals, Cancel
  <2> QED
    BY <1>7, <2>1 DEF AcceptBatch
<1>8. calls' = calls \cup {x \in outbox : x \in Calls}
  BY <1>1 DEF AcceptBatch
<1> QED
  BY <1>4, <1>5, <1>6, <1>7, <1>8

LEMMA AcceptType ==
  ASSUME TypeOK, Offered, AcceptBatch
  PROVE  TypeOK'
<1>1. calls' \subseteq Calls /\ timers' \subseteq Sessions
  BY BatchEffects DEF TypeOK
<1>2. Partial(shown, Sessions, Sessions)'
  <2>1. CASE Quiet
    BY <2>1, BatchEffects DEF TypeOK
  <2>2. ASSUME NEW t \in Sessions, Offering(t) PROVE Partial(shown, Sessions, Sessions)'
    <3>1. tpa_by_target[t] \in Sessions
      BY <2>2 DEF Offering, TypeOK, TypedCopy, CallbackCorrelations, Partial
    <3> QED
      BY <2>2, <3>1, BatchEffects, SetPartial DEF TypeOK
  <2> QED
    BY <2>1, <2>2 DEF Offered
<1> QED
  BY <1>1, <1>2 DEF AcceptBatch, TypeOK, correlations, world, TypedCopy, CallbackCorrelations

LEMMA RejectType ==
  ASSUME TypeOK, RejectBatch
  PROVE  TypeOK'
BY DEF RejectBatch, TypeOK, world, TypedCopy, CallbackCorrelations

LEMMA RestartType ==
  ASSUME TypeOK, Restart
  PROVE  TypeOK'
BY EmptyPartial DEF Restart, TypeOK, world, TypedCopy, CallbackCorrelations

LEMMA WorldType ==
  ASSUME TypeOK, NEW s \in Sessions, Leave(s) \/ \E d \in Dimensions : Travel(s, d)
  PROVE  TypeOK'
<1>1. CASE Leave(s)
  BY <1>1 DEF Leave, TypeOK, correlations, TypedCopy, CallbackCorrelations
<1>2. ASSUME NEW d \in Dimensions, Travel(s, d) PROVE TypeOK'
  <2>1. where' \in [Sessions -> Dimensions]
    BY <1>2 DEF Travel, TypeOK
  <2> QED
    BY <1>2, <2>1 DEF Travel, TypeOK, correlations, TypedCopy, CallbackCorrelations
<1> QED
  BY <1>1, <1>2

LEMMA NextType ==
  ASSUME TypeOK, Sound, [Next]_vars
  PROVE  TypeOK'
<1>1. CASE UNCHANGED vars
  BY <1>1 DEF vars, correlations, world, TypeOK, TypedCopy, CallbackCorrelations
<1> QED
  BY <1>1, CommandType, DeliverType, EventType, AcceptType, RejectType, ExecuteType,
     RestartType, WorldType DEF Next, Sound

-----------------------------------------------------------------------------
(* One event: what on_events may do to the correlations *)

(* What is awaited changes by one request with a new number, and by those   *)
(* whose answer has been handled.                                           *)
Changes(old, new) ==
  /\ \E y : y.request = NewRequest /\ new \subseteq old \cup {y}
  /\ \A y \in old \ new : \E a \in answers \ answers' : Numbered(a) /\ a.request = y.request

Callback ==
  /\ outbox = {} /\ Snapshot /\ UNCHANGED <<store, calls>>
  /\ answers' \subseteq answers
  /\ Changes(pending_storage, pending_storage')
  /\ Changes(pending_queries, pending_queries')
  /\ Changes(pending_teleports, pending_teleports')
  /\ \E z : /\ \A x \in outbox' : x \in Calls => x = z
            /\ Numbered(z) => z.request = NewRequest
  /\ \A x \in outbox' : RequestOf(CallbackCorrelations, x)'
  /\ \A x \in outbox' : x.type = "cas" => ChangesOnce(x)

LEMMA CallbackCorrelated ==
  ASSUME TypeOK, Sound, Callback
  PROVE  Correlated'
<1> USE DEF CallbackCorrelations
<1>1. /\ \A y \in pending_storage \cup pending_queries \cup pending_teleports :
           y.request # NewRequest
      /\ \A x \in calls \cup answers : Numbered(x) => x.request # NewRequest
  BY NewRequestIsNew DEF Sound, Numbered
(* What the host still has was not handled. *)
<1>2. ASSUME NEW x \in calls \cup answers', Numbered(x), NEW a \in answers \ answers',
             Numbered(a)
      PROVE  a.request # x.request
  BY <1>2 DEF Sound, Distinct, Callback
<1>3. ASSUME NEW old, NEW new, Changes(old, new), NEW x \in calls \cup answers',
             Numbered(x), \A y \in old : y.request # NewRequest
      PROVE  /\ (\E y \in old : y.request = x.request) => \E y \in new : y.request = x.request
             /\ \A y \in new : y.request = x.request => y \in old
  <2>1. x.request # NewRequest
    BY <1>1, <1>3 DEF Callback
  <2> QED
    BY <1>2, <1>3, <2>1 DEF Changes
<1>4. ASSUME NEW x \in calls PROVE RequestOf(CallbackCorrelations, x)'
  <2>1. RequestOf(CallbackCorrelations, x)
    BY DEF Sound, Correlated, Keeps
  <2>2. CASE x.type = "get"
    BY <1>1, <1>3, <2>1, <2>2 DEF RequestOf, Callback, Numbered
  <2>3. CASE x.type = "online"
    BY <1>1, <1>3, <2>1, <2>3 DEF RequestOf, Callback, Numbered
  <2>4. CASE x.type = "teleport"
    BY <1>1, <1>3, <2>1, <2>4 DEF RequestOf, Callback, Numbered
  <2> QED
    BY <2>2, <2>3, <2>4 DEF RequestOf
<1>5. ASSUME NEW x \in answers' PROVE AnswerTo(CallbackCorrelations, x)'
  <2>1. AnswerTo(CallbackCorrelations, x) /\ store' = store
    BY DEF Sound, Correlated, Keeps, Callback
  <2>2. CASE x.type = "get"
    BY <1>1, <1>3, <2>1, <2>2 DEF AnswerTo, Callback, Numbered, Past
  <2>3. CASE x.type = "online"
    BY <1>1, <1>3, <2>1, <2>3 DEF AnswerTo, Callback, Numbered
  <2>4. CASE x.type = "teleport"
    BY <1>1, <1>3, <2>1, <2>4 DEF AnswerTo, Callback, Numbered
  <2> QED
    BY <2>2, <2>3, <2>4 DEF AnswerTo
<1>6. Keeps(CallbackCorrelations)'
  BY <1>4, <1>5 DEF Keeps, Callback
<1>7. ASSUME NEW c \in last_callback' PROVE Keeps(c)'
  <2>1. Keeps(c) /\ UNCHANGED <<store, calls>> /\ answers' \subseteq answers
    BY DEF Sound, Correlated, Callback, Snapshot
  <2> QED
    BY <2>1 DEF Keeps, RequestOf, AnswerTo, Past
<1> QED
  BY <1>6, <1>7 DEF Correlated, Callback

LEMMA CallbackDistinct ==
  ASSUME Sound, TypeOK', Callback
  PROVE  Distinct'
<1>1. \A x \in calls \cup answers : Numbered(x) => x.request # NewRequest
  BY NewRequestIsNew DEF Sound, Numbered
<1>2. \A x \in outbox' : Numbered(x) => x \in Calls
  BY DEF TypeOK, Numbered, Offers, Notices, Message, Reports, Signals
<1>3. PICK z : /\ \A x \in outbox' : x \in Calls => x = z
               /\ Numbered(z) => z.request = NewRequest
  BY DEF Callback
<1>4. \A x \in outbox' : Numbered(x) => x = z /\ x.request = NewRequest
  BY <1>2, <1>3
<1>5. calls' = calls /\ answers' \subseteq answers
  BY DEF Callback
<1> QED
  BY <1>1, <1>4, <1>5 DEF Sound, Distinct

LEMMA CallbackFinite ==
  ASSUME Sound, Callback
  PROVE  Finite'
<1>1. ASSUME NEW old, NEW new, Changes(old, new), IsFiniteSet(old) PROVE IsFiniteSet(new)
  <2> PICK y : new \subseteq old \cup {y}
    BY <1>1 DEF Changes
  <2>1. IsFiniteSet(old \cup {y})
    BY <1>1, FS_AddElement
  <2> QED
    BY <2>1, FS_Subset
<1>2. FiniteCopy(CallbackCorrelations)'
  BY <1>1 DEF Sound, Finite, FiniteCopy, CallbackCorrelations, Callback
<1>3. \A c \in last_callback' : FiniteCopy(c)
  BY DEF Sound, Finite, Callback, Snapshot
<1>4. IsFiniteSet({x \in outbox' : x \in Calls})
  <2> PICK z : \A x \in outbox' : x \in Calls => x = z
    BY DEF Callback
  <2>1. IsFiniteSet({z}) /\ {x \in outbox' : x \in Calls} \in SUBSET {z}
    BY FS_Singleton
  <2> QED
    BY <2>1, FS_Subset
<1>5. IsFiniteSet(calls') /\ IsFiniteSet(answers')
  BY FS_Subset DEF Sound, Finite, Callback
<1> QED
  BY <1>2, <1>3, <1>4, <1>5 DEF Finite

LEMMA CallbackSaving ==
  ASSUME Sound, Callback
  PROVE  Saving'
BY DEF Sound, Saving, Callback, ChangesOnce, OneChange

(* A read that is gone on with changes its register once. *)
LEMMA ChangedOnce ==
  ASSUME NEW current \in Storages, current.kind # "get", NEW places,
         NEW changed \in Changed(current, places)
  PROVE  OneChange(current.key, places, changed)
<1>1. current.name \in Names /\ current.old \in Dimensions
  BY DEF Storages
<1> QED
  BY <1>1 DEF Changed, OneChange

LEMMA NoChange == \A S : Changes(S, S)
<1>1. \E y : y.request = NewRequest
  <2>1. [request |-> NewRequest].request = NewRequest
    OBVIOUS
  <2> QED
    BY <2>1
<1> QED
  BY <1>1 DEF Changes

LEMMA CallbackSound ==
  ASSUME TypeOK, Sound, TypeOK', Callback, Offered'
  PROVE  Sound'
BY CallbackCorrelated, CallbackDistinct, CallbackFinite, CallbackSaving DEF Sound

(* An event that offers no teleport request. *)
LEMMA NothingOffered ==
  ASSUME Sound, outbox = {}, Snapshot, shown' = shown,
         timers' = timers \/ Requests(outbox') = {},
         \A x \in outbox' : x \notin Offers,
         \A t \in DOMAIN tpa_by_target' :
            /\ t \in DOMAIN tpa_by_target /\ tpa_by_target'[t] = tpa_by_target[t]
            /\ Cancel(t) \notin outbox'
            /\ t \in timers => t \in timers'
  PROVE  Offered'
<1>1. Live(CallbackCorrelations) /\ Timed(CallbackCorrelations)
  BY DEF Sound, Offered, Quiet, Offering
<1>2. Live(CallbackCorrelations)' /\ Timed(CallbackCorrelations)'
  BY <1>1 DEF Live, Timed, CallbackCorrelations
<1>3. \A c \in last_callback' : c = CallbackCorrelations
  BY DEF Snapshot
<1>4. \A c \in last_callback' : Live(c)' /\ (Requests(outbox') # {} => Timed(c)')
  BY <1>1, <1>3 DEF Live, Timed
<1> QED
  BY <1>2, <1>4 DEF Offered, Quiet

(* What begin_teleport adds is numbered anew and awaited. *)
LEMMA BeginTeleportAwaited ==
  ASSUME outbox = {}, NEW s, NEW d, NEW old, BeginTeleport(s, d, old)
  PROVE  /\ Changes(pending_teleports, pending_teleports')
         /\ \/ outbox' = {Message}
            \/ \E x : /\ outbox' = {x} /\ x.type = "teleport" /\ x.request = NewRequest
                      /\ \E y \in pending_teleports' : y.request = x.request
<1>1. CASE Told /\ UNCHANGED pending_teleports
  BY <1>1, NoChange DEF Told
<1> PICK n : n = NewRequest
  OBVIOUS
<1> PICK y : y = [request |-> n, session |-> s, old |-> old]
  OBVIOUS
<1>2. y.request = n
  OBVIOUS
<1> PICK x : x = [type |-> "teleport", request |-> n, session |-> s, dimension |-> d]
  OBVIOUS
<1>3. x.type = "teleport" /\ x.request = n
  OBVIOUS
<1>4. CASE pending_teleports' = pending_teleports \cup {y} /\ outbox' = {x}
  BY <1>2, <1>3, <1>4 DEF Changes
<1> QED
  BY <1>1, <1>4 DEF BeginTeleport

(* A batch that asks the host for nothing. *)
LEMMA NothingAsked ==
  ASSUME \A x \in outbox' : x.type \in {"message", "schedule", "cancel"}
  PROVE  /\ \E z : /\ \A x \in outbox' : x \in Calls => x = z
                   /\ Numbered(z) => z.request = NewRequest
         /\ \A x \in outbox' : RequestOf(CallbackCorrelations, x)'
         /\ \A x \in outbox' : x.type = "cas" => ChangesOnce(x)
<1>1. \A x \in outbox' : x \notin Calls
  BY DEF Calls, Gets, Writes, Onlines, Transfers
<1>2. [request |-> NewRequest].request = NewRequest
  OBVIOUS
<1> QED
  BY <1>1, <1>2 DEF RequestOf

LEMMA MessageOffersNothing ==
  /\ Message.type = "message" /\ Message \notin Offers
  /\ \A t : Cancel(t) # Message
BY DEF Message, Offers, Cancel

(* A batch that asks for one teleport at most. *)
LEMMA OnlyTransfers ==
  ASSUME \/ outbox' = {Message}
         \/ \E x : /\ outbox' = {x} /\ x.type = "teleport" /\ x.request = NewRequest
                   /\ \E y \in pending_teleports' : y.request = x.request
  PROVE  /\ \E z : /\ \A x \in outbox' : x \in Calls => x = z
                   /\ Numbered(z) => z.request = NewRequest
         /\ \A x \in outbox' : RequestOf(CallbackCorrelations, x)'
         /\ \A x \in outbox' : x.type = "cas" => ChangesOnce(x)
         /\ \A x \in outbox' : x \notin Offers
         /\ \A t : Cancel(t) \notin outbox'
<1>1. \A t : Cancel(t).type = "cancel"
  BY DEF Cancel
<1>2. CASE outbox' = {Message}
  <2>1. Message.type = "message" /\ Message \notin Offers
    BY MessageOffersNothing
  <2> QED
    BY <1>1, <1>2, <2>1, NothingAsked
<1>3. ASSUME NEW x, outbox' = {x}, x.type = "teleport", x.request = NewRequest,
             \E y \in pending_teleports' : y.request = x.request
      PROVE  /\ \E z : /\ \A w \in outbox' : w \in Calls => w = z
                       /\ Numbered(z) => z.request = NewRequest
             /\ \A w \in outbox' : RequestOf(CallbackCorrelations, w)'
             /\ \A w \in outbox' : w.type = "cas" => ChangesOnce(w)
             /\ \A w \in outbox' : w \notin Offers
             /\ \A t : Cancel(t) \notin outbox'
  <2>1. RequestOf(CallbackCorrelations, x)'
    BY <1>3 DEF RequestOf, CallbackCorrelations
  <2>2. x \notin Offers
    BY <1>3 DEF Offers
  <2> QED
    BY <1>1, <1>3, <2>1, <2>2
<1> QED
  BY <1>2, <1>3

LEMMA CommandSound ==
  ASSUME TypeOK, Sound, Command
  PROVE  Sound'
<1>1. TypeOK' /\ Snapshot
  BY CommandType DEF Command, Sound
<1>2. ASSUME NEW s \in Sessions, NEW command, Give(s, command),
             Changes(pending_storage, pending_storage'),
             Changes(pending_queries, pending_queries'),
             Changes(pending_teleports, pending_teleports'),
             \E z : /\ \A x \in outbox' : x \in Calls => x = z
                    /\ Numbered(z) => z.request = NewRequest,
             \A x \in outbox' : RequestOf(CallbackCorrelations, x)',
             \A x \in outbox' : x.type = "cas" => ChangesOnce(x),
             \A x \in outbox' : x \notin Offers,
             \A t \in DOMAIN tpa_by_target' :
                /\ t \in DOMAIN tpa_by_target /\ tpa_by_target'[t] = tpa_by_target[t]
                /\ Cancel(t) \notin outbox'
      PROVE  Sound'
  <2>1. outbox = {} /\ UNCHANGED <<timers, store, shown, calls, answers>>
    BY <1>2 DEF Give, Free
  <2>2. Callback
    BY <1>1, <1>2, <2>1 DEF Callback
  <2>3. Offered'
    BY <1>1, <1>2, <2>1, NothingOffered
  <2> QED
    BY <1>1, <2>2, <2>3, CallbackSound
<1>3. ASSUME NEW s \in Sessions, NEW kind \in {"set", "get", "delete"},
             NEW k \in Registers[s], NEW n \in Names, Place(s, kind, k, n)
      PROVE  Sound'
  <2> PICK r, d : r = NewRequest /\ d = where[s]
    OBVIOUS
  <2> PICK y : y = [request |-> r, session |-> s, key |-> k, kind |-> kind, name |-> n,
                    old |-> d]
    OBVIOUS
  <2> PICK x : x = [type |-> "get", request |-> r, key |-> k]
    OBVIOUS
  <2>1. y.request = r /\ y.key = k /\ x.type = "get" /\ x.request = r /\ x.key = k
    OBVIOUS
  <2>2. /\ Give(s, kind)
        /\ pending_storage' = pending_storage \cup {y} /\ outbox' = {x}
        /\ UNCHANGED <<pending_queries, pending_teleports, tpa_by_target, replies>>
    BY <1>3 DEF Place
  <2>3. Changes(pending_storage, pending_storage')
    BY <2>1, <2>2 DEF Changes
  <2>4. \A z \in pending_storage : z.request # r
    BY NewRequestIsNew DEF Sound
  <2>5. RequestOf(CallbackCorrelations, x)'
    BY <2>1, <2>2, <2>4 DEF RequestOf, CallbackCorrelations
  <2>6. x \notin Offers /\ \A t : Cancel(t) # x
    BY <2>1 DEF Offers, Cancel
  <2> QED
    BY <1>2, <2>1, <2>2, <2>3, <2>5, <2>6, NoChange
<1>4. ASSUME NEW kind, NEW s, NEW target, NEW from, Query(kind, s, target, from),
             NEW x, x = Online
      PROVE  /\ Changes(pending_queries, pending_queries')
             /\ UNCHANGED <<pending_storage, pending_teleports>>
             /\ x.request = NewRequest
             /\ RequestOf(CallbackCorrelations, x)'
             /\ x \notin Offers /\ x.type = "online"
  <2> PICK r, d : r = NewRequest /\ d = where[s]
    OBVIOUS
  <2> PICK y : y = [request |-> r, kind |-> kind, session |-> s, target |-> target,
                    at |-> d, from |-> from]
    OBVIOUS
  <2>1. y.request = r /\ x.type = "online" /\ x.request = r
    BY <1>4 DEF Online
  <2>2. /\ pending_queries' = pending_queries \cup {y}
        /\ UNCHANGED <<pending_storage, pending_teleports>>
    BY <1>4 DEF Query
  <2>3. Changes(pending_queries, pending_queries')
    BY <2>1, <2>2 DEF Changes
  <2>4. RequestOf(CallbackCorrelations, x)'
    BY <2>1, <2>2 DEF RequestOf, CallbackCorrelations
  <2>5. x \notin Offers
    BY <2>1 DEF Offers
  <2> QED
    BY <2>1, <2>2, <2>3, <2>4, <2>5
<1>5. ASSUME NEW s \in Sessions, NEW kind \in {"tpa", "msg"}, NEW target \in Sessions,
             Ask(kind, s, target)
      PROVE  Sound'
  <2> PICK x : x = Online
    OBVIOUS
  <2>1. /\ Give(s, kind) /\ Query(kind, s, target, {}) /\ outbox' = {x}
        /\ UNCHANGED tpa_by_target
    BY <1>5 DEF Ask
  <2>2. \A t : Cancel(t) # x
    BY <1>4, <2>1 DEF Cancel
  <2> QED
    BY <1>2, <1>4, <2>1, <2>2, NoChange
<1>6. ASSUME NEW s \in Sessions, Back(s)
      PROVE  Sound'
  <2>1. /\ Give(s, "back") /\ BeginTeleport(s, backs[s], where[s]) /\ outbox = {}
        /\ UNCHANGED <<pending_storage, pending_queries, tpa_by_target, replies>>
    BY <1>6 DEF Back, Give, Free
  <2>2. /\ Changes(pending_teleports, pending_teleports')
        /\ \/ outbox' = {Message}
           \/ \E x : /\ outbox' = {x} /\ x.type = "teleport" /\ x.request = NewRequest
                     /\ \E y \in pending_teleports' : y.request = x.request
    BY <2>1, BeginTeleportAwaited
  <2> QED
    BY <1>2, <2>1, <2>2, OnlyTransfers, NoChange
<1>7. ASSUME NEW s \in Sessions, TpaAccept(s)
      PROVE  Sound'
  <2> PICK x : x = Online
    OBVIOUS
  <2>1. /\ Give(s, "accept") /\ Query("accept", s, s, {tpa_by_target[s]})
        /\ outbox' = {Cancel(s), x} /\ tpa_by_target' = Drop(tpa_by_target, {s})
    BY <1>7 DEF TpaAccept
  <2>2. /\ Cancel(s) \notin Calls /\ Cancel(s) \notin Offers /\ Cancel(s).type = "cancel"
        /\ \A t : Cancel(t) = Cancel(s) => t = s
    BY DEF Cancel, Calls, Gets, Writes, Onlines, Transfers, Offers
  <2>3. \A t : Cancel(t) # x
    BY <1>4, <2>1 DEF Cancel
  <2>4. RequestOf(CallbackCorrelations, Cancel(s))'
    BY <2>2 DEF RequestOf
  <2>5. \A t \in DOMAIN tpa_by_target' :
           /\ t \in DOMAIN tpa_by_target /\ tpa_by_target'[t] = tpa_by_target[t] /\ t # s
    BY <2>1 DEF Drop
  <2>6. \A t \in DOMAIN tpa_by_target' : Cancel(t) \notin outbox'
    BY <2>1, <2>2, <2>3, <2>5
  <2>7. \A z \in outbox' : z \in Calls => z = x
    BY <2>1, <2>2
  <2> QED
    BY <1>2, <1>4, <2>1, <2>2, <2>4, <2>5, <2>6, <2>7, NoChange
<1>8. ASSUME NEW s \in Sessions, Reply(s)
      PROVE  Sound'
  <2>1. Give(s, "reply") /\ outbox' = {Message} /\ UNCHANGED correlations
    BY <1>8 DEF Reply, Told
  <2> QED
    BY <1>2, <2>1, MessageOffersNothing, NothingAsked, NoChange DEF correlations
<1> QED
  BY <1>3, <1>5, <1>6, <1>7, <1>8 DEF Command

(* What is awaited loses a request whose answer is handled. *)
LEMMA Handled ==
  ASSUME NEW answer \in answers, answers' = answers \ {answer}, Numbered(answer),
         NEW old, NEW current \in old, current.request = answer.request
  PROVE  Changes(old, old \ {current})
BY NoChange DEF Changes

LEMMA DeliverSound ==
  ASSUME TypeOK, Sound, Deliver
  PROVE  Sound'
<1> PICK answer \in answers :
      /\ outbox = {}
      /\ answers' = answers \ {answer}
      /\ \/ StorageGet(answer) \/ StorageCas(answer)
         \/ OnlinePlayers(answer) \/ Teleported(answer)
      /\ Snapshot
      /\ UNCHANGED <<world, timers, store, shown, calls>>
  BY DEF Deliver, Free
<1>1. TypeOK'
  BY DeliverType DEF Sound
<1>2. ASSUME Changes(pending_storage, pending_storage'),
             Changes(pending_queries, pending_queries'),
             Changes(pending_teleports, pending_teleports'),
             \E z : /\ \A x \in outbox' : x \in Calls => x = z
                    /\ Numbered(z) => z.request = NewRequest,
             \A x \in outbox' : RequestOf(CallbackCorrelations, x)',
             \A x \in outbox' : x.type = "cas" => ChangesOnce(x)
      PROVE  Callback
  BY <1>2 DEF Callback
<1>3. ASSUME Callback, tpa_by_target' = tpa_by_target,
             \A x \in outbox' : x \notin Offers, \A t : Cancel(t) \notin outbox'
      PROVE  Sound'
  <2>1. Offered'
    BY <1>3, NothingOffered
  <2> QED
    BY <1>1, <1>3, <2>1, CallbackSound
(* The event asks for nothing, or for a teleport. *)
<1>4. ASSUME Changes(pending_storage, pending_storage'),
             Changes(pending_queries, pending_queries'),
             \/ Told /\ UNCHANGED pending_teleports
             \/ \E s, d, old : BeginTeleport(s, d, old),
             tpa_by_target' = tpa_by_target
      PROVE  Sound'
  <2>1. /\ Changes(pending_teleports, pending_teleports')
        /\ \/ outbox' = {Message}
           \/ \E x : /\ outbox' = {x} /\ x.type = "teleport" /\ x.request = NewRequest
                     /\ \E y \in pending_teleports' : y.request = x.request
    BY <1>4, NoChange, BeginTeleportAwaited DEF Told
  <2> QED
    BY <1>2, <1>3, <1>4, <2>1, OnlyTransfers
<1>5. CASE StorageGet(answer)
  <2>1. Numbered(answer)
    BY <1>5 DEF StorageGet, Numbered
  <2> PICK current \in pending_storage :
        /\ current.request = answer.request
        /\ pending_storage' = pending_storage \ {current}
        /\ IF answer.outcome = "read" /\ Decodable(current.key, answer.record.value)
           THEN /\ \/ Lookup(current, answer.record.value)
                   \/ Change(current, answer.record)
                /\ UNCHANGED <<tpa_by_target, replies>>
           ELSE Nothing
        /\ UNCHANGED <<pending_queries, backs>>
    BY <1>5 DEF StorageGet
  <2>2. Changes(pending_storage, pending_storage') /\ Changes(pending_queries, pending_queries')
    BY <2>1, Handled, NoChange
  <2>3. CASE Nothing
    BY <1>4, <2>2, <2>3 DEF Nothing
  <2>4. ASSUME Lookup(current, answer.record.value), UNCHANGED <<tpa_by_target, replies>>
        PROVE  Sound'
    BY <1>4, <2>2, <2>4 DEF Lookup
  <2>5. ASSUME Change(current, answer.record), UNCHANGED <<tpa_by_target, replies>>
        PROVE  Sound'
    <3>1. CASE Told
      BY <1>4, <2>2, <2>5, <3>1 DEF Change
    <3>2. ASSUME NEW changed \in Changed(current, answer.record.value),
                 NEW x, x = [type |-> "cas", save |-> <<current.key, answer.record.version>>,
                             key |-> current.key, expected |-> answer.record.version,
                             value |-> changed],
                 outbox' = {x}
          PROVE  Sound'
      <4>1. /\ x.type = "cas" /\ x.key = current.key /\ x.value = changed
            /\ x.expected = answer.record.version
        BY <3>2
      <4>2. ~ Numbered(x) /\ x \notin Offers /\ \A t : Cancel(t) # x
        BY <4>1 DEF Numbered, Offers, Cancel
      <4>3. RequestOf(CallbackCorrelations, x)'
        BY <4>1 DEF RequestOf
      <4>4. Past(current.key, answer.record)
        BY <1>5 DEF Sound, Correlated, Keeps, AnswerTo, StorageGet, CallbackCorrelations
      <4>5. OneChange(current.key, answer.record.value, changed)
        BY <2>5, <3>2, ChangedOnce DEF Change, TypeOK, TypedCopy, CallbackCorrelations
      <4>6. ChangesOnce(x)
        BY <4>1, <4>4, <4>5 DEF ChangesOnce, Past
      <4>7. Changes(pending_teleports, pending_teleports')
        BY <2>5, NoChange DEF Change
      <4> QED
        BY <1>2, <1>3, <2>2, <2>5, <3>2, <4>2, <4>3, <4>6, <4>7
    <3> QED
      BY <2>5, <3>1, <3>2 DEF Change
  <2> QED
    BY <2>3, <2>4, <2>5
<1>6. CASE StorageCas(answer)
  <2>1. \A x \in outbox' : \/ x = Message
                           \/ \E n, places :
                                 x = [type |-> "message", saved |-> n, places |-> places]
    BY <1>6 DEF StorageCas
  <2>2. \A n, places : [type |-> "message", saved |-> n, places |-> places] \notin Offers
    BY DEF Offers
  <2>3. \A x \in outbox' : x.type = "message" /\ x \notin Offers
    BY <2>1, <2>2, MessageOffersNothing
  <2>4. \A t : Cancel(t) \notin outbox'
    BY <2>3 DEF Cancel
  <2>5. UNCHANGED <<pending_storage, pending_queries, pending_teleports, tpa_by_target>>
    BY <1>6 DEF StorageCas
  <2> QED
    BY <1>2, <1>3, <2>3, <2>4, <2>5, NothingAsked, NoChange
<1>7. CASE OnlinePlayers(answer)
  <2>1. Numbered(answer)
    BY <1>7 DEF OnlinePlayers, Numbered
  <2> PICK current \in pending_queries :
        /\ current.request = answer.request
        /\ pending_queries' = pending_queries \ {current}
        /\ \/ Accepted(current, answer.players)
           \/ Requested(current) \/ Texted(current)
           \/ Told /\ UNCHANGED <<pending_teleports, tpa_by_target, replies>>
        /\ UNCHANGED <<pending_storage, pending_saves, backs>>
    BY <1>7 DEF OnlinePlayers
  <2>2. Changes(pending_storage, pending_storage') /\ Changes(pending_queries, pending_queries')
    BY <2>1, Handled, NoChange
  <2>3. CASE Told /\ UNCHANGED <<pending_teleports, tpa_by_target, replies>>
    BY <1>4, <2>2, <2>3
  <2>4. CASE Accepted(current, answer.players)
    BY <1>4, <2>2, <2>4 DEF Accepted
  <2>5. CASE Texted(current)
    BY <1>4, <2>2, <2>5 DEF Texted
  <2>6. CASE Requested(current)
    <3> PICK t, s : t = current.target /\ s = current.session
      OBVIOUS
    <3>1. /\ tpa_by_target' = Set(tpa_by_target, t, s)
          /\ outbox' = {Schedule(t), Shown(t, s)}
          /\ UNCHANGED pending_teleports
      BY <2>6 DEF Requested
    <3>2. t \in Sessions
      BY DEF TypeOK, TypedCopy, CallbackCorrelations, Queries
    <3>3. /\ DOMAIN tpa_by_target' = DOMAIN tpa_by_target \cup {t}
          /\ tpa_by_target'[t] = s
          /\ \A u \in DOMAIN tpa_by_target' \ {t} : tpa_by_target'[u] = tpa_by_target[u]
      BY <3>1 DEF Set
    <3>4. Callback
      <4>1. \A x \in outbox' : x.type \in {"message", "schedule", "cancel"}
        BY <3>1 DEF Schedule, Shown
      <4> QED
        BY <1>2, <2>2, <3>1, <4>1, NothingAsked, NoChange
    <3>5. Live(CallbackCorrelations) /\ Timed(CallbackCorrelations)
      BY DEF Sound, Offered, Quiet, Offering
    <3>6. Offering(t)'
      BY <3>1, <3>3, <3>5 DEF Offering, Live, Timed, CallbackCorrelations, Schedule, Shown
    <3>7. \A c \in last_callback' : Live(c)' /\ Timed(c)'
      BY <3>5 DEF Snapshot, Live, Timed
    <3> QED
      BY <1>1, <3>2, <3>4, <3>6, <3>7, CallbackSound DEF Offered
  <2> QED
    BY <2>3, <2>4, <2>5, <2>6
<1>8. CASE Teleported(answer)
  <2>1. Numbered(answer)
    BY <1>8 DEF Teleported, Numbered
  <2> PICK current \in pending_teleports :
        /\ current.request = answer.request
        /\ pending_teleports' = pending_teleports \ {current}
        /\ outbox' = {Message}
        /\ UNCHANGED <<pending_storage, pending_saves, pending_queries, tpa_by_target, replies>>
    BY <1>8 DEF Teleported, Told
  <2>2. Changes(pending_teleports, pending_teleports')
    BY <2>1, Handled
  <2> QED
    BY <1>2, <1>3, <2>2, MessageOffersNothing, NothingAsked, NoChange
<1> QED
  BY <1>5, <1>6, <1>7, <1>8

LEMMA EventSound ==
  ASSUME TypeOK, Sound, NEW s \in Sessions,
         TimerFired(s) \/ PlayerDied(s) \/ PlayerLeft(s)
  PROVE  Sound'
<1>1. /\ outbox = {} /\ Snapshot /\ TypeOK'
      /\ UNCHANGED <<pending_storage, pending_queries, pending_teleports, store, shown,
                     calls, answers>>
  BY EventType DEF TimerFired, PlayerDied, PlayerLeft, Free, correlations
<1>2. ASSUME \A x \in outbox' : x.type \in {"message", "schedule", "cancel"}
      PROVE  Callback
  BY <1>1, <1>2, NothingAsked, NoChange DEF Callback
<1>3. CASE TimerFired(s)
  <2>1. \A t \in DOMAIN tpa_by_target' :
           /\ t \in DOMAIN tpa_by_target /\ tpa_by_target'[t] = tpa_by_target[t] /\ t # s
    BY <1>3 DEF TimerFired, Drop
  <2>2. outbox' \subseteq {Message} /\ timers' = timers \ {s}
    BY <1>3 DEF TimerFired
  <2>3. Requests(outbox') = {}
    BY <2>2 DEF Requests, Message
  <2>4. Offered'
    BY <1>1, <2>1, <2>2, <2>3, MessageOffersNothing, NothingOffered
  <2> QED
    BY <1>1, <1>2, <2>2, <2>4, MessageOffersNothing, CallbackSound
<1>4. CASE PlayerDied(s)
  <2>1. outbox' = {} /\ UNCHANGED <<timers, tpa_by_target>>
    BY <1>1, <1>4 DEF PlayerDied, correlations
  <2>2. Offered'
    BY <1>1, <2>1, NothingOffered
  <2> QED
    BY <1>1, <1>2, <2>1, <2>2, CallbackSound
<1>5. CASE PlayerLeft(s)
  <2> PICK withdrawn :
        /\ withdrawn = {t \in DOMAIN tpa_by_target : t = s \/ tpa_by_target[t] = s}
        /\ tpa_by_target' = Drop(tpa_by_target, withdrawn)
        /\ outbox' = {Cancel(t) : t \in withdrawn \cup {s}}
        /\ UNCHANGED timers
    BY <1>5 DEF PlayerLeft
  <2>1. \A t \in DOMAIN tpa_by_target' :
           /\ t \in DOMAIN tpa_by_target /\ tpa_by_target'[t] = tpa_by_target[t]
           /\ t \notin withdrawn \cup {s}
    BY DEF Drop
  <2>2. /\ \A t, u : Cancel(t) = Cancel(u) => t = u
        /\ \A t : Cancel(t).type = "cancel" /\ Cancel(t) \notin Offers
    BY DEF Cancel, Offers
  <2>3. \A t \in DOMAIN tpa_by_target' : Cancel(t) \notin outbox'
    BY <2>1, <2>2
  <2>4. Offered'
    BY <1>1, <2>1, <2>2, <2>3, NothingOffered
  <2> QED
    BY <1>1, <1>2, <2>2, <2>4, CallbackSound
<1> QED
  BY <1>3, <1>4, <1>5

-----------------------------------------------------------------------------
(* The host *)

LEMMA AcceptSound ==
  ASSUME TypeOK, Sound, AcceptBatch
  PROVE  Sound'
<1>1. /\ calls' = calls \cup {x \in outbox : x \in Calls}
      /\ outbox' = {} /\ last_callback' = {} /\ UNCHANGED <<correlations, store, answers>>
  BY BatchEffects DEF AcceptBatch
<1>2. Correlated'
  BY <1>1 DEF Sound, Correlated, Keeps, RequestOf, AnswerTo, Past, CallbackCorrelations,
              correlations
<1>3. Distinct'
  BY <1>1 DEF Sound, Distinct
<1>4. Finite'
  <2>1. IsFiniteSet(calls')
    BY <1>1, FS_Union DEF Sound, Finite
  <2>2. {x \in outbox' : x \in Calls} = {}
    BY <1>1
  <2> QED
    BY <1>1, <2>1, <2>2, FS_EmptySet DEF Sound, Finite, FiniteCopy, CallbackCorrelations,
                                         correlations
<1>5. Live(CallbackCorrelations)' /\ Timed(CallbackCorrelations)'
  <2>1. tpa_by_target' = tpa_by_target
    BY <1>1 DEF correlations
  <2>2. CASE Quiet
    BY <2>1, <2>2, BatchEffects DEF Quiet, Live, Timed, CallbackCorrelations
  <2>3. ASSUME NEW t \in Sessions, Offering(t)
        PROVE  Live(CallbackCorrelations)' /\ Timed(CallbackCorrelations)'
    <3>1. shown' = Set(shown, t, tpa_by_target[t]) /\ timers' = timers \cup {t}
      BY <2>3, BatchEffects
    <3> QED
      BY <2>1, <2>3, <3>1 DEF Offering, Live, Timed, CallbackCorrelations, Set
  <2> QED
    BY <2>2, <2>3 DEF Sound, Offered
<1>6. Offered'
  BY <1>1, <1>5 DEF Offered, Quiet
<1>7. Saving'
  BY <1>1 DEF Sound, Saving, ChangesOnce, OneChange
<1> QED
  BY <1>2, <1>3, <1>4, <1>6, <1>7 DEF Sound

LEMMA RejectSound ==
  ASSUME Sound, RejectBatch
  PROVE  Sound'
<1> PICK previous \in last_callback :
      /\ pending_storage' = previous.pending_storage
      /\ pending_saves' = previous.pending_saves
      /\ pending_queries' = previous.pending_queries
      /\ pending_teleports' = previous.pending_teleports
      /\ tpa_by_target' = previous.tpa_by_target
      /\ replies' = previous.replies
  BY DEF RejectBatch
<1>1. /\ outbox' = {} /\ last_callback' = {}
      /\ UNCHANGED <<timers, store, shown, calls, answers>>
  BY DEF RejectBatch
<1>2. Keeps(previous) /\ FiniteCopy(previous) /\ Live(previous) /\ Timed(previous)
  <2>1. RepliesAccepted => Requests(outbox) # {}
    BY DEF RejectBatch, Rejectable, RepliesAccepted
  <2> QED
    BY <2>1 DEF Sound, Correlated, Finite, Offered, Timed
<1>3. Correlated'
  BY <1>1, <1>2 DEF Correlated, Keeps, RequestOf, AnswerTo, Past, CallbackCorrelations
<1>4. Distinct'
  BY <1>1 DEF Sound, Distinct
<1>5. Finite'
  <2>1. {x \in outbox' : x \in Calls} = {}
    BY <1>1
  <2> QED
    BY <1>1, <1>2, <2>1, FS_EmptySet DEF Sound, Finite, FiniteCopy, CallbackCorrelations
<1>6. Offered'
  BY <1>1, <1>2 DEF Offered, Quiet, Live, Timed, CallbackCorrelations
<1>7. Saving'
  BY <1>1 DEF Sound, Saving, ChangesOnce, OneChange
<1> QED
  BY <1>3, <1>4, <1>5, <1>6, <1>7 DEF Sound

(* A register is left alone, or takes the one change of the write that      *)
(* expected it.                                                             *)
LEMMA ExecuteStores ==
  ASSUME TypeOK, Sound, Execute
  PROVE  /\ store' \in [Keys -> Records]
         /\ \/ store' = store
            \/ \E k \in Keys : \E places \in Places :
                  /\ store' = [store EXCEPT ![k] = Written(store[k], places)]
                  /\ OneChange(k, store[k].value, places)
<1>1. store' \in [Keys -> Records]
  BY ExecuteType DEF TypeOK
<1> PICK call \in calls :
      ExecuteGet(call) \/ ExecuteCas(call) \/ ExecuteOnline(call) \/ ExecuteTeleport(call)
  BY DEF Execute
<1>2. CASE ExecuteCas(call)
  <2>1. call \in Writes /\ call.type = "cas"
    BY <1>2 DEF ExecuteCas, TypeOK, Calls, Gets, Onlines, Transfers
  <2>2. call.key \in Keys /\ call.value \in Places
    BY <2>1 DEF Writes
  <2> PICK x \in CasExecutions(store[call.key], call.expected, call.value) :
        store' = [store EXCEPT ![call.key] = x.record]
    BY <1>2 DEF ExecuteCas
  <2>3. \/ x.record = store[call.key]
        \/ /\ x.record = Written(store[call.key], call.value)
           /\ store[call.key].version = call.expected
    BY WriteOutcomes
  <2>4. CASE x.record = store[call.key]
    BY <1>1, <2>4 DEF TypeOK
  <2>5. CASE /\ x.record = Written(store[call.key], call.value)
             /\ store[call.key].version = call.expected
    <3>1. OneChange(call.key, store[call.key].value, call.value)
      BY <2>1, <2>5 DEF Sound, Saving, ChangesOnce
    <3> QED
      BY <1>1, <2>2, <2>5, <3>1
  <2> QED
    BY <2>3, <2>4, <2>5
<1> QED
  BY <1>1, <1>2 DEF ExecuteGet, ExecuteOnline, ExecuteTeleport

LEMMA StoreAdvances ==
  ASSUME TypeOK, Sound, Execute, NEW k \in Keys
  PROVE  /\ store[k].version \in Nat
         /\ store'[k] = store[k] \/ store'[k].version = store[k].version + 1
<1>1. store \in [Keys -> Records] /\ store[k].version \in Nat
  BY DEF TypeOK, Records
<1>2. ASSUME NEW j \in Keys, NEW places,
             store' = [store EXCEPT ![j] = Written(store[j], places)]
      PROVE  store'[k] = store[k] \/ store'[k].version = store[k].version + 1
  BY <1>1, <1>2 DEF Written
<1> QED
  BY <1>1, <1>2, ExecuteStores

LEMMA PastStaysPast ==
  ASSUME TypeOK, Sound, Execute, NEW k \in Keys, NEW record \in Records, Past(k, record)
  PROVE  Past(k, record)'
<1>1. record.version \in Nat
  BY DEF Records
<1> QED
  BY <1>1, StoreAdvances DEF Past

(* Executing a call leaves its answer. *)
LEMMA ExecuteAnswers ==
  ASSUME Execute
  PROVE  \E call \in calls : \E a :
            /\ calls' = calls \ {call} /\ answers' = answers \cup {a}
            /\ a.type = call.type /\ (Numbered(call) => a.request = call.request)
            /\ call.type = "get" => a.record = store[call.key] /\ store' = store
            /\ UNCHANGED <<correlations, last_callback, timers, shown, outbox>>
<1> PICK call \in calls :
      /\ calls' = calls \ {call}
      /\ ExecuteGet(call) \/ ExecuteCas(call) \/ ExecuteOnline(call) \/ ExecuteTeleport(call)
      /\ UNCHANGED <<correlations, last_callback, timers, shown, outbox>>
  BY DEF Execute
<1>1. CASE ExecuteGet(call)
  <2> PICK outcome :
        answers' = answers \cup {[type |-> "get", request |-> call.request,
                                  outcome |-> outcome, record |-> store[call.key]]}
    BY <1>1 DEF ExecuteGet
  <2> PICK a : a = [type |-> "get", request |-> call.request,
                    outcome |-> outcome, record |-> store[call.key]]
    OBVIOUS
  <2>1. a.type = "get" /\ a.request = call.request /\ a.record = store[call.key]
    OBVIOUS
  <2> QED
    BY <1>1, <2>1 DEF ExecuteGet
<1>2. CASE ExecuteCas(call)
  <2> PICK outcome :
        answers' = answers \cup {[type |-> "cas", save |-> call.save,
                                  outcome |-> outcome, value |-> call.value]}
    BY <1>2 DEF ExecuteCas
  <2> PICK a : a = [type |-> "cas", save |-> call.save,
                    outcome |-> outcome, value |-> call.value]
    OBVIOUS
  <2>1. a.type = "cas"
    OBVIOUS
  <2> QED
    BY <1>2, <2>1 DEF ExecuteCas, Numbered
<1>3. CASE ExecuteOnline(call)
  <2> PICK players :
        answers' = answers \cup {[type |-> "online", request |-> call.request,
                                  players |-> players]}
    BY <1>3 DEF ExecuteOnline
  <2> PICK a : a = [type |-> "online", request |-> call.request, players |-> players]
    OBVIOUS
  <2>1. a.type = "online" /\ a.request = call.request
    OBVIOUS
  <2> QED
    BY <1>3, <2>1 DEF ExecuteOnline
<1>4. CASE ExecuteTeleport(call)
  <2> PICK outcome :
        answers' = answers \cup {[type |-> "teleport", request |-> call.request,
                                  outcome |-> outcome]}
    BY <1>4 DEF ExecuteTeleport
  <2> PICK a : a = [type |-> "teleport", request |-> call.request, outcome |-> outcome]
    OBVIOUS
  <2>1. a.type = "teleport" /\ a.request = call.request
    OBVIOUS
  <2> QED
    BY <1>4, <2>1 DEF ExecuteTeleport
<1> QED
  BY <1>1, <1>2, <1>3, <1>4

LEMMA ExecuteKeeps ==
  ASSUME TypeOK, Sound, Execute, NEW c, TypedCopy(c), Keeps(c)
  PROVE  Keeps(c)'
<1> PICK call, a :
      /\ call \in calls
      /\ calls' = calls \ {call} /\ answers' = answers \cup {a}
      /\ a.type = call.type /\ (Numbered(call) => a.request = call.request)
      /\ call.type = "get" => a.record = store[call.key] /\ store' = store
  BY ExecuteAnswers
<1>1. \A x \in calls' : RequestOf(c, x)'
  BY DEF Keeps, RequestOf
<1>2. ASSUME NEW x \in answers PROVE AnswerTo(c, x)'
  <2>1. AnswerTo(c, x)
    BY DEF Keeps
  <2>2. ASSUME x.type = "get", NEW y \in c.pending_storage, y.request = x.request
        PROVE  Past(y.key, x.record)'
    <3>1. y.key \in Keys
      BY DEF TypedCopy, Storages
    <3>2. x.record \in Records
      BY <2>2 DEF TypeOK, Answers
    <3> QED
      BY <2>1, <2>2, <3>1, <3>2, PastStaysPast DEF AnswerTo
  <2> QED
    BY <2>1, <2>2 DEF AnswerTo
<1>3. AnswerTo(c, a)'
  <2>1. RequestOf(c, call)
    BY DEF Keeps
  <2>2. CASE call.type = "get"
    <3>1. ASSUME NEW y \in c.pending_storage, y.request = a.request
          PROVE  Past(y.key, a.record)'
      <4>1. y.key = call.key /\ y.key \in Keys
        BY <2>1, <2>2, <3>1 DEF RequestOf, Numbered, TypedCopy, Storages
      <4>2. store[y.key].version \in Nat
        BY <4>1, StoreAdvances
      <4> QED
        BY <2>2, <4>1, <4>2 DEF Past
    <3> QED
      BY <2>1, <2>2, <3>1 DEF AnswerTo, RequestOf, Numbered
  <2>3. CASE call.type # "get"
    BY <2>1, <2>3 DEF AnswerTo, RequestOf, Numbered
  <2> QED
    BY <2>2, <2>3
<1> QED
  BY <1>1, <1>2, <1>3 DEF Keeps

LEMMA ExecuteSound ==
  ASSUME TypeOK, Sound, Execute
  PROVE  Sound'
<1> PICK call, a :
      /\ call \in calls
      /\ calls' = calls \ {call} /\ answers' = answers \cup {a}
      /\ a.type = call.type /\ (Numbered(call) => a.request = call.request)
      /\ UNCHANGED <<correlations, last_callback, timers, shown, outbox>>
  BY ExecuteAnswers
<1>1. CallbackCorrelations' = CallbackCorrelations
  BY DEF CallbackCorrelations, correlations
<1>2. Correlated'
  <2> PICK c : c = CallbackCorrelations
    OBVIOUS
  <2>1. Keeps(c)' /\ c = CallbackCorrelations'
    BY <1>1, ExecuteKeeps DEF Sound, Correlated, TypeOK
  <2>2. Keeps(CallbackCorrelations)'
    BY <2>1 DEF Keeps
  <2>3. \A d \in last_callback' : Keeps(d)'
    BY ExecuteKeeps DEF Sound, Correlated, TypeOK
  <2>4. \A x \in outbox' : RequestOf(CallbackCorrelations, x)'
    BY <1>1 DEF Sound, Correlated, RequestOf
  <2> QED
    BY <2>2, <2>3, <2>4 DEF Correlated
<1>3. Distinct'
  <2>1. Numbered(a) <=> Numbered(call)
    BY DEF Numbered
  <2> QED
    BY <2>1 DEF Sound, Distinct
<1>4. Finite'
  <2>1. IsFiniteSet(calls') /\ IsFiniteSet(answers')
    BY FS_Subset, FS_AddElement DEF Sound, Finite
  <2> QED
    BY <1>1, <2>1 DEF Sound, Finite, FiniteCopy
<1>5. Offered'
  BY <1>1 DEF Sound, Offered, Quiet, Offering, Live, Timed, correlations,
              CallbackCorrelations
<1>6. Saving'
  <2> SUFFICES ASSUME NEW x \in outbox \cup calls, x.type = "cas" PROVE ChangesOnce(x)'
    BY DEF Saving
  <2>1. x \in Writes
    BY DEF TypeOK, Calls, Gets, Onlines, Transfers, Offers, Notices, Message, Reports, Signals
  <2>2. x.key \in Keys /\ x.expected \in Nat /\ ChangesOnce(x)
    BY <2>1 DEF Writes, Sound, Saving
  <2>3. \/ store'[x.key] = store[x.key]
        \/ store'[x.key].version = store[x.key].version + 1
    BY <2>2, StoreAdvances
  <2>4. store[x.key].version \in Nat
    BY <2>2, StoreAdvances
  <2>5. CASE store'[x.key] = store[x.key]
    BY <2>2, <2>5 DEF ChangesOnce, OneChange
  <2>6. CASE store'[x.key].version = store[x.key].version + 1
    <3>1. x.expected < store'[x.key].version
      BY <2>2, <2>4, <2>6 DEF ChangesOnce
    <3>2. store'[x.key].version \in Nat
      BY <2>4, <2>6
    <3> QED
      BY <2>2, <3>1, <3>2 DEF ChangesOnce
  <2> QED
    BY <2>3, <2>5, <2>6
<1> QED
  BY <1>2, <1>3, <1>4, <1>5, <1>6 DEF Sound

(* Nothing is under way in another instance. *)
LEMMA NothingUnderWay ==
  ASSUME pending_storage = {}, pending_queries = {}, pending_teleports = {},
         tpa_by_target = <<>>, outbox = {}, calls = {}, answers = {}, last_callback = {}
  PROVE  Sound
<1>1. DOMAIN tpa_by_target = {}
  OBVIOUS
<1>2. Correlated /\ Distinct /\ Saving
  BY DEF Correlated, Keeps, Distinct, Saving
<1>3. Finite
  <2>1. {x \in outbox : x \in Calls} = {}
    OBVIOUS
  <2> QED
    BY <2>1, FS_EmptySet DEF Finite, FiniteCopy, CallbackCorrelations
<1>4. Offered
  BY <1>1 DEF Offered, Quiet, Live, Timed, CallbackCorrelations
<1> QED
  BY <1>2, <1>3, <1>4 DEF Sound

LEMMA RestartSound == ASSUME Restart PROVE Sound'
<1>1. /\ pending_storage' = {} /\ pending_queries' = {} /\ pending_teleports' = {}
      /\ tpa_by_target' = <<>> /\ outbox' = {} /\ calls' = {} /\ answers' = {}
      /\ last_callback' = {}
  BY DEF Restart
<1>2. DOMAIN tpa_by_target' = {}
  BY <1>1
<1>3. Correlated' /\ Distinct' /\ Saving'
  BY <1>1 DEF Correlated, Keeps, Distinct, Saving
<1>4. Finite'
  <2>1. {x \in outbox' : x \in Calls} = {}
    BY <1>1
  <2> QED
    BY <1>1, <2>1, FS_EmptySet DEF Finite, FiniteCopy, CallbackCorrelations
<1>5. Offered'
  BY <1>1, <1>2 DEF Offered, Quiet, Live, Timed, CallbackCorrelations
<1> QED
  BY <1>3, <1>4, <1>5 DEF Sound

LEMMA FrameSound ==
  ASSUME Sound, UNCHANGED <<correlations, last_callback, timers, store, shown, outbox,
                            calls, answers>>
  PROVE  Sound'
<1> USE DEF correlations, CallbackCorrelations
<1>1. Correlated'
  BY DEF Sound, Correlated, Keeps, RequestOf, AnswerTo, Past
<1>2. Distinct' /\ Finite'
  BY DEF Sound, Distinct, Finite, FiniteCopy
<1>3. Offered'
  BY DEF Sound, Offered, Quiet, Offering, Live, Timed
<1>4. Saving'
  BY DEF Sound, Saving, ChangesOnce, OneChange
<1> QED
  BY <1>1, <1>2, <1>3, <1>4 DEF Sound

LEMMA NextSound ==
  ASSUME TypeOK, Sound, [Next]_vars
  PROVE  Sound'
<1>1. ASSUME NEW s \in Sessions, Leave(s) \/ \E d \in Dimensions : Travel(s, d)
      PROVE  Sound'
  BY <1>1, FrameSound DEF Leave, Travel
<1>2. CASE UNCHANGED vars
  BY <1>2, FrameSound DEF vars
<1> QED
  BY <1>1, <1>2, CommandSound, DeliverSound, EventSound, AcceptSound, RejectSound,
     ExecuteSound, RestartSound DEF Next

LEMMA InitSound == Init => TypeOK /\ Sound
<1> SUFFICES ASSUME Init PROVE TypeOK /\ Sound
  OBVIOUS
<1>1. store \in [Keys -> Records] /\ where \in [Sessions -> Dimensions]
  BY InputsAssumption DEF Init, Records
<1>2. TypeOK
  BY <1>1, EmptyPartial DEF Init, TypeOK, TypedCopy, CallbackCorrelations
<1>3. Sound
  BY NothingUnderWay DEF Init
<1> QED
  BY <1>2, <1>3

(***************************************************************************)
(* The inductive invariant: what the host has is awaited by the present    *)
(* correlations and by the copy for a refusal, under numbers of its own;   *)
(* the requests that can be accepted were shown, and have their timers if  *)
(* the host accepts every message (Timed); and every write is one change   *)
(* of the register it expects.                                             *)
(***************************************************************************)
THEOREM AlwaysSound == Spec => [](TypeOK /\ Sound)
<1>1. TypeOK /\ Sound /\ [Next]_vars => TypeOK' /\ Sound'
  BY NextType, NextSound
<1> QED
  BY <1>1, InitSound, PTL DEF Spec

(* on_events restores a copy of the correlations when a batch is refused,   *)
(* and still every request with the host finds what awaits it.              *)
THEOREM AnswerIsAwaitedAlways == Spec => []AnswerIsAwaited
<1>1. Sound => AnswerIsAwaited
  BY DEF Sound, Correlated, Keeps, RequestOf, AnswerTo, AnswerIsAwaited, CallbackCorrelations
<1> QED
  BY <1>1, AlwaysSound, PTL

(* A teleport request that can be accepted is the one its target was shown  *)
(* last, whatever batch the host refuses.                                   *)
THEOREM RequestIsShownAlways == Spec => []RequestIsShown
<1>1. Sound => RequestIsShown
  BY DEF Sound, Offered, Quiet, Offering, Live, RequestIsShown, CallbackCorrelations
<1> QED
  BY <1>1, AlwaysSound, PTL

(* Its timer is set or about to be, too, if the host accepts every batch of *)
(* messages: the one that tells of an expiry puts the request back when it  *)
(* is refused, and the timer has fired.                                     *)
THEOREM RequestIsLiveAlways ==
  ASSUME RepliesAccepted PROVE Spec => []RequestIsLive
<1>1. TypeOK /\ Sound => RequestIsLive
  <2> SUFFICES ASSUME Sound, NEW t \in DOMAIN tpa_by_target, RequestIsShown
               PROVE  t \in timers \/ Schedule(t) \in outbox
    BY DEF RequestIsLive, Sound, Offered, Quiet, Offering, Live, RequestIsShown,
           CallbackCorrelations
  <2>1. CASE Quiet
    BY <2>1 DEF Quiet, Timed, CallbackCorrelations
  <2>2. ASSUME NEW u \in Sessions, Offering(u) PROVE t \in timers \/ Schedule(t) \in outbox
    BY <2>2 DEF Offering
  <2> QED
    BY <2>1, <2>2 DEF Sound, Offered
<1> QED
  BY <1>1, AlwaysSound, PTL

-----------------------------------------------------------------------------
(* The stored places implement Atlas *)

AtlasOf(s) == [k \in Keys |-> s[k].value]

LEMMA SameCardinality == \A S : A!Cardinality(S) = Cardinality(S)
BY DEF A!Cardinality, Cardinality

LEMMA WriteIsAtlasStep ==
  ASSUME TypeOK, NEW k \in Keys, NEW places \in Places,
         store' = [store EXCEPT ![k] = Written(store[k], places)],
         OneChange(k, store[k].value, places)
  PROVE  A!Next
<1> PICK before, after : before = AtlasOf(store) /\ after = AtlasOf(store')
  OBVIOUS
<1>1. before[k] = store[k].value
  BY DEF AtlasOf
<1>2. after = [before EXCEPT ![k] = places]
  <2>1. store \in [Keys -> Records]
    BY DEF TypeOK
  <2>2. \A j \in Keys : after[j] = IF j = k THEN places ELSE before[j]
    BY <2>1 DEF AtlasOf, Written
  <2> QED
    BY <2>2 DEF AtlasOf
<1> PICK n \in Names :
      \/ n \in DOMAIN before[k] /\ places = Drop(before[k], {n})
      \/ /\ n \in DOMAIN before[k] \/ Cardinality(DOMAIN before[k]) < Limit[k]
         /\ \E d \in Dimensions : places = Set(before[k], n, d)
  BY <1>1 DEF OneChange
<1>3. CASE n \in DOMAIN before[k] /\ places = Drop(before[k], {n})
  <2>1. A!DeletePlace(k, n)
    BY <1>2, <1>3 DEF A!DeletePlace, Drop, AtlasOf
  <2> QED
    BY <2>1 DEF A!Next
<1>4. ASSUME NEW d \in Dimensions, places = Set(before[k], n, d),
             n \in DOMAIN before[k] \/ Cardinality(DOMAIN before[k]) < Limit[k]
      PROVE  A!Next
  <2>1. places = [m \in DOMAIN before[k] \cup {n} |-> IF m = n THEN d ELSE before[k][m]]
    BY <1>4 DEF Set
  <2>2. after = [before EXCEPT ![k] = [m \in DOMAIN before[k] \cup {n} |->
                                         IF m = n THEN d ELSE before[k][m]]]
    BY <1>2, <2>1
  <2>3. A!SetPlace(k, n, d)
    BY <1>4, <2>2, SameCardinality DEF A!SetPlace, AtlasOf
  <2> QED
    BY <2>3 DEF A!Next
<1> QED
  BY <1>3, <1>4

(* The stored homes and warps change by one named place at a time, whatever *)
(* changes read the same register, and within the limit of the register.    *)
THEOREM EssentialsImplementsAtlas == Spec => AtlasSpec
<1>1. Init => A!Init
  BY DEF Init, A!Init
<1>2. TypeOK /\ Sound /\ [Next]_vars => [A!Next]_(AtlasOf(store))
  <2> SUFFICES ASSUME TypeOK, Sound, [Next]_vars
               PROVE  A!Next \/ AtlasOf(store)' = AtlasOf(store)
    OBVIOUS
  <2>1. CASE Execute
    BY <2>1, ExecuteStores, WriteIsAtlasStep
  <2>2. CASE ~ Execute
    <3>1. store' = store
      BY <2>2 DEF Next, vars, Command, Place, Ask, Back, TpaAccept, Reply, Give, Deliver,
                  AcceptBatch, RejectBatch, Restart, TimerFired, PlayerDied, PlayerLeft,
                  Leave, Travel
    <3> QED
      BY <3>1 DEF AtlasOf
  <2> QED
    BY <2>1, <2>2
<1> QED
  BY <1>1, <1>2, AlwaysSound, PTL DEF Spec, AtlasSpec, A!Spec, AtlasOf
=============================================================================
