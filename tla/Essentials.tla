----------------------------- MODULE Essentials -----------------------------
(***************************************************************************)
(* sources/solaris-essentials/src/lib.rs: homes, warps, /back, teleport    *)
(* requests and private messages.                                          *)
(*                                                                         *)
(* Everything a command starts is answered by a later event that is found  *)
(* again by its request id.  on_events copies these correlations before    *)
(* every event, and CommandBatchRejected puts the last copy back.  The     *)
(* model has one event per callback: in a longer callback only its last    *)
(* event would be undone.                                                  *)
(*                                                                         *)
(* A position is its dimension.  Names of players are their sessions:      *)
(* ambiguous names and the bound of the online list are left out, and so   *)
(* are commands answered at once with a message and nothing else.  Of the  *)
(* messages of one batch the model keeps what a property tells apart.      *)
(***************************************************************************)
EXTENDS HostCalls, FiniteSets, Functions

CONSTANTS
  Sessions, Keys, Names, Dimensions, Unknown, Limit,
  Registers,       \* session -> the registers it may change and look up
  Casts,           \* bound: what the sessions may do in the runs of this
                   \* instance: session -> commands and deeds
  InitialWhere,    \* session -> its dimension at first
  InitialStores,   \* register -> the record it may hold at first start
  MaxVersion,      \* bound: no change is started at this version
  MaxPending       \* bound: correlations when a command is given

ASSUME LimitAssumption == Limit \in [Keys -> Nat \ {0}] /\ Unknown \notin Dimensions

(* The places a register may hold. *)
Places == UNION {[S -> Dimensions \cup {Unknown}] : S \in SUBSET Names}

ASSUME InputsAssumption ==
  /\ Registers \in [Sessions -> SUBSET Keys]
  /\ InitialWhere \in [Sessions -> Dimensions]
  /\ InitialStores \in [Keys -> [version : Nat, value : Places]]

VARIABLES
  pending_storage, pending_saves, pending_queries, pending_teleports,
  tpa_by_target, replies, backs, last_callback,   \* struct Essentials
  acts,        \* the cast of this run
  online,      \* the sessions connected
  left,        \* sessions that ended; their PlayerLeft is not delivered yet
  where,       \* session -> its dimension
  timers,      \* the sessions whose request has its timer set
  store,       \* register -> stored record
  shown,       \* history: session -> whose request it was shown last
  outbox, calls, answers

correlations == <<pending_storage, pending_saves, pending_queries, pending_teleports,
                  tpa_by_target, replies>>
world == <<acts, online, left, where>>
vars == <<correlations, backs, last_callback, world, timers, store, shown,
          outbox, calls, answers>>

A == INSTANCE Atlas WITH atlas <- [k \in Keys |-> store[k].value],
                         InitialAtlases <- {[k \in Keys |-> InitialStores[k].value]}

-----------------------------------------------------------------------------
(* Data *)

Set(f, x, y) == [z \in DOMAIN f \cup {x} |-> IF z = x THEN y ELSE f[z]]
Drop(f, S) == [z \in DOMAIN f \ S |-> f[z]]

(* decode_positions accepts the register. *)
Decodable(k, places) == Cardinality(DOMAIN places) <= Limit[k]

(* next_request: an id not in use.  (The counter behind it only grows.)     *)
NewRequest ==
  LET used == {x.request : x \in pending_storage \cup pending_queries \cup pending_teleports}
                \cup {x.request : x \in {y \in calls \cup answers : y.type # "cas"}}
  IN  CHOOSE n \in 1 .. Cardinality(used) + 1 : n \notin used

UnderWay == Cardinality(pending_storage) + Cardinality(pending_queries)
              + Cardinality(pending_teleports) + Cardinality(DOMAIN pending_saves)

(* A timer of a session's request; what a session is shown of another. *)
Schedule(s) == [type |-> "schedule", session |-> s]
Cancel(s) == [type |-> "cancel", session |-> s]
Shown(s, from) == [type |-> "message", session |-> s, from |-> from]

CallbackCorrelations ==
  [pending_storage |-> pending_storage, pending_saves |-> pending_saves,
   pending_queries |-> pending_queries, pending_teleports |-> pending_teleports,
   tpa_by_target |-> tpa_by_target, replies |-> replies]

(* One event per callback. *)
Free == outbox = {}

(* The copy on_events takes before the event; it is not kept when no       *)
(* refusal can use it.                                                     *)
Snapshot == last_callback' = IF outbox' = {} THEN {} ELSE {CallbackCorrelations}

(* The event came to nothing but a message.  It is a batch like any other: *)
(* when the host refuses it, the event is undone.                          *)
Told == outbox' = {Message}
Nothing == Told /\ UNCHANGED <<pending_saves, pending_teleports, tpa_by_target, replies>>

(* begin_teleport *)
BeginTeleport(s, dimension, old) ==
  IF dimension = Unknown \/ dimension # old
  THEN Told /\ UNCHANGED pending_teleports
  ELSE /\ pending_teleports' = pending_teleports \cup
                                 {[request |-> NewRequest, session |-> s, old |-> old]}
       /\ outbox' = {[type |-> "teleport", request |-> NewRequest, session |-> s,
                      dimension |-> dimension]}

-----------------------------------------------------------------------------
(* Commands *)

Give(s, command) ==
  /\ Free
  /\ s \in online /\ command \in acts[s]
  /\ UnderWay < MaxPending
  /\ UNCHANGED <<pending_saves, backs, world, timers, store, shown, calls, answers>>

(* read_positions: a home or warp is set, deleted or gone to. *)
Place(s, kind, k, n) ==
  /\ Give(s, kind)
  /\ kind = "get" \/ store[k].version < MaxVersion
  /\ pending_storage' = pending_storage \cup
       {[request |-> NewRequest, session |-> s, key |-> k, kind |-> kind, name |-> n,
         old |-> where[s]]}
  /\ outbox' = {[type |-> "get", request |-> NewRequest, key |-> k]}
  /\ UNCHANGED <<pending_queries, pending_teleports, tpa_by_target, replies>>

Back(s) ==
  /\ Give(s, "back")
  /\ s \in DOMAIN backs
  /\ BeginTeleport(s, backs[s], where[s])
  /\ UNCHANGED <<pending_storage, pending_queries, tpa_by_target, replies>>

Query(kind, s, target, from) ==
  /\ pending_queries' = pending_queries \cup
       {[request |-> NewRequest, kind |-> kind, session |-> s, target |-> target,
         at |-> where[s], from |-> from]}
  /\ UNCHANGED <<pending_storage, pending_teleports, replies>>

Online == [type |-> "online", request |-> NewRequest]

(* /tpa and /msg ask who is online first. *)
Ask(kind, s, target) ==
  /\ Give(s, kind)
  /\ Query(kind, s, target, {})
  /\ outbox' = {Online}
  /\ UNCHANGED tpa_by_target

TpaAccept(s) ==
  /\ Give(s, "accept")
  /\ s \in DOMAIN tpa_by_target
  /\ tpa_by_target' = Drop(tpa_by_target, {s})
  /\ Query("accept", s, s, {tpa_by_target[s]})
  /\ outbox' = {Cancel(s), Online}

(* /reply changes nothing; it reaches whoever s wrote with last. *)
Reply(s) ==
  /\ Give(s, "reply")
  /\ s \in DOMAIN replies
  /\ Told
  /\ UNCHANGED correlations

Command ==
  /\ \E s \in Sessions :
        \/ \E kind \in {"set", "get", "delete"}, k \in Registers[s], n \in Names :
              Place(s, kind, k, n)
        \/ \E kind \in {"tpa", "msg"}, target \in Sessions : Ask(kind, s, target)
        \/ Back(s) \/ TpaAccept(s) \/ Reply(s)
  /\ Snapshot

-----------------------------------------------------------------------------
(* Answers *)

(* Mutant: a full register takes another place. *)
Changed_OneMore(current, places) ==
  IF current.kind = "set"
  THEN IF Cardinality(DOMAIN places) <= Limit[current.key]
       THEN {Set(places, current.name, current.old)} ELSE {}
  ELSE IF current.name \in DOMAIN places THEN {Drop(places, {current.name})} ELSE {}

(* The places to save, unless the limit is reached or there is no such one. *)
Changed(current, places) ==
  IF current.kind = "set"
  THEN IF current.name \in DOMAIN places \/ Cardinality(DOMAIN places) < Limit[current.key]
       THEN {Set(places, current.name, current.old)} ELSE {}
  ELSE IF current.name \in DOMAIN places THEN {Drop(places, {current.name})} ELSE {}

(* A lookup that found its register. *)
Lookup(current, places) ==
  /\ current.kind = "get"
  /\ IF current.name \in DOMAIN places
     THEN BeginTeleport(current.session, places[current.name], current.old)
     ELSE Told /\ UNCHANGED pending_teleports
  /\ UNCHANGED pending_saves

(* A change that found its register.  The save is named by the register    *)
(* and the version read, so two of them may have one name.                 *)
Change(current, record) ==
  /\ current.kind # "get"
  /\ IF Changed(current, record.value) = {}
     THEN Told /\ UNCHANGED pending_saves
     ELSE \E places \in Changed(current, record.value) :
             LET id == <<current.key, record.version>>
             IN  /\ pending_saves' = Set(pending_saves, id, [session |-> current.session,
                                                             kind |-> current.kind,
                                                             name |-> current.name])
                 /\ outbox' = {[type |-> "cas", save |-> id, key |-> current.key,
                                expected |-> record.version, value |-> places]}
  /\ UNCHANGED pending_teleports

StorageGet(answer) ==
  /\ answer.type = "get"
  /\ \E current \in {x \in pending_storage : x.request = answer.request} :
        /\ pending_storage' = pending_storage \ {current}
        /\ IF answer.outcome = "read" /\ Decodable(current.key, answer.record.value)
           THEN /\ \/ Lookup(current, answer.record.value)
                   \/ Change(current, answer.record)
                /\ UNCHANGED <<tpa_by_target, replies>>
           ELSE Nothing
  /\ UNCHANGED <<pending_queries, backs>>

(* storage_cas: "<name> saved." is told from the other messages, and holds *)
(* the register its write left.                                            *)
StorageCas(answer) ==
  /\ answer.type = "cas"
  /\ pending_saves' = Drop(pending_saves, {answer.save})
  /\ outbox' = {IF pending_saves[id].kind = "set" /\ answer.outcome = "committed"
                THEN [type |-> "message", saved |-> pending_saves[id].name,
                      places |-> answer.value]
                ELSE Message : id \in DOMAIN pending_saves \cap {answer.save}}
  /\ UNCHANGED <<pending_storage, pending_queries, pending_teleports, tpa_by_target,
                 replies, backs>>

(* The answer to an accepted request: the requester is teleported. *)
Accepted(current, players) ==
  /\ current.kind = "accept"
  /\ \E from \in current.from :
        IF from \in DOMAIN players /\ players[from] = current.at
        THEN BeginTeleport(from, current.at, players[from])
        ELSE Told /\ UNCHANGED pending_teleports
  /\ UNCHANGED <<tpa_by_target, replies>>

Requested(current) ==
  /\ current.kind = "tpa"
  /\ tpa_by_target' = Set(tpa_by_target, current.target, current.session)
  /\ outbox' = {Schedule(current.target), Shown(current.target, current.session)}
  /\ UNCHANGED <<pending_teleports, replies>>

Texted(current) ==
  /\ current.kind = "msg"
  /\ replies' = Set(Set(replies, current.session, current.target),
                    current.target, current.session)
  /\ Told
  /\ UNCHANGED <<pending_teleports, tpa_by_target>>

OnlinePlayers(answer) ==
  /\ answer.type = "online"
  /\ \E current \in {x \in pending_queries : x.request = answer.request} :
        /\ pending_queries' = pending_queries \ {current}
        /\ \/ Accepted(current, answer.players)
           \/ /\ current.target \in DOMAIN answer.players \ {current.session}
              /\ Requested(current) \/ Texted(current)
           \/ /\ current.kind # "accept"
              /\ current.target \notin DOMAIN answer.players \ {current.session}
              /\ Told
              /\ UNCHANGED <<pending_teleports, tpa_by_target, replies>>
  /\ UNCHANGED <<pending_storage, pending_saves, backs>>

Teleported(answer) ==
  /\ answer.type = "teleport"
  /\ \E current \in {x \in pending_teleports : x.request = answer.request} :
        /\ pending_teleports' = pending_teleports \ {current}
        /\ backs' = IF answer.outcome = "committed" THEN Set(backs, current.session, current.old)
                                                    ELSE backs
  /\ Told
  /\ UNCHANGED <<pending_storage, pending_saves, pending_queries, tpa_by_target, replies>>

Deliver ==
  \E answer \in answers :
     /\ Free
     /\ answers' = answers \ {answer}
     /\ StorageGet(answer) \/ StorageCas(answer) \/ OnlinePlayers(answer) \/ Teleported(answer)
     /\ Snapshot
     /\ UNCHANGED <<world, timers, store, shown, calls>>

-----------------------------------------------------------------------------
(* Other events *)

TimerFired(s) ==
  /\ Free
  /\ s \in timers
  /\ timers' = timers \ {s}
  /\ tpa_by_target' = Drop(tpa_by_target, {s})
  /\ outbox' = IF s \in DOMAIN tpa_by_target THEN {Message} ELSE {}
  /\ UNCHANGED <<pending_storage, pending_saves, pending_queries, pending_teleports,
                 replies, backs, world, store, shown, calls, answers>>
  /\ Snapshot

PlayerDied(s) ==
  /\ Free
  /\ s \in online /\ "die" \in acts[s]
  /\ backs' = Set(backs, s, where[s])
  /\ UNCHANGED <<correlations, world, timers, store, shown, outbox, calls, answers>>
  /\ Snapshot

PlayerLeft(s) ==
  LET withdrawn == {t \in DOMAIN tpa_by_target : t = s \/ tpa_by_target[t] = s}
  IN  /\ Free
      /\ s \in left
      /\ left' = left \ {s}
      /\ backs' = Drop(backs, {s})
      /\ replies' = Drop(replies, {t \in DOMAIN replies : t = s \/ replies[t] = s})
      /\ tpa_by_target' = Drop(tpa_by_target, withdrawn)
      /\ outbox' = {Cancel(t) : t \in withdrawn \cup {s}}
      /\ UNCHANGED <<pending_storage, pending_saves, pending_queries, pending_teleports,
                     acts, online, where, timers, store, shown, calls, answers>>
      /\ Snapshot

-----------------------------------------------------------------------------
(* The host (external) *)

Of(type) == {c \in outbox : c.type = type}

RequestsShown == {c \in Of("message") : "from" \in DOMAIN c}

AcceptBatch ==
  /\ outbox # {}
  /\ timers' = (timers \cup {c.session : c \in Of("schedule")})
                 \ {c.session : c \in Of("cancel")}
  /\ shown' = [s \in DOMAIN shown \cup {c.session : c \in RequestsShown} |->
                 IF \E c \in RequestsShown : c.session = s
                 THEN (CHOOSE c \in RequestsShown : c.session = s).from ELSE shown[s]]
  /\ calls' = calls \cup Of("get") \cup Of("cas") \cup Of("online") \cup Of("teleport")
  /\ outbox' = {} /\ last_callback' = {}
  /\ UNCHANGED <<correlations, backs, world, store, answers>>

(* Mutant: a refused batch forgets everything under way. *)
RejectBatch_Forgets ==
  /\ Rejectable(outbox)
  /\ pending_storage' = {} /\ pending_saves' = <<>> /\ pending_queries' = {}
  /\ pending_teleports' = {} /\ tpa_by_target' = <<>> /\ replies' = <<>>
  /\ outbox' = {} /\ last_callback' = {}
  /\ UNCHANGED <<backs, world, timers, store, shown, calls, answers>>

(* Mutant: the copy holds no teleport requests. *)
RejectBatch_KeepsRequests ==
  /\ Rejectable(outbox)
  /\ \E previous \in last_callback :
        /\ pending_storage' = previous.pending_storage
        /\ pending_saves' = previous.pending_saves
        /\ pending_queries' = previous.pending_queries
        /\ pending_teleports' = previous.pending_teleports
        /\ replies' = previous.replies
  /\ outbox' = {} /\ last_callback' = {}
  /\ UNCHANGED <<tpa_by_target, backs, world, timers, store, shown, calls, answers>>

(* A refused batch, and restore_correlations. *)
RejectBatch ==
  /\ Rejectable(outbox)
  /\ \E previous \in last_callback :
        /\ pending_storage' = previous.pending_storage
        /\ pending_saves' = previous.pending_saves
        /\ pending_queries' = previous.pending_queries
        /\ pending_teleports' = previous.pending_teleports
        /\ tpa_by_target' = previous.tpa_by_target
        /\ replies' = previous.replies
  /\ outbox' = {} /\ last_callback' = {}
  /\ UNCHANGED <<backs, world, timers, store, shown, calls, answers>>

ExecuteGet(call) ==
  /\ call.type = "get"
  /\ \E outcome \in ReadOutcomes :
        answers' = answers \cup {[type |-> "get", request |-> call.request,
                                  outcome |-> outcome, record |-> store[call.key]]}
  /\ UNCHANGED <<where, store>>

ExecuteCas(call) ==
  /\ call.type = "cas"
  /\ \E x \in CasExecutions(store[call.key], call.expected, call.value) :
        /\ store' = [store EXCEPT ![call.key] = x.record]
        /\ answers' = answers \cup {[type |-> "cas", save |-> call.save,
                                     outcome |-> x.outcome, value |-> call.value]}
  /\ UNCHANGED where

ExecuteOnline(call) ==
  /\ call.type = "online"
  /\ answers' = answers \cup {[type |-> "online", request |-> call.request,
                               players |-> [s \in online |-> where[s]]]}
  /\ UNCHANGED <<where, store>>

(* "The host checks the destination dimension again when committing." *)
ExecuteTeleport(call) ==
  LET committed == call.session \in online /\ where[call.session] = call.dimension
  IN  /\ call.type = "teleport"
      /\ answers' = answers \cup {[type |-> "teleport", request |-> call.request,
                                   outcome |-> IF committed THEN "committed" ELSE "refused"]}
      /\ UNCHANGED <<where, store>>

Execute ==
  \E call \in calls :
     /\ calls' = calls \ {call}
     /\ ExecuteGet(call) \/ ExecuteCas(call) \/ ExecuteOnline(call) \/ ExecuteTeleport(call)
     /\ UNCHANGED <<correlations, backs, last_callback, acts, online, left, timers, shown,
                    outbox>>

(* A player leaves, or goes through a portal. *)
Leave(s) ==
  /\ s \in online /\ "leave" \in acts[s]
  /\ online' = online \ {s} /\ left' = left \cup {s}
  /\ UNCHANGED <<correlations, backs, last_callback, acts, where, timers, store, shown,
                 outbox, calls, answers>>

Travel(s, d) ==
  /\ s \in online /\ where[s] # d /\ "travel" \in acts[s]
  /\ where' = [where EXCEPT ![s] = d]
  /\ UNCHANGED <<correlations, backs, last_callback, acts, online, left, timers, store, shown,
                 outbox, calls, answers>>

Restart ==
  /\ "restart" \in Faults
  /\ pending_storage' = {} /\ pending_saves' = <<>> /\ pending_queries' = {}
  /\ pending_teleports' = {} /\ tpa_by_target' = <<>> /\ replies' = <<>> /\ backs' = <<>>
  /\ last_callback' = {}
  /\ timers' = {} /\ outbox' = {} /\ calls' = {} /\ answers' = {}
  /\ UNCHANGED <<world, store, shown>>

-----------------------------------------------------------------------------
Init ==
  /\ pending_storage = {} /\ pending_saves = <<>> /\ pending_queries = {}
  /\ pending_teleports = {} /\ tpa_by_target = <<>> /\ replies = <<>> /\ backs = <<>>
  /\ last_callback = {}
  /\ acts \in Casts
  /\ online = Sessions /\ left = {} /\ timers = {}
  /\ where = InitialWhere
  /\ store = InitialStores
  /\ shown = <<>> /\ outbox = {} /\ calls = {} /\ answers = {}

Next ==
  \/ Command \/ Deliver \/ AcceptBatch \/ RejectBatch \/ Execute \/ Restart
  \/ \E s \in Sessions : TimerFired(s) \/ PlayerDied(s) \/ PlayerLeft(s) \/ Leave(s)
  \/ \E s \in Sessions, d \in Dimensions : Travel(s, d)

Spec == Init /\ [][Next]_vars

-----------------------------------------------------------------------------
(* Properties *)

(* The stored homes and warps implement Atlas: of two changes that read    *)
(* the same register at most one is stored, one name at a time, and a      *)
(* place of unknown dimension stays unknown until it is set again.         *)
AtlasSpec == A!Spec

(* Whatever the host was asked and whatever it answers is still awaited,   *)
(* although a refusal names no request and puts back a whole copy of the   *)
(* correlations.  (Saves are found by register and version instead.)       *)
AnswerIsAwaited ==
  \A x \in outbox \cup calls \cup answers :
     /\ x.type = "get" => \E y \in pending_storage : y.request = x.request
     /\ x.type = "online" => \E y \in pending_queries : y.request = x.request
     /\ x.type = "teleport" => \E y \in pending_teleports : y.request = x.request

(* "<name> saved." is said of a place that was stored.  The code breaks    *)
(* this: a save is found by register and version, and two changes of one   *)
(* register may read the same version.                                     *)
SavedIsStored ==
  \A m \in outbox : "saved" \in DOMAIN m => m.saved \in DOMAIN m.places

(* A request that can be accepted is the one its player was shown last: a  *)
(* request that was refused, expired or withdrawn is never accepted in the *)
(* place of another, also when a refusal puts a whole copy back.           *)
RequestIsShown ==
  outbox = {} => \A t \in DOMAIN tpa_by_target :
                    t \in DOMAIN shown /\ shown[t] = tpa_by_target[t]

(* It also has a timer that will end it.  This needs the host to accept    *)
(* the messages: the refusal of "TPA request expired." puts the request    *)
(* back when its timer has fired.                                          *)
RequestIsLive ==
  /\ RequestIsShown
  /\ \A t \in DOMAIN tpa_by_target : t \in timers \/ Schedule(t) \in outbox
=============================================================================
