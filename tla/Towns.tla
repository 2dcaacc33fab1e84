------------------------------- MODULE Towns -------------------------------
(***************************************************************************)
(* sources/solaris-towns/src/lib.rs: durable towns and chunk claims.       *)
(*                                                                         *)
(* A command computes the towns it leads to and saves them; when the write *)
(* is confirmed the claims' zones are rewritten, and a refused zone makes  *)
(* the plugin write the old towns back and restore the zones.  One such    *)
(* update is pending at a time.                                            *)
(*                                                                         *)
(* A player has one session.  Chat messages are left out: the only thing   *)
(* they add, a batch that is refused while a save is under way, a query    *)
(* for the online players adds as well.  The one read of an instance is    *)
(* the load, so load_request is left out too.                              *)
(***************************************************************************)
EXTENDS HostCalls, Sequences, FiniteSets, SequencesExt

CONSTANTS
  Players, Names, Chunks,
  MaxTowns, MaxMembers, MaxClaims, MaxTrusted,      \* Settings
  InitialStores,    \* the towns an instance may find at first start
  MaxVersion,       \* bound: no update is started at this version
  MaxUnderWay,      \* bound: what is under way when a command arrives
  MaxQueries,       \* bound: queries pending when another one starts
  MaxBatch,         \* bound: what a callback returned before its last event
  MaxRefusals       \* bound: the zone commands the host refuses

ASSUME FinitenessAssumption == /\ IsFiniteSet(Players)
                               /\ IsFiniteSet(Names)
                               /\ IsFiniteSet(Chunks)

ASSUME SettingsAssumption == /\ MaxTowns \in Nat \ {0}
                             /\ MaxMembers \in Nat \ {0}
                             /\ MaxClaims \in Nat \ {0}
                             /\ MaxTrusted \in Nat \ {0}

ASSUME BoundsAssumption == /\ MaxVersion \in Nat
                           /\ MaxUnderWay \in Nat
                           /\ MaxQueries \in Nat
                           /\ MaxBatch \in Nat
                           /\ MaxRefusals \in Nat

VARIABLES
  (* the fields of struct Towns *)
  towns,              \* name -> [leader, members, claims, trusted, public_use]
  storage_version, loaded,
  pending,            \* the update under way
  pending_queries,    \* what is asked for when the online players are listed
  invites,            \* player -> the town that invited last
  invite_timers,      \* the players whose timer is known
  startup_zones,      \* the zones the load waits for
  (* the host *)
  store,              \* the record under the key towns-v1
  zones,              \* the zones there are: zone id -> rights
  timers,             \* the players whose invitation timer runs
  outbox,             \* what the running callback returned so far
  calls, answers,     \* requests not executed, answers not delivered
  zone_calls, zone_answers,
  refusals            \* the zone commands refused so far

memory == <<towns, storage_version, loaded, startup_zones>>
inviting == <<pending_queries, invites, invite_timers>>
plugin == <<memory, pending, inviting>>
requesting == <<calls, answers>>
zoning == <<zones, zone_calls, zone_answers, refusals>>
host == <<store, timers, requesting, zoning>>
vars == <<plugin, host, outbox>>

-----------------------------------------------------------------------------
(* Data *)

Charter == INSTANCE Charter WITH chartered <- store.value

NoTowns == <<>>

Absent == [version |-> 0, value |-> NoTowns]

Without(table, keys) == [k \in DOMAIN table \ keys |-> table[k]]

With(table, key, value) ==
  [k \in DOMAIN table \cup {key} |-> IF k = key THEN value ELSE table[k]]

Members(town) == DOMAIN town.members

(* member_town and claim_owner, as an Option. *)
MemberTown(p) == {name \in DOMAIN towns : p \in Members(towns[name])}
ClaimOwner(chunk) == {name \in DOMAIN towns : chunk \in towns[name].claims}

(* The claims, each with its zone id: unique to the town's name and the    *)
(* chunk.                                                                  *)
ZoneIds == Names \X Chunks

ClaimZones(register) ==
  {zone \in ZoneIds : /\ zone[1] \in DOMAIN register
                      /\ zone[2] \in register[zone[1]].claims}

TotalClaims(register) == Cardinality(ClaimZones(register))

(* decode_towns accepts the register.  It does not compare the members of  *)
(* one town with those of another.                                         *)
Decodable(register) ==
  /\ Cardinality(DOMAIN register) <= MaxTowns
  /\ TotalClaims(register) <= MaxClaims
  /\ \A one, other \in DOMAIN register :
        one # other => register[one].claims \cap register[other].claims = {}
  /\ \A name \in DOMAIN register :
        LET town == register[name]
        IN  /\ town.leader \in Members(town)
            /\ town.members[town.leader] = "leader"
            /\ Cardinality(Members(town)) <= MaxMembers
            /\ Members(town) \cap town.trusted = {}
            /\ Cardinality(town.trusted) <= MaxTrusted

(* What a first start finds was written by this plugin. *)
ASSUME StoresAssumption ==
  \A record \in InitialStores :
     /\ record \in [version: Nat, value: {record.value}]
     /\ Charter!Lawful(record.value)

-----------------------------------------------------------------------------
(* Zones *)

(* allow_list and the flag: what a claim's zone grants. *)
Rights(town) == [allowed |-> Members(town) \cup town.trusted,
                 public_use |-> town.public_use]

UpsertClaim(register, zone) ==
  [type |-> "upsert", zone |-> zone, rights |-> Rights(register[zone[1]])]

RemoveZone(zone) == [type |-> "remove", zone |-> zone]

(* One command for every zone, in some order. *)
UpsertAll(register, ids) == SetToSeq({UpsertClaim(register, zone) : zone \in ids})

-----------------------------------------------------------------------------
(* Requests *)

Get == [type |-> "get"]

Query(query) == [type |-> "query", query |-> query]

(* The request ids save-v<n> and rollback-v<n>. *)
Cas(kind, expected, register) ==
  [type |-> "cas", request |-> <<kind, expected>>, expected |-> expected,
   value |-> register]

Timer(p) == [type |-> "timer", player |-> p]

(* zone_action with its town and claim: what follows a committed update.   *)
Add(name, chunk)  == {[action |-> "add", town |-> name, chunks |-> {chunk}]}
Drop(name, chunk) == {[action |-> "remove", town |-> name, chunks |-> {chunk}]}
Sync(name)        == {[action |-> "sync", town |-> name, chunks |-> {}]}

(* The zones it writes when register is committed. *)
ZonesFor(act, register) ==
  {act.town} \X (IF act.action = "sync" THEN register[act.town].claims
                 ELSE act.chunks)

(* save: one update at a time.  What is pending is read when save is       *)
(* called, which no caller changes before.                                 *)
Save(after, zone_action) ==
  IF pending = {}
  THEN /\ pending' = {[stage |-> "save", request |-> <<"save", storage_version>>,
                       before |-> towns, after |-> after,
                       zone_action |-> zone_action,
                       awaiting |-> {}, failed |-> FALSE]}
       /\ outbox' = Append(outbox, Cas("save", storage_version, after))
  ELSE UNCHANGED <<pending, outbox>>

-----------------------------------------------------------------------------
(* Commands.  One refused with a message is a step that changes nothing. *)

UnderWay == Cardinality(calls) + Cardinality(answers)
              + Len(zone_calls) + Len(zone_answers)

CanHandle == Len(outbox) <= MaxBatch

CanAsk == /\ loaded
          /\ CanHandle
          /\ UnderWay <= MaxUnderWay

CanChange == CanAsk /\ store.version < MaxVersion

Change(name, town, zone_action) ==
  /\ Save(With(towns, name, town), zone_action)
  /\ UNCHANGED <<memory, host>>

Officer(p, name) == towns[name].members[p] \in {"leader", "officer"}

Create(p, name) ==
  /\ CanChange
  /\ MemberTown(p) = {}
  /\ name \notin DOMAIN towns
  /\ Cardinality(DOMAIN towns) < MaxTowns
  /\ Change(name, [leader |-> p, members |-> With(<<>>, p, "leader"),
                   claims |-> {}, trusted |-> {}, public_use |-> FALSE], {})
  /\ UNCHANGED inviting

(* invite, and the part of trust_command for a name: who is online must be *)
(* asked first.                                                            *)
Ask(kind, p, target) ==
  /\ CanAsk
  /\ Cardinality(pending_queries) <= MaxQueries
  /\ \E name \in MemberTown(p) :
        /\ Officer(p, name)
        /\ kind = "invite" => Cardinality(Members(towns[name])) < MaxMembers
        /\ LET query == [kind |-> kind, town |-> name, target |-> target]
           IN  /\ pending_queries' = pending_queries \cup {query}
               /\ outbox' = Append(outbox, Query(query))
  /\ UNCHANGED <<memory, pending, invites, invite_timers, host>>

(* join: the invitation is used up whether or not save accepts the update. *)
Join(p, name) ==
  /\ CanChange
  /\ MemberTown(p) = {}
  /\ p \in DOMAIN invites /\ invites[p] = name
  /\ name \in DOMAIN towns
  /\ Cardinality(Members(towns[name])) < MaxMembers
  /\ Change(name, [towns[name] EXCEPT !.members = With(@, p, "member"),
                                      !.trusted = @ \ {p}], Sync(name))
  /\ invites' = Without(invites, {p})
  /\ UNCHANGED <<pending_queries, invite_timers>>

Leave(p) ==
  /\ CanChange
  /\ \E name \in MemberTown(p) :
        /\ towns[name].leader # p
        /\ Change(name, [towns[name] EXCEPT !.members = Without(@, {p})],
                  Sync(name))
  /\ UNCHANGED inviting

SetRole(p, target, role) ==
  /\ CanChange
  /\ \E name \in MemberTown(p) :
        /\ towns[name].leader = p
        /\ target \in Members(towns[name]) \ {p}
        /\ Change(name, [towns[name] EXCEPT !.members[target] = role], {})
  /\ UNCHANGED inviting

ClaimChunk(p, chunk) ==
  /\ CanChange
  /\ \E name \in MemberTown(p) :
        /\ towns[name].leader = p
        /\ ClaimOwner(chunk) = {}
        /\ TotalClaims(towns) < MaxClaims
        /\ Change(name, [towns[name] EXCEPT !.claims = @ \cup {chunk}],
                  Add(name, chunk))
  /\ UNCHANGED inviting

UnclaimChunk(p, chunk) ==
  /\ CanChange
  /\ \E name \in MemberTown(p) :
        /\ towns[name].leader = p
        /\ chunk \in towns[name].claims
        /\ Change(name, [towns[name] EXCEPT !.claims = @ \ {chunk}],
                  Drop(name, chunk))
  /\ UNCHANGED inviting

(* Mutant: who is a member by now may still become a guest. *)
SetTrusted_AnyGuest(name, guest, add) ==
  IF /\ name \in DOMAIN towns
     /\ IF add THEN /\ guest \notin towns[name].trusted
                    /\ Cardinality(towns[name].trusted) < MaxTrusted
               ELSE guest \in towns[name].trusted
  THEN Save(With(towns, name,
                 [towns[name] EXCEPT !.trusted =
                    IF add THEN @ \cup {guest} ELSE @ \ {guest}]), Sync(name))
  ELSE UNCHANGED <<pending, outbox>>

SetTrusted(name, guest, add) ==
  IF /\ name \in DOMAIN towns
     /\ IF add THEN /\ guest \notin Members(towns[name]) \cup towns[name].trusted
                    /\ Cardinality(towns[name].trusted) < MaxTrusted
               ELSE guest \in towns[name].trusted
  THEN Save(With(towns, name,
                 [towns[name] EXCEPT !.trusted =
                    IF add THEN @ \cup {guest} ELSE @ \ {guest}]), Sync(name))
  ELSE UNCHANGED <<pending, outbox>>

(* trust_command for a UUID. *)
Trust(p, guest, add) ==
  /\ CanChange
  /\ \E name \in MemberTown(p) : /\ Officer(p, name)
                                 /\ SetTrusted(name, guest, add)
  /\ UNCHANGED <<memory, inviting, host>>

Flag(p, enabled) ==
  /\ CanChange
  /\ \E name \in MemberTown(p) :
        /\ towns[name].leader = p
        /\ Change(name, [towns[name] EXCEPT !.public_use = enabled], Sync(name))
  /\ UNCHANGED inviting

-----------------------------------------------------------------------------
(* Storage answers *)

(* storage_get: the zones of all claims are written again, and the plugin  *)
(* answers commands when none of them was refused.                         *)
TownsRead(answer) ==
  /\ answer.type = "get"
  /\ answer.outcome = "read" /\ Decodable(answer.value)
  /\ towns' = answer.value
  /\ storage_version' = answer.version
  /\ LET ids == ClaimZones(answer.value)
     IN  /\ loaded' = (ids = {})
         /\ startup_zones' = IF ids = {} THEN {}
                             ELSE {[remaining |-> ids, failed |-> FALSE]}
         /\ outbox' = outbox \o UpsertAll(answer.value, ids)
  /\ UNCHANGED pending

(* A read that failed, or a register decode_towns does not accept: nothing *)
(* asks for it again.                                                      *)
Unreadable(answer) ==
  /\ answer.type = "get"
  /\ answer.outcome = "failed" \/ ~ Decodable(answer.value)
  /\ loaded' = FALSE
  /\ UNCHANGED <<towns, storage_version, startup_zones, pending, outbox>>

Awaited(answer, update) ==
  answer.type = "cas" /\ answer.request = update.request

(* The commands that follow a committed update.                            *)
Follow(update, ids) ==
  IF \E act \in update.zone_action : act.action = "remove"
  THEN SetToSeq({RemoveZone(zone) : zone \in ids})
  ELSE UpsertAll(update.after, ids)

(* Mutant: a change of a town without claims waits for zones all the same. *)
Committed_WaitsForNone(answer, update) ==
  /\ Awaited(answer, update)
  /\ update.stage # "rollback" /\ answer.outcome = "committed"
  /\ towns' = update.after
  /\ storage_version' = answer.version
  /\ LET ids == UNION {ZonesFor(act, update.after) : act \in update.zone_action}
     IN  /\ pending' = IF update.zone_action = {} THEN {}
                       ELSE {[update EXCEPT !.stage = "zone", !.awaiting = ids]}
         /\ outbox' = outbox \o Follow(update, ids)
  /\ UNCHANGED <<loaded, startup_zones>>

(* storage_cas: a confirmed save becomes the memory, and its zones follow. *)
Committed(answer, update) ==
  /\ Awaited(answer, update)
  /\ update.stage # "rollback" /\ answer.outcome = "committed"
  /\ towns' = update.after
  /\ storage_version' = answer.version
  /\ LET ids == UNION {ZonesFor(act, update.after) : act \in update.zone_action}
     IN  /\ pending' = IF ids = {} THEN {}
                       ELSE {[update EXCEPT !.stage = "zone", !.awaiting = ids]}
         /\ outbox' = outbox \o Follow(update, ids)
  /\ UNCHANGED <<loaded, startup_zones>>

(* A save that was not confirmed is given up. *)
NotCommitted(answer, update) ==
  /\ Awaited(answer, update)
  /\ update.stage # "rollback" /\ answer.outcome # "committed"
  /\ pending' = {}
  /\ UNCHANGED <<memory, outbox>>

(* Mutant: the zones that accepted the failed change keep it. *)
RolledBack_KeepsZones(answer, update) ==
  /\ Awaited(answer, update)
  /\ update.stage = "rollback" /\ answer.outcome = "committed"
  /\ pending' = {}
  /\ towns' = update.before
  /\ storage_version' = answer.version
  /\ loaded' = TRUE
  /\ UNCHANGED <<startup_zones, outbox>>

(* Mutant: the confirmed rollback does not become the memory. *)
RolledBack_KeepsTowns(answer, update) ==
  /\ Awaited(answer, update)
  /\ update.stage = "rollback" /\ answer.outcome = "committed"
  /\ pending' = {}
  /\ storage_version' = answer.version
  /\ loaded' = TRUE
  /\ UNCHANGED <<towns, startup_zones, outbox>>

(* The old towns are stored again; the zones of a town that was rewritten  *)
(* are restored.                                                           *)
RolledBack(answer, update) ==
  /\ Awaited(answer, update)
  /\ update.stage = "rollback" /\ answer.outcome = "committed"
  /\ pending' = {}
  /\ towns' = update.before
  /\ storage_version' = answer.version
  /\ loaded' = TRUE
  /\ LET resync == {act \in update.zone_action : act.action = "sync"}
     IN  outbox' = outbox \o UpsertAll(update.before,
           UNION {ZonesFor(act, update.before) : act \in resync})
  /\ UNCHANGED startup_zones

NotRolledBack(answer, update) ==
  /\ Awaited(answer, update)
  /\ update.stage = "rollback" /\ answer.outcome # "committed"
  /\ pending' = {}
  /\ loaded' = FALSE
  /\ UNCHANGED <<towns, storage_version, startup_zones, outbox>>

(* An answer nobody awaits. *)
Ignored(answer) ==
  /\ answer.type = "cas"
  /\ \A update \in pending : ~ Awaited(answer, update)
  /\ UNCHANGED <<memory, pending, outbox>>

StorageAnswered(answer) ==
  /\ \/ TownsRead(answer)
     \/ Unreadable(answer)
     \/ \E update \in pending : \/ Committed(answer, update)
                                \/ NotCommitted(answer, update)
                                \/ RolledBack(answer, update)
                                \/ NotRolledBack(answer, update)
     \/ Ignored(answer)
  /\ UNCHANGED inviting

-----------------------------------------------------------------------------
(* Other answers *)

(* Mutant: the timer of an invitation is scheduled and not noted.          *)
Invite_NoTimer(target, name) ==
  /\ invites' = With(invites, target, name)
  /\ outbox' = Append(outbox, Timer(target))
  /\ UNCHANGED <<pending, invite_timers>>

Invite(target, name) ==
  /\ invites' = With(invites, target, name)
  /\ invite_timers' = invite_timers \cup {target}
  /\ outbox' = Append(outbox, Timer(target))
  /\ UNCHANGED pending

(* online_players: what the command asked for is done with the towns of    *)
(* now; the rank of who asked is not looked at again.                      *)
PlayersAnswered(answer) ==
  /\ answer.type = "players"
  /\ LET query == answer.query
     IN  /\ pending_queries' = pending_queries \ {query}
         /\ IF answer.found /\ query \in pending_queries
            THEN IF query.kind = "invite"
                 THEN IF MemberTown(query.target) = {}
                      THEN Invite(query.target, query.town)
                      ELSE UNCHANGED <<pending, invites, invite_timers, outbox>>
                 ELSE /\ SetTrusted(query.town, query.target, query.kind = "trust")
                      /\ UNCHANGED <<invites, invite_timers>>
            ELSE UNCHANGED <<pending, invites, invite_timers, outbox>>
  /\ UNCHANGED memory

Deliver(type) ==
  \E answer \in {a \in answers : a.type = type} :
     /\ answers' = answers \ {answer}
     /\ StorageAnswered(answer) \/ PlayersAnswered(answer)
     /\ UNCHANGED <<store, timers, calls, zoning>>

(* zone_answered, while the load waits for the zone. *)
StartupAnswered(answer) ==
  \E startup \in startup_zones :
     /\ answer.zone \in startup.remaining
     /\ LET remaining == startup.remaining \ {answer.zone}
            failed    == startup.failed \/ ~ answer.applied
        IN  IF remaining = {}
            THEN loaded' = ~ failed /\ startup_zones' = {}
            ELSE /\ startup_zones' = {[remaining |-> remaining, failed |-> failed]}
                 /\ UNCHANGED loaded
     /\ UNCHANGED <<towns, storage_version, pending, outbox>>

AwaitedZone(answer, update) ==
  /\ \A startup \in startup_zones : answer.zone \notin startup.remaining
  /\ update.stage = "zone" /\ answer.zone \in update.awaiting

(* Mutant: a refused zone is not counted as an answer. *)
UpdateAnswered_WaitsForApplied(answer, update) ==
  /\ AwaitedZone(answer, update)
  /\ LET awaiting == IF answer.applied THEN update.awaiting \ {answer.zone}
                     ELSE update.awaiting
     IN  pending' = IF awaiting = {} THEN {}
                    ELSE {[update EXCEPT !.awaiting = awaiting]}
  /\ UNCHANGED <<memory, outbox>>

(* zone_answered, for a zone of the update: with the last answer it is     *)
(* done, or the towns before it are written back.                          *)
UpdateAnswered(answer, update) ==
  /\ AwaitedZone(answer, update)
  /\ LET awaiting == update.awaiting \ {answer.zone}
         failed   == update.failed \/ ~ answer.applied
         waiting  == [update EXCEPT !.awaiting = awaiting, !.failed = failed]
     IN  \/ /\ awaiting # {}
            /\ pending' = {waiting}
            /\ UNCHANGED outbox
         \/ /\ awaiting = {} /\ ~ failed
            /\ pending' = {}
            /\ UNCHANGED outbox
         \/ /\ awaiting = {} /\ failed
            /\ pending' = {[waiting EXCEPT !.stage = "rollback",
                              !.request = <<"rollback", storage_version>>]}
            /\ outbox' = Append(outbox,
                               Cas("rollback", storage_version, update.before))
  /\ UNCHANGED memory

(* The answer to a zone command that nothing waits for.                    *)
UnawaitedZone(answer) ==
  /\ \A startup \in startup_zones : answer.zone \notin startup.remaining
  /\ \A update \in pending : ~ AwaitedZone(answer, update)
  /\ UNCHANGED <<memory, pending, outbox>>

ZoneAnswered ==
  /\ zone_answers # <<>>
  /\ LET answer == Head(zone_answers)
     IN  \/ StartupAnswered(answer)
         \/ \E update \in pending : UpdateAnswered(answer, update)
         \/ UnawaitedZone(answer)
  /\ zone_answers' = Tail(zone_answers)
  /\ UNCHANGED <<inviting, store, timers, requesting, zones, zone_calls, refusals>>

(* timer, for the player the timer is named after.                         *)
TimerFired(p) ==
  /\ p \in timers
  /\ timers' = timers \ {p}
  /\ invite_timers' = invite_timers \ {p}
  /\ invites' = IF p \in invite_timers THEN Without(invites, {p}) ELSE invites
  /\ UNCHANGED <<memory, pending, pending_queries, store, requesting, zoning, outbox>>

-----------------------------------------------------------------------------
(* The host (external) *)

(* The numbers of a set in their order. *)
InOrder(numbers) ==
  CHOOSE s \in [1 .. Cardinality(numbers) -> numbers] :
     ToSet(s) = numbers /\ \A i, j \in DOMAIN s : i < j => s[i] < s[j]

OfTypes(types) == {c \in ToSet(outbox) : c.type \in types}

(* The zone commands of a batch: they keep their order. *)
ZoneCommandsOf(batch) ==
  LET at == InOrder({i \in DOMAIN batch : batch[i].type \in {"upsert", "remove"}})
  IN  [n \in DOMAIN at |-> batch[at[n]]]

AcceptBatch ==
  /\ outbox # <<>>
  /\ outbox' = <<>>
  /\ calls' = calls \cup OfTypes({"get", "cas", "query"})
  /\ zone_calls' = zone_calls \o ZoneCommandsOf(outbox)
  /\ timers' = timers \cup {c.player : c \in OfTypes({"timer"})}
  /\ UNCHANGED <<plugin, store, answers, zones, zone_answers, refusals>>

(* A refused batch, and the plugin's CommandBatchRejected handler, which   *)
(* takes any refusal for that of its save.  batch_rejection refuses        *)
(* storage and zone commands, reply_rejection batches with neither.        *)
RejectBatch ==
  /\ outbox # <<>>
  /\ IF OfTypes({"get", "cas", "upsert", "remove"}) # {}
     THEN "batch_rejection" \in Faults
     ELSE "reply_rejection" \in Faults
  /\ outbox' = <<>>
  /\ pending' = {update \in pending : update.stage # "save"}
  /\ UNCHANGED <<memory, inviting, host>>

ExecuteGet(call) ==
  /\ call.type = "get"
  /\ \E outcome \in ReadOutcomes :
        answers' = answers \cup {[type |-> "get", outcome |-> outcome,
                                  version |-> store.version,
                                  value |-> store.value]}
  /\ UNCHANGED store

ExecuteCas(call) ==
  /\ call.type = "cas"
  /\ \E x \in CasExecutions(store, call.expected, call.value) :
        /\ store' = x.record
        /\ answers' = answers \cup {[type |-> "cas", request |-> call.request,
                                     outcome |-> x.outcome,
                                     version |-> x.record.version]}

(* The player is on the list, or is offline or ambiguous. *)
ExecuteQuery(call) ==
  /\ call.type = "query"
  /\ \E found \in BOOLEAN :
        /\ found => call.query.kind = "invite" \/ store.version < MaxVersion
        /\ answers' = answers \cup {[type |-> "players", query |-> call.query,
                                     found |-> found]}
  /\ UNCHANGED store

Execute(type) ==
  \E call \in {c \in calls : c.type = type} :
     /\ calls' = calls \ {call}
     /\ ExecuteGet(call) \/ ExecuteCas(call) \/ ExecuteQuery(call)
     /\ UNCHANGED <<plugin, timers, zoning, outbox>>

(* Zone commands are executed and answered in order. *)
ExecuteZone ==
  /\ zone_calls # <<>>
  /\ LET call == Head(zone_calls)
         answer(applied) == [zone |-> call.zone, applied |-> applied]
     IN  \/ /\ zones' = IF call.type = "upsert"
                        THEN With(zones, call.zone, call.rights)
                        ELSE Without(zones, {call.zone})
            /\ zone_answers' = Append(zone_answers, answer(TRUE))
            /\ UNCHANGED refusals
         \/ /\ "zone_refusal" \in Faults
            /\ refusals < MaxRefusals
            /\ refusals' = refusals + 1
            /\ zone_answers' = Append(zone_answers, answer(FALSE))
            /\ UNCHANGED zones
  /\ zone_calls' = Tail(zone_calls)
  /\ UNCHANGED <<plugin, store, timers, requesting, outbox>>

(* Another instance starts; the zones and the store outlive the last one.  *)
(* The zone commands the host accepted have been executed by then; the     *)
(* storage requests may have been or not.                                  *)
Restart ==
  /\ "restart" \in Faults
  /\ zone_calls = <<>>
  /\ towns' = NoTowns /\ storage_version' = 0 /\ loaded' = FALSE
  /\ startup_zones' = {} /\ pending' = {}
  /\ pending_queries' = {} /\ invites' = <<>> /\ invite_timers' = {}
  /\ timers' = {} /\ outbox' = <<Get>> /\ calls' = {} /\ answers' = {}
  /\ zone_answers' = <<>>
  /\ UNCHANGED <<store, zones, zone_calls, refusals>>

-----------------------------------------------------------------------------
Init ==
  /\ towns = NoTowns /\ storage_version = 0 /\ loaded = FALSE
  /\ startup_zones = {} /\ pending = {}
  /\ pending_queries = {} /\ invites = <<>> /\ invite_timers = {}
  /\ timers = {} /\ outbox = <<Get>> /\ calls = {} /\ answers = {}
  /\ zone_calls = <<>> /\ zone_answers = <<>>
  /\ store \in InitialStores
  /\ zones = <<>>
  /\ refusals = 0

Command ==
  \E p \in Players :
     \/ \E name \in Names : Create(p, name) \/ Join(p, name)
     \/ \E target \in Players :
           \/ \E kind \in {"invite", "trust", "untrust"} : Ask(kind, p, target)
           \/ \E add \in BOOLEAN : Trust(p, target, add)
           \/ \E role \in {"officer", "member"} : SetRole(p, target, role)
     \/ Leave(p)
     \/ \E chunk \in Chunks : ClaimChunk(p, chunk) \/ UnclaimChunk(p, chunk)
     \/ \E enabled \in BOOLEAN : Flag(p, enabled)

Callback ==
  \/ Command
  \/ \E type \in {"get", "cas", "players"} : Deliver(type)
  \/ ZoneAnswered
  \/ \E p \in Players : TimerFired(p)

Next ==
  \/ Callback
  \/ AcceptBatch \/ RejectBatch
  \/ \E type \in {"get", "cas", "query"} : Execute(type)
  \/ ExecuteZone
  \/ Restart

Spec == Init /\ [][Next]_vars

(* The host decides on every batch, executes every command, delivers every *)
(* answer and fires every timer; queries do not hold up storage.           *)
Fairness ==
  /\ WF_vars(AcceptBatch)
  /\ \A type \in {"get", "cas", "query"} : WF_vars(Execute(type))
  /\ \A type \in {"get", "cas", "players"} : WF_vars(Deliver(type))
  /\ WF_vars(ExecuteZone) /\ WF_vars(ZoneAnswered)
  /\ \A p \in Players : WF_vars(TimerFired(p))

FairSpec == Spec /\ Fairness
-----------------------------------------------------------------------------
(* Properties *)

ZoneActions == [action: {"add", "remove", "sync"}, town: Names,
                chunks: SUBSET Chunks]

RequestIds == {"save", "rollback"} \X Nat

(* A pending update; one that waits for zones waits for at least one.      *)
IsUpdate(u) ==
  /\ u \in [stage: {"save", "zone", "rollback"}, request: RequestIds,
            before: {u.before}, after: {u.after},
            zone_action: SUBSET ZoneActions, awaiting: SUBSET ZoneIds,
            failed: BOOLEAN]
  /\ Charter!IsRegister(u.before) /\ Charter!IsRegister(u.after)
  /\ u.stage = "zone" <=> u.awaiting # {}

Queries == [kind: {"invite", "trust", "untrust"}, town: Names, target: Players]

RightsRecords == [allowed: SUBSET Players, public_use: BOOLEAN]

IsStorageCall(c) ==
  \/ c = Get
  \/ c \in [type: {"query"}, query: Queries]
  \/ /\ c.type = "cas"
     /\ c \in [type: {"cas"}, request: RequestIds, expected: Nat,
               value: {c.value}]
     /\ Charter!IsRegister(c.value)

ZoneCalls ==
  [type: {"upsert"}, zone: ZoneIds, rights: RightsRecords]
    \cup [type: {"remove"}, zone: ZoneIds]

IsAnswer(a) ==
  \/ a \in [type: {"players"}, query: Queries, found: BOOLEAN]
  \/ a \in [type: {"cas"}, request: RequestIds, version: Nat,
            outcome: {"committed", "refused", "failed"}]
  \/ /\ a.type = "get"
     /\ a \in [type: {"get"}, outcome: {"read", "failed"}, version: Nat,
               value: {a.value}]
     /\ Charter!IsRegister(a.value)

(* Every variable has the values its Rust type and the settings allow, and *)
(* a pending update or load that waits for zones waits for at least one.   *)
TypeOK ==
  /\ Charter!IsRegister(towns)
  /\ storage_version \in Nat
  /\ loaded \in BOOLEAN
  /\ startup_zones \in
       SUBSET [remaining: (SUBSET ZoneIds) \ {{}}, failed: BOOLEAN]
  /\ \A u \in pending : IsUpdate(u)
  /\ pending_queries \in SUBSET Queries
  /\ DOMAIN invites \subseteq Players
  /\ invites \in [DOMAIN invites -> Names]
  /\ invite_timers \in SUBSET Players
  /\ store \in [version: Nat, value: {store.value}]
  /\ Charter!IsRegister(store.value)
  /\ DOMAIN zones \subseteq ZoneIds
  /\ zones \in [DOMAIN zones -> RightsRecords]
  /\ timers \in SUBSET Players
  /\ \A i \in DOMAIN outbox : \/ IsStorageCall(outbox[i])
                              \/ outbox[i] \in ZoneCalls
                              \/ outbox[i] \in [type: {"timer"}, player: Players]
  /\ \A c \in calls : IsStorageCall(c)
  /\ \A a \in answers : IsAnswer(a)
  /\ zone_calls \in Seq(ZoneCalls)
  /\ zone_answers \in Seq([zone: ZoneIds, applied: BOOLEAN])
  /\ refusals \in Nat

(* Every command is decided and every update computed from the towns in    *)
(* memory, so while they carry the stored version they are the stored      *)
(* towns, through saves, rollbacks and reloads.                            *)
MemoryIsStored ==
  loaded /\ storage_version = store.version => towns = store.value

(* The stored towns stay lawful and change by one decision, or the undoing *)
(* of one, at a time: a command that finds the towns changed by others     *)
(* since it was given, and a zone refused late, never mix two changes.     *)
CharterSpec == Charter!Spec

(* README.md:11: every change rewrites each claim's zone, and a refused    *)
(* rewrite rolls the change back.  When no update is pending and no zone   *)
(* command is left, the zones are those of the towns: each claim has one,  *)
(* open to its members and guests of now, and there is no other.           *)
ZonesMatch ==
  /\ loaded /\ pending = {}
  /\ OfTypes({"upsert", "remove"}) = {} /\ zone_calls = <<>>
  => zones = [zone \in ClaimZones(towns) |-> Rights(towns[zone[1]])]

(* Every update is settled: "Another town update is committing; retry." is *)
(* not the last answer the plugin gives.                                   *)
ChangeEnds == pending # {} ~> pending = {}

(* README.md:3: invitations expire on timers.                              *)
InvitesExpire ==
  \A p \in Players : p \in DOMAIN invites ~> p \notin DOMAIN invites

(* lib.rs:214 answers a command that finds an update pending with "Another *)
(* town update is committing; retry.": an invitation is used up by         *)
(* expiring, by a restart or by joining, so that join can be tried again.  *)
(* The code breaks this: join takes the invitation before save refuses     *)
(* (README.md, Known disagreements).                                       *)
InvitationKept ==
  [][\A p \in DOMAIN invites \ DOMAIN invites' :
        \/ p \in timers \ timers'
        \/ ~ loaded'
        \/ \E update \in pending' : p \in Members(update.after[invites[p]])]_vars
=============================================================================
