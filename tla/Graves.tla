------------------------------- MODULE Graves -------------------------------
(***************************************************************************)
(* sources/graves/src/lib.rs: protection of death graves.                  *)
(*                                                                         *)
(* The server puts the drops of a death into a barrel and tells the        *)
(* plugin.  The plugin protects the cell with a zone for the owner, keeps  *)
(* a durable table of the graves, and a recurring sweep removes the zone   *)
(* when the private window is over.                                        *)
(*                                                                         *)
(* A grave is identified by its cell, which also names its zone.  Every    *)
(* callback sets tick to the tick it runs at, so tick is now here.  Only   *)
(* the distinctness of request ids and versions matters: a new one is a    *)
(* number nothing else carries.  Chat messages always share a batch with a *)
(* host command and are left out.                                          *)
(***************************************************************************)
EXTENDS HostCalls, Sequences, FiniteSets, Functions

CONSTANTS
  Players, Cells,
  MaxGraves,        \* MAX_GRAVES
  PublicAfter,      \* public_after_ticks
  CellReuse,        \* a death may fall on a cell that held a grave before
  MaxTick,          \* bound: the last tick
  MaxUnderWay,      \* bound: what is under way when an event arrives
  MaxZoneCommands   \* bound: zone commands under way when an answer arrives

ASSUME LimitsAssumption == MaxGraves \in Nat \ {0} /\ PublicAfter \in Nat \ {0}

ASSUME CellsAssumption == IsFiniteSet(Cells)

ASSUME BoundsAssumption == /\ CellReuse \in BOOLEAN
                           /\ MaxTick \in Nat
                           /\ MaxUnderWay \in Nat
                           /\ MaxZoneCommands \in Nat

VARIABLES
  (* the fields of struct Graves *)
  graves,           \* cell -> [owner, public_at, protected]
  storage_version, loaded, sweep_armed, dirty, pending,
  (* the world *)
  now,              \* the tick
  barrels,          \* the barrels there are: cell -> [owner, deadline]
  used,             \* the cells that ever held a grave
  (* the host *)
  store,            \* the record under the key graves-v1
  zones,            \* the zones there are: cell -> owner
  timer,            \* the sweep timer runs
  outbox,           \* what the running callback returned so far
  calls, answers,   \* storage requests not executed, answers not delivered
  zone_calls, zone_answers

plugin == <<graves, storage_version, loaded, sweep_armed, dirty, pending>>
world == <<now, barrels, used>>
storage == <<calls, answers, store>>
zoning == <<zones, zone_calls, zone_answers>>
vars == <<plugin, world, storage, zoning, timer, outbox>>

-----------------------------------------------------------------------------
(* Data *)

Graveyards ==
  UNION {[S -> [owner: Players, public_at: 0 .. MaxTick, protected: BOOLEAN]] :
           S \in SUBSET Cells}

Without(table, cells) == [c \in DOMAIN table \ cells |-> table[c]]

Insert(table, cell, grave) ==
  [c \in DOMAIN table \cup {cell} |-> IF c = cell THEN grave ELSE table[c]]

(* The stored graves, and those only memory has. *)
Merged(stored, local) ==
  [c \in DOMAIN stored \cup DOMAIN local |->
     IF c \in DOMAIN stored THEN stored[c] ELSE local[c]]

(* decode accepts the table. *)
Decodable(table) == Cardinality(DOMAIN table) <= MaxGraves

(* The elements of a finite set, in some order. *)
Listed(S) == CHOOSE s \in [1 .. Cardinality(S) -> S] : Range(s) = S

(* The numbers of a finite set, in their order. *)
InOrder(numbers) ==
  CHOOSE s \in [1 .. Cardinality(numbers) -> numbers] :
     Range(s) = numbers /\ \A i, j \in DOMAIN s : i < j => s[i] < s[j]

-----------------------------------------------------------------------------
(* Commands *)

Upsert(cell, owner) == [type |-> "upsert", cell |-> cell, owner |-> owner]
Remove(cell) == [type |-> "remove", cell |-> cell]
ScheduleTimer == [type |-> "timer"]
Get(request) == [type |-> "get", request |-> request]
Cas(request, expected, table) ==
  [type |-> "cas", request |-> request, expected |-> expected, value |-> table]

(* The zone commands of a batch, in their order. *)
ZoneCommandsOf(batch) ==
  LET at == InOrder({i \in DOMAIN batch : batch[i].type \in {"upsert", "remove"}})
  IN  [n \in DOMAIN at |-> batch[at[n]]]

StorageCalls == {c \in Range(outbox) : c.type \in {"get", "cas"}} \cup calls

(* A number nothing carries.  A request id is never given twice to one     *)
(* instance, a version never twice to one key.                             *)
Unused(numbers) ==
  CHOOSE n \in 1 .. Cardinality(numbers) + 1 : n \notin numbers

NewRequest == Unused(pending \cup {c.request : c \in StorageCalls \cup answers})

NewVersion ==
  Unused({store.version, storage_version}
           \cup {c.expected : c \in {d \in StorageCalls : d.type = "cas"}}
           \cup {a.version : a \in answers})

(* Mutant: save forgets that it could not write. *)
Save_Forgetful(waiting, unsaved, commands) ==
  IF loaded' /\ waiting = {}
  THEN /\ pending' = {NewRequest}
       /\ dirty' = unsaved
       /\ outbox' = outbox \o commands
                     \o <<Cas(NewRequest, storage_version', graves')>>
  ELSE /\ pending' = waiting
       /\ dirty' = unsaved
       /\ outbox' = outbox \o commands

(* save, with what is pending and dirty when it is called: one write at a  *)
(* time, and none before the table is loaded.                              *)
Save(waiting, unsaved, commands) ==
  IF loaded' /\ waiting = {}
  THEN /\ pending' = {NewRequest}
       /\ dirty' = unsaved
       /\ outbox' = outbox \o commands
                     \o <<Cas(NewRequest, storage_version', graves')>>
  ELSE /\ pending' = waiting
       /\ dirty' = TRUE
       /\ outbox' = outbox \o commands

(* The private graves whose window is over. *)
Due(table) ==
  {c \in DOMAIN table : table[c].protected /\ table[c].public_at <= now}

(* Mutant: a sweep that found nothing due is the last one. *)
SweepAndSave_Once(table, armed, waiting) ==
  LET due   == IF loaded' THEN Due(table) ELSE {}
      swept == [c \in DOMAIN table |->
                  [table[c] EXCEPT !.protected = @ /\ c \notin due]]
      again == due # {} /\ \E c \in DOMAIN swept : swept[c].protected
      commands == Listed({Remove(c) : c \in due})
                    \o (IF again THEN <<ScheduleTimer>> ELSE <<>>)
  IN  /\ graves' = swept
      /\ sweep_armed' = (armed \/ again)
      /\ IF dirty \/ due # {}
         THEN Save(waiting, FALSE, commands)
         ELSE /\ pending' = waiting
              /\ outbox' = outbox \o commands
              /\ UNCHANGED dirty

(* sweep_and_save: every due grave becomes public, the next sweep is       *)
(* scheduled while a private grave is left, and a changed table is saved.  *)
SweepAndSave(table, armed, waiting) ==
  LET due   == IF loaded' THEN Due(table) ELSE {}
      swept == [c \in DOMAIN table |->
                  [table[c] EXCEPT !.protected = @ /\ c \notin due]]
      again == loaded' /\ \E c \in DOMAIN swept : swept[c].protected
      commands == Listed({Remove(c) : c \in due})
                    \o (IF again THEN <<ScheduleTimer>> ELSE <<>>)
  IN  /\ graves' = swept
      /\ sweep_armed' = (armed \/ again)
      /\ IF dirty \/ due # {}
         THEN Save(waiting, FALSE, commands)
         ELSE /\ pending' = waiting
              /\ outbox' = outbox \o commands
              /\ UNCHANGED dirty

-----------------------------------------------------------------------------
(* What happens in the world *)

ZoneCommands == Len(outbox) + Len(zone_calls) + Len(zone_answers)

CanHappen == ZoneCommands + Cardinality(calls) + Cardinality(answers) <= MaxUnderWay

Tick == /\ outbox = <<>>
        /\ now < MaxTick
        /\ now' = now + 1
        /\ UNCHANGED <<plugin, barrels, used, storage, zoning, timer, outbox>>

(* Mutant: the newest grave makes room. *)
Oldest_Newest(table) ==
  {c \in DOMAIN table : \A d \in DOMAIN table : table[c].public_at >= table[d].public_at}

(* The graves that may have to make room; a BTreeMap takes the first.      *)
Oldest(table) ==
  {c \in DOMAIN table : \A d \in DOMAIN table : table[c].public_at <= table[d].public_at}

(* Mutant: a grave that arrives before the load is recorded and not zoned. *)
Record_Unzoned(cell, owner, evicted) ==
  /\ graves' = Insert(Without(graves, evicted), cell,
                      [owner |-> owner, public_at |-> now + PublicAfter,
                       protected |-> TRUE])
  /\ sweep_armed' = TRUE
  /\ UNCHANGED <<storage_version, loaded>>
  /\ Save(pending, dirty,
          Listed({Remove(c) : c \in {d \in evicted : graves[d].protected}})
            \o (IF loaded THEN <<Upsert(cell, owner)>> ELSE <<>>)
            \o (IF sweep_armed THEN <<>> ELSE <<ScheduleTimer>>))

(* The part of grave_created for a cell without a record. *)
Record(cell, owner, evicted) ==
  /\ graves' = Insert(Without(graves, evicted), cell,
                      [owner |-> owner, public_at |-> now + PublicAfter,
                       protected |-> TRUE])
  /\ sweep_armed' = TRUE
  /\ UNCHANGED <<storage_version, loaded>>
  /\ Save(pending, dirty,
          Listed({Remove(c) : c \in {d \in evicted : graves[d].protected}})
            \o <<Upsert(cell, owner)>>
            \o (IF sweep_armed THEN <<>> ELSE <<ScheduleTimer>>))

(* A death fills a barrel, and grave_created handles it. *)
GraveCreated(cell, owner) ==
  /\ CanHappen
  /\ now + PublicAfter < MaxTick
  /\ cell \notin IF CellReuse THEN DOMAIN barrels ELSE used
  /\ barrels' = Insert(barrels, cell,
                       [owner |-> owner, deadline |-> now + PublicAfter])
  /\ used' = used \cup {cell}
  /\ \/ /\ cell \in DOMAIN graves
        /\ UNCHANGED <<plugin, outbox>>
     \/ /\ cell \notin DOMAIN graves
        /\ Cardinality(DOMAIN graves) < MaxGraves
        /\ Record(cell, owner, {})
     \/ /\ cell \notin DOMAIN graves
        /\ Cardinality(DOMAIN graves) >= MaxGraves
        /\ \E oldest \in Oldest(graves) : Record(cell, owner, {oldest})
  /\ UNCHANGED <<now, storage, zoning, timer>>

(* A player breaks a barrel, and broken handles it. *)
Broken(cell) ==
  /\ CanHappen
  /\ cell \in DOMAIN barrels
  /\ barrels' = Without(barrels, {cell})
  /\ IF cell \in DOMAIN graves
     THEN /\ graves' = Without(graves, {cell})
          /\ UNCHANGED <<storage_version, loaded, sweep_armed>>
          /\ Save(pending, dirty,
                  IF graves[cell].protected THEN <<Remove(cell)>> ELSE <<>>)
     ELSE UNCHANGED <<plugin, outbox>>
  /\ UNCHANGED <<now, used, storage, zoning, timer>>

-----------------------------------------------------------------------------
(* Callbacks *)

TimerFired ==
  /\ timer
  /\ CanHappen
  /\ timer' = FALSE
  /\ UNCHANGED <<loaded, storage_version>>
  /\ SweepAndSave(graves, FALSE, pending)
  /\ UNCHANGED <<world, storage, zoning>>

(* Mutant: a load starts the private windows anew. *)
TableRead_Restarts(answer) ==
  /\ answer.type = "get"
  /\ answer.outcome = "read" /\ Decodable(answer.value)
  /\ loaded' = TRUE
  /\ storage_version' = answer.version
  /\ SweepAndSave([c \in DOMAIN Merged(answer.value, graves) |->
                     [Merged(answer.value, graves)[c]
                        EXCEPT !.public_at = now + PublicAfter]], sweep_armed, {})

(* storage_get: any read answers, whatever its request was. *)
TableRead(answer) ==
  /\ answer.type = "get"
  /\ answer.outcome = "read" /\ Decodable(answer.value)
  /\ loaded' = TRUE
  /\ storage_version' = answer.version
  /\ SweepAndSave(Merged(answer.value, graves), sweep_armed, {})

(* A read that failed, or a table decode does not accept. *)
Unreadable(answer) ==
  /\ answer.type = "get"
  /\ answer.outcome = "failed" \/ ~ Decodable(answer.value)
  /\ loaded' = FALSE
  /\ UNCHANGED <<graves, storage_version, sweep_armed, dirty, pending, outbox>>

(* Mutant: what changed while the write was under way is not written. *)
Saved_Once(answer) ==
  /\ answer.type = "cas"
  /\ answer.request \in pending
  /\ pending' = {}
  /\ UNCHANGED <<graves, sweep_armed, dirty>>
  /\ \/ /\ answer.outcome = "committed"
        /\ storage_version' = answer.version
        /\ UNCHANGED <<loaded, outbox>>
     \/ /\ answer.outcome # "committed"
        /\ loaded' = FALSE
        /\ outbox' = Append(outbox, Get(NewRequest))
        /\ UNCHANGED storage_version

(* storage_cas, for the write that is awaited. *)
Saved(answer) ==
  /\ answer.type = "cas"
  /\ answer.request \in pending
  /\ UNCHANGED <<graves, sweep_armed>>
  /\ \/ /\ answer.outcome = "committed"
        /\ storage_version' = answer.version
        /\ UNCHANGED loaded
        /\ IF dirty
           THEN Save({}, FALSE, <<>>)
           ELSE pending' = {} /\ UNCHANGED <<dirty, outbox>>
     \/ /\ answer.outcome # "committed"
        /\ loaded' = FALSE
        /\ pending' = {}
        /\ outbox' = Append(outbox, Get(NewRequest))
        /\ UNCHANGED <<storage_version, dirty>>

(* A write nobody awaits. *)
Ignored(answer) ==
  /\ answer.type = "cas"
  /\ answer.request \notin pending
  /\ UNCHANGED <<plugin, outbox>>

Deliver ==
  \E answer \in answers :
     /\ ZoneCommands <= MaxZoneCommands
     /\ answers' = answers \ {answer}
     /\ \/ TableRead(answer)
        \/ Unreadable(answer)
        \/ Saved(answer)
        \/ Ignored(answer)
     /\ UNCHANGED <<world, calls, store, zoning, timer>>

(* Mutant: the answer for a grave no longer tracked makes a record. *)
ZoneAnswered_Creates ==
  /\ zone_answers # <<>>
  /\ LET answer == Head(zone_answers)
     IN  graves' = [c \in DOMAIN graves \cup {answer.cell} |->
                      IF c \notin DOMAIN graves
                      THEN [protected |-> answer.applied]
                      ELSE IF c = answer.cell
                           THEN [graves[c] EXCEPT !.protected = answer.applied]
                           ELSE graves[c]]
  /\ zone_answers' = Tail(zone_answers)
  /\ UNCHANGED <<storage_version, loaded, sweep_armed, dirty, pending, world,
                 storage, zones, zone_calls, timer, outbox>>

(* Whatever the command was, its outcome becomes the record's protected. *)
ZoneAnswered ==
  /\ zone_answers # <<>>
  /\ LET answer == Head(zone_answers)
     IN  graves' = [c \in DOMAIN graves |->
                      IF c = answer.cell
                      THEN [graves[c] EXCEPT !.protected = answer.applied]
                      ELSE graves[c]]
  /\ zone_answers' = Tail(zone_answers)
  /\ UNCHANGED <<storage_version, loaded, sweep_armed, dirty, pending, world,
                 storage, zones, zone_calls, timer, outbox>>

-----------------------------------------------------------------------------
(* The host (external) *)

AcceptBatch ==
  /\ outbox # <<>>
  /\ outbox' = <<>>
  /\ calls' = StorageCalls
  /\ zone_calls' = zone_calls \o ZoneCommandsOf(outbox)
  /\ timer' = (timer \/ ScheduleTimer \in Range(outbox))
  /\ UNCHANGED <<plugin, world, answers, store, zones, zone_answers>>

(* A refused batch, and the plugin's CommandBatchRejected handler. *)
RejectBatch ==
  /\ "batch_rejection" \in Faults
  /\ outbox # <<>>
  /\ outbox' = <<>>
  /\ pending' = {}
  /\ dirty' = TRUE
  /\ UNCHANGED <<graves, storage_version, loaded, sweep_armed, world, storage,
                 zoning, timer>>

ExecuteGet(call) ==
  /\ call.type = "get"
  /\ \E outcome \in ReadOutcomes :
        answers' = answers \cup {[type |-> "get", request |-> call.request,
                                  outcome |-> outcome, version |-> store.version,
                                  value |-> store.value]}
  /\ UNCHANGED store

ExecuteCas(call) ==
  /\ call.type = "cas"
  /\ \E x \in CasOutcomes(store, call.expected,
                          [version |-> NewVersion, value |-> call.value]) :
        /\ store' = x.record
        /\ answers' = answers \cup {[type |-> "cas", request |-> call.request,
                                     outcome |-> x.outcome,
                                     version |-> x.record.version]}

Execute ==
  \E call \in calls :
     /\ calls' = calls \ {call}
     /\ ExecuteGet(call) \/ ExecuteCas(call)
     /\ UNCHANGED <<plugin, world, zoning, timer, outbox>>

(* Zone commands are executed and answered in order. *)
ExecuteZone ==
  /\ zone_calls # <<>>
  /\ LET call == Head(zone_calls)
     IN  \/ /\ zones' = IF call.type = "upsert"
                        THEN Insert(zones, call.cell, call.owner)
                        ELSE Without(zones, {call.cell})
            /\ zone_answers' = Append(zone_answers,
                                      [cell |-> call.cell, applied |-> TRUE])
         \/ /\ "zone_refusal" \in Faults
            /\ UNCHANGED zones
            /\ zone_answers' = Append(zone_answers,
                                      [cell |-> call.cell, applied |-> FALSE])
  /\ zone_calls' = Tail(zone_calls)
  /\ UNCHANGED <<plugin, world, storage, timer, outbox>>

(* Another instance starts; the zones and the store outlive the last one.  *)
(* The zone commands the host accepted have been executed by then; the     *)
(* storage requests may have been or not.                                  *)
Restart ==
  /\ "restart" \in Faults
  /\ zone_calls = <<>>
  /\ graves' = <<>> /\ storage_version' = 0 /\ loaded' = FALSE
  /\ sweep_armed' = FALSE /\ dirty' = FALSE /\ pending' = {}
  /\ timer' = FALSE
  /\ outbox' = <<Get(1)>> /\ calls' = {} /\ answers' = {}
  /\ zone_answers' = <<>>
  /\ UNCHANGED <<world, store, zones, zone_calls>>

-----------------------------------------------------------------------------
Init ==
  /\ graves = <<>> /\ storage_version = 0 /\ loaded = FALSE
  /\ sweep_armed = FALSE /\ dirty = FALSE /\ pending = {}
  /\ now = 0 /\ barrels = <<>> /\ used = {}
  /\ store = [version |-> 0, value |-> <<>>]
  /\ zones = <<>>
  /\ timer = FALSE
  /\ outbox = <<Get(1)>> /\ calls = {} /\ answers = {}
  /\ zone_calls = <<>> /\ zone_answers = <<>>

Next ==
  \/ Tick
  \/ \E cell \in Cells, owner \in Players : GraveCreated(cell, owner)
  \/ \E cell \in Cells : Broken(cell)
  \/ TimerFired \/ Deliver \/ ZoneAnswered
  \/ AcceptBatch \/ RejectBatch \/ Execute \/ ExecuteZone \/ Restart

Spec == Init /\ [][Next]_vars

(* Time passes, and the host decides on every batch, executes every call,  *)
(* delivers every answer and fires every timer.  Deliver and TimerFired    *)
(* are strongly fair only because the bounds MaxZoneCommands and           *)
(* MaxUnderWay disable them while the host is busy.                        *)
Fairness ==
  /\ WF_vars(Tick) /\ WF_vars(AcceptBatch) /\ WF_vars(Execute)
  /\ WF_vars(ExecuteZone) /\ SF_vars(Deliver) /\ WF_vars(ZoneAnswered)
  /\ SF_vars(TimerFired)

FairSpec == Spec /\ Fairness
-----------------------------------------------------------------------------
(* Properties *)

Commands ==
  [type: {"upsert"}, cell: Cells, owner: Players]
    \cup [type: {"remove"}, cell: Cells]
    \cup {ScheduleTimer}
    \cup [type: {"get"}, request: Nat]
    \cup [type: {"cas"}, request: Nat, expected: Nat, value: Graveyards]

Answers ==
  [type: {"get"}, request: Nat, outcome: {"read", "failed"}, version: Nat,
   value: Graveyards]
    \cup [type: {"cas"}, request: Nat, outcome: {"committed", "refused", "failed"},
          version: Nat]

(* Every variable has the values its Rust type and the world allow; at     *)
(* most one save is awaited.                                               *)
TypeOK ==
  /\ graves \in Graveyards
  /\ storage_version \in Nat
  /\ loaded \in BOOLEAN /\ sweep_armed \in BOOLEAN /\ dirty \in BOOLEAN
  /\ pending \in SUBSET Nat /\ Cardinality(pending) <= 1
  /\ now \in 0 .. MaxTick
  /\ DOMAIN barrels \subseteq used /\ used \subseteq Cells
  /\ \A c \in DOMAIN barrels : barrels[c] \in [owner: Players, deadline: 0 .. MaxTick]
  /\ store \in [version: Nat, value: Graveyards]
  /\ DOMAIN zones \subseteq Cells /\ Range(zones) \subseteq Players
  /\ timer \in BOOLEAN
  /\ outbox \in Seq(Commands)
  /\ calls \in SUBSET Commands
  /\ answers \in SUBSET Answers
  /\ zone_calls \in Seq(Commands)
  /\ zone_answers \in Seq([cell: Cells, applied: BOOLEAN])

(* lib.rs:117 "a restart neither resets nor shortens a grave's private     *)
(* window": whatever was lost, merged or reloaded, the record of a grave   *)
(* names its owner and the deadline it was created with.                   *)
DeadlineKept ==
  \A c \in DOMAIN graves \cap DOMAIN barrels :
     /\ graves[c].owner = barrels[c].owner
     /\ graves[c].public_at = barrels[c].deadline

(* A zone is only given up for a grave that was broken, whose window is    *)
(* over, or that is the oldest of a full table: "The oldest grave loses    *)
(* its protection early rather than the newest" (lib.rs:295).              *)
RemovalIsDue ==
  [][\A c \in Cells :
       /\ Remove(c) \in Range(outbox') \ Range(outbox)
       /\ c \in DOMAIN barrels'
       /\ now < barrels[c].deadline
       => /\ Cardinality(DOMAIN graves) >= MaxGraves
          /\ \A d \in DOMAIN graves : graves[d].public_at >= barrels[c].deadline
    ]_vars

(* lib.rs:446 "reload and re-apply this table on top of what the key holds *)
(* now": when there is nothing left to save, the stored table has exactly  *)
(* the graves of memory.  Only protected may differ, whose changes by zone *)
(* answers are not saved on their own.                                     *)
Deadlines(table) == [c \in DOMAIN table |-> <<table[c].owner, table[c].public_at>>]

CleanIsSaved ==
  loaded /\ pending = {} /\ ~ dirty =>
     Deadlines(store.value) = Deadlines(graves)

(* What could not be written at once, because the table was not loaded or  *)
(* a write was under way, is written by a later answer itself: no other    *)
(* death or break need follow.  Unless some write fails, the store comes   *)
(* to hold exactly the graves of memory; after a failed one the code may   *)
(* never write them (CleanIsSaved; README.md, Known disagreements).        *)
WritesSucceed == [](\A a \in answers : a.type = "cas" => a.outcome = "committed")
ChangesAreStored ==
  WritesSucceed => (loaded ~> Deadlines(store.value) = Deadlines(graves))

(* README: "a protected zone over the grave cell" for its owner.  A grave  *)
(* on record as private has its zone once its commands are executed.       *)
PrivateGraveHasZone ==
  outbox = <<>> /\ zone_calls = <<>> =>
     \A c \in DOMAIN graves \cap DOMAIN barrels :
        graves[c].protected /\ now < graves[c].public_at =>
           c \in DOMAIN zones /\ zones[c] = graves[c].owner

(* lib.rs:82 "Whether the native zone owner still holds this grave's       *)
(* protection", once every command is answered.  The code breaks this: the *)
(* answer to a removal sets it too (README.md, Known disagreements).       *)
ProtectedMeansZone ==
  outbox = <<>> /\ zone_calls = <<>> /\ zone_answers = <<>> =>
     \A c \in DOMAIN graves : graves[c].protected => c \in DOMAIN zones

(* README: "At most 128 graves are tracked."  The code breaks this: the    *)
(* merge of a load is not trimmed (README.md, Known disagreements).        *)
TrackedBounded == Cardinality(DOMAIN graves) <= MaxGraves

(* README: "After public_after_seconds the zone is removed" and "Breaking  *)
(* a grave removes its record and its zone": no zone outlives its grave's  *)
(* private window for good.                                                *)
ZoneIsOver(c) == /\ c \in DOMAIN zones
                 /\ c \in DOMAIN barrels => now >= barrels[c].deadline
EveryZoneEnds == \A c \in Cells : ZoneIsOver(c) ~> c \notin DOMAIN zones
=============================================================================
