# A model of the Solaris default plugins

TLA+ models, model-checking runs and proofs for the plugins under `src/`. Each
plugin is a WebAssembly component (or a Lua script) driven by callbacks of the
Solaris server. The server is not in the repository; what the plugins rely on
from it is modelled as external actions, from how the code and its integration
tests use it.

## The system

A plugin keeps everything in the fields of one struct and does nothing on its
own. The host calls `init` once and then `on_events` with a list of events, one
call at a time; the commands a call returns are one batch. What makes this code
hard is what lies between the calls:

- **Admission is all or nothing.** The host accepts a whole batch or refuses it.
  A refusal comes back as `CommandBatchRejected`, alone in the next callback,
  and names no request. The plugin has to know which of its notes the batch held.
- **Everything is asynchronous.** Storage reads and compare-and-set writes, the
  list of online players, zone commands and teleports are answered by a later
  event, and other events are handled in between.
- **A write may end three ways**: committed, refused because the version moved,
  or failed, when it is unknown whether it committed.
- **Restarts.** A new instance starts from `Default` and `init`. Zones, receipts
  and the stored records outlive the old one; timers, answers under way and
  memory do not.
- **Bounded tables.** Most stores have a limit the decoder enforces, so a table
  one entry too long cannot be loaded again.

| Component | State | Operations | Must hold |
| --- | --- | --- | --- |
| `solaris-economy` | balances, the window of payment tokens, version, one pending update, one pending receipt probe | `/money`, `/pay`, `/econadmin`, storage answers, receipts | a payment happens once; memory is never taken for another ledger than the stored one; coins are conserved |
| `graves` | graves by cell, version, flags for the sweep and for unsaved changes, one pending save | death, break, sweep timer, load and merge, save, zone answers | the owner's window is kept; the zone is there during the window and gone after it; what changed is saved |
| `solaris-towns` | towns, one pending change in three stages, invitations and their timers, online queries | `/town ...`, storage, zone and query answers | members and zones follow the stored towns; a change ends or is rolled back |
| `solaris-permissions` | assignments, version, one pending update | `/perm`, storage answers, publication | the grants in force are those of a stored table and stay until newer ones replace them |
| `solaris-audit` | history, version, bounded queue, pending record | events to record, queries, storage answers | no accepted record is lost; only an unconfirmed one may be doubled; the newest are kept |
| `solaris-auth` | sessions, account of each, reads and saves under way | join, leave, `/register`, `/login`, `/changepassword`, timeout | only who knew the password is unlocked; an account is overwritten by its owner only; nobody stays locked |
| `solaris-essentials` | requests under way, teleport requests, replies, last positions | homes, warps, `/tpa`, `/msg`, `/back` | every answer finds its request; a request that can be accepted is the one shown, and ends; places change one at a time |
| `basic-economy` | ledgers, menus, reads and transactions under way | zone entry, menu click, transaction answers | items and ledger are one account; a menu, a read and a transaction exclude one another and belong to a present session |
| `land-claims` (Lua) | claims, version, pending change in three stages | `/claim`, storage and zone answers | zones follow claims, or the change is rolled back |
| `online-roster` (Lua) | queries under way by request and by player | `/who`, query answers | one query per player, and each ends |
| `chisel`, `geological-mines` | none | static contributions | nothing to model |

The components do not call each other: each has its own storage key, zones,
timers and requests. They compose with the host only, so the modules share
`HostCalls` and nothing else. `tools/`, `install.sh` and the evidence
directories build and describe the packages and have no run-time behaviour;
settlements are owned by the core server and only documented here.

## Modules

| Module | What it is |
| --- | --- |
| `HostCalls` | the host: batches, admission, versioned storage, and the faults an instance of a model may show (`Faults`) |
| `Money` | the abstract economy: balances and payments that happen once |
| `Economy` | `solaris-economy` with its storage and receipts |
| `EconomyProofs` | theorems about `Economy` |
| `Graves` | `graves` with the world's barrels, zones and the sweep timer |
| `GravesProofs` | theorems about `Graves` |
| `Charter` | the abstract towns: lawful, and changed by one decision at a time |
| `Towns` | `solaris-towns` with its storage, zones, queries and timers |
| `TownsProofs` | theorems about `Towns` and `Charter` |
| `Permissions` | `solaris-permissions` with its storage and the published grant table |
| `PermissionsProofs` | theorems about `Permissions` |
| `Audit` | `solaris-audit` with its storage |
| `AuditProofs` | theorems about `Audit` |
| `Auth` | `solaris-auth` with connections, timers and the stored accounts |
| `AuthProofs` | theorems about `Auth` |
| `Atlas` | the abstract homes and warps: one named place changes at a time |
| `Essentials` | `solaris-essentials` with its storage, queries, teleports and timers |
| `EssentialsProofs` | theorems about `Essentials` |
| `BasicEconomy` | `basic-economy` with menus, clicks, inventories and stored ledgers |
| `BasicEconomyProofs` | theorems about `BasicEconomy` |
| `MC*` | constants for TLC; every `MC*.cfg` is one question |

`Economy`, `Graves`, `Towns`, `Permissions`, `Audit`, `Auth`, `Essentials` and
`BasicEconomy` are compositions of one plugin with the host; the three abstract
modules (`Money`, `Charter`, `Atlas`) stand above them. A property that the code
breaks keeps its definition and says so.

### Conventions

- An `Option<T>` is a set of at most one element; a version of 0 is `None`.
- `outbox` is what the running callback has returned so far. A handler appends to
  it, so a callback with several events is several steps that fill one outbox;
  `AcceptBatch` or `RejectBatch` ends it. `RejectBatch` includes the plugin's
  handler, because nothing is delivered between a refusal and its event.
- `calls` are accepted storage requests, `answers` what was executed and not yet
  delivered. Both are sets: the host may execute and deliver in any order. Two
  equal outstanding calls are one element; only a repeated read or probe can be
  equal to another, and answering it once is one of the real behaviours. In
  `Audit` a refused batch may lead to a second write equal to the one under way, so
  both are bags there.
- A restart drops what was under way. An execution that happened before the
  restart is an `Execute` step before it.
- Chat messages matter only as content of a batch: in `Economy`, `Permissions` and
  `Audit` a batch may hold nothing else and still be refused, so `Message` is kept;
  in `Graves` every message shares its batch with a host command, and in `Towns` a
  query does what a chat batch could, so messages are left out. In `Essentials` an
  event that returns a message returns a batch, which may be refused and then undoes
  that event; the messages told apart are the two a property is about: what a player
  is shown of a request, and that a place was saved.
- Mutated definitions (`..._...`) stand beside the definition they vary and are
  used by no specification.

### Economy

| Code | Model |
| --- | --- |
| fields of `Economy` | the variables of the same names; the set of tokens is the range of `token_order` |
| `save` | `Save`; the request id `ledger-v<n>` is the number `n` |
| `pay`, `issue_pay` | `Pay` sends the receipt probe, `IssuePay` computes the payment when the probe is answered |
| `admin` | `Admin` with the balance the command leads to; `Balance(target) + delta` for `add` |
| `operation_answer`, `storage_cas` | `StatusAnswered`, `WriteAnswered`, `ApplyUpdate`, `Forget` |
| `storage_get` | `LedgerRead`: every read is taken, whatever it was requested for |
| `Settings::decode`, `encode` | `Decodable`; a ledger is a record of accounts and a token sequence |
| the host's receipts | `receipts`, an operation's revision, written with the batch that carries it |

`Money` is what the ledger promises: `Economy` implements it with every player's
balance (opened or not) and the payments that have a receipt.

### Graves

| Code | Model |
| --- | --- |
| fields of `Graves` | the variables of the same names; `tick` is `now`, since every callback raises it to the current tick |
| `zone_id` | the cell; a grave is identified by it |
| `grave_created` | `GraveCreated`, `Record`; the world fills a barrel in the same step |
| `broken` | `Broken`, with the barrel |
| `sweep`, `sweep_and_save` | `Due`, `SweepAndSave` |
| `save`, `storage_get`, `storage_cas` | `Save`, `TableRead`, `Unreadable`, `Saved`, `Ignored` |
| zone answers, timer, rejection | `ZoneAnswered`, `TimerFired`, `RejectBatch` |

Request ids and versions are only ever compared for equality, so a new one is
the smallest number nothing carries; the state space is finite without a bound
on them. The timer is a flag: once scheduled it may fire at any later time.
Where graves tie for the oldest, the code takes the first of its map and the
model any. Zone commands are executed and answered in order, and those accepted
before a restart are executed; the zones survive it, as the integration test of
the graves plugin expects.

### Towns

| Code | Model |
| --- | --- |
| fields of `Towns` | the variables of the same names; a player has one session, so invitations and their timers are named by the player |
| `load_request` | left out: an instance reads once |
| `PendingUpdate` | a record with the stage, request id, both registers of towns, `zone_action` with its town and chunk, and the zones awaited. An add or a removal awaits one zone, a sync all of them; `resync` is a `zone_action` that is a sync |
| `save` | `Save`; the ids `save-v<n>` and `rollback-v<n>` are pairs |
| the commands | `Create`, `Join`, `Leave`, `SetRole`, `ClaimChunk`, `UnclaimChunk`, `Trust`, `Flag`; `Ask` for those that first ask who is online |
| `online_players` | `PlayersAnswered`, with the towns of when it is answered |
| `storage_get`, `storage_cas` | `TownsRead`, `Unreadable`, `Committed`, `NotCommitted`, `RolledBack`, `NotRolledBack`, `Ignored` |
| `zone_answered` | `StartupAnswered`, `UpdateAnswered`, `UnawaitedZone` |
| `decode_towns`, `zone_id` | `Decodable`; a zone id is the town's name with the chunk |

`Charter` says what the stored towns promise: a player is in one town, a chunk in
one town, limits hold, and every step is one decision about one town or the
undoing of one. `Towns` implements it with the stored register. The decoder does
not compare the members of two towns, so that promise rests on the commands.

### Permissions

| Code | Model |
| --- | --- |
| fields of `Permissions` | the variables of the same names; the counter of `load-<n>` and `reload-<n>` is left out, since every read is taken |
| `save`, `user_command` | `Save`, `Set`, `Clear`; the request id `save-v<n>` is the number `n` |
| `command_entries`, `publish` | `CommandEntries`, `Publish`: the rows and the version of the memory they were made from, or a refusal |
| `has_node`, `/perm check` | `HasNode`, with the context asked for, if any; the node `node@context` is the pair of both |
| `storage_get`, `storage_cas`, rejection | `StorageGet`, `StorageCas`, `Ignored`, `RejectBatch` |

The host's admission of a command (`Allows`) looks for a row of the player's own and
falls back to everyone's; that is why `command_entries` writes a row for each
assignment even if its group has no nodes. `committed` remembers the assignments of
every stored version, so that the published rows can be compared with what was
stored at the version they claim.

The host may refuse a publication (`"publication_refusal"`). Its previous table then
stays in force, as solaris-permissions/README.md:7 says ("rejected updates retain
the previous table"), and the plugin logs it and goes on with the new assignments:
until the next publication admission follows older assignments than `/perm check`,
and nothing publishes the rows again by itself. `refused` remembers that the last
publication was refused. What holds with refusals is that admission follows one
stored table as a whole and never an older one than before; without one since, that
it follows the memory. `/perm check` with a context grants what admission grants for
the node or for `node@context`.

### Audit

| Code | Model |
| --- | --- |
| fields of `Audit` | the variables of the same names; a record is the number of its arrival |
| `append`, `process_queue` | `AppendRecord`, `ProcessQueue` |
| `storage_get`, `storage_cas` | `StorageGet`, `Committed`, `NotCommitted`, `Ignored` |
| `CommandBatchRejected` | `RejectBatch`: the pending record is queued again, whether the batch held its write or not |
| `/audit` | `Query`: a batch that holds only a message |

`log` lists every append that was stored. A full queue drops what arrives, which is
the documented bound; `NothingLost` is about records that were accepted. A refusal
only puts the record back: its write is sent again with the next event that runs
the queue. A refused reload leaves the history unloaded until the next restart.

### Auth

| Code | Model |
| --- | --- |
| fields of `Auth` | the variables of the same names; requests are named by their session, which has at most one read and one save under way |
| `PlayerJoined`, `PlayerLeft` | `Joined`, `Left` |
| `/register`, `/login`, `/changepassword` | `Register`, `Login`, `ChangePassword`, with `Save`, `Authenticate`, `Wrong`; `Unknown` for a session this instance has not seen |
| storage answers | `AccountRead`, `AccountSaved`, `Ignored` |
| `TimerFired` | `TimerFired` |
| the host's session | `link`: locked from the join, open after an unlock, closed, and gone when the plugin has been told |

Passwords stand for their hashes. The sessions of one account share its key and see
it at different versions. The plugin has no handler for `CommandBatchRejected`: if
the host refuses the batch of a join or of a login, the session has no timeout and no
read, or is authenticated and locked, and nothing repeats it. The model assumes that
these batches, of a few commands each, are accepted.

### Essentials

| Code | Model |
| --- | --- |
| fields of `Essentials` | the variables of the same names |
| `read_positions` behind `home_command`, `warp_mutation`, `warp_lookup` | `Place` with the kind of change or lookup |
| `back`, `tpa`, `message`, `tpa_accept`, `reply` | `Back`, `Ask`, `TpaAccept`, `Reply` |
| `storage_get` | `StorageGet`: `Lookup` or `Change` |
| `storage_cas`, `online_players`, `teleport` | `StorageCas`, `OnlinePlayers` with `Accepted`, `Requested`, `Texted`, and `Teleported` |
| `snapshot_correlations`, `restore_correlations` | `Snapshot`, `RejectBatch` |

A callback of the model has one event. The code copies its correlations before every
event and a refusal restores the last copy, so in a callback of several events all
but the last event would keep requests that were never sent (see the known
disagreements). Every event that tells a player something returns a batch; if the host
refuses it, `RejectBatch` puts back what the event changed. Commands that are answered
at once with a message and change nothing are left out. A position is its
dimension, which is all that `begin_teleport` decides on. `Atlas` is implemented by
the stored registers: although two changes may be saved under one request id, the
version lets at most one of them through.

### BasicEconomy

| Code | Model |
| --- | --- |
| fields of `BasicEconomy` | the variables of the same names, without `deferred_notices`; `rejected_batches` lists what the callback started |
| `zone_entered`, `/economy` | `Enter` with `StartCatalogRead` and its guards `Barred` |
| `storage_read`, `open_catalog` | `StorageRead`; a menu is named by the version of its ledger |
| `click` | `Valid`, `Agreed`, `Click` |
| `transaction_answered` | `TransactionAnswered`: both outcomes read the ledger again |
| `clear_player_session`, `zone_exited`, `player_left` | `Clear`, `Exit`, `PlayerLeft` |
| `reject_last_batch` | `Undone`, `RejectLastBatch`: the entries of the batch, the last first |

A callback may hold several events here, because the order in which a refusal undoes
them matters. `on_events` clears `rejected_batches` unless the refusal is the only
event, so the host has to report it alone, as the host contract says. The host moves
items and writes the ledger in one transaction (`ExecuteTransaction`), if the session
is present, the version is the expected one and the inventory allows it.

`opened` and `watching` tell the menu the plugin believes open from the one the
player looks at: a player who closes it is not reported, and `start_catalog_read`
then does nothing for it until it leaves the zone or the server.

## Runs

Passing runs (each must reach every action it enables and end without error):

| Run | Shows |
| --- | --- |
| `economy_ledger` | the safety of the ledger, its refinement of `Money` and that what is under way ends, with every fault except refused chat |
| `graves_windows` | no owner or deadline changes over restarts, refused batches and refused zones, for two owners |
| `graves_reuse` | with cells used again, failed reads and a table that overflows: what changed is saved, and a private grave loses its zone early only if it is the oldest of a full table |
| `graves_end` | a private grave has its zone during the window and loses it afterwards; unless a write fails, every change of the list comes to be stored |
| `towns_charter` | the stored towns implement `Charter`, and memory is never taken for other towns than the stored ones, with every fault but refused replies |
| `towns_zones` | between updates the zones are exactly those of the towns, although one zone is refused and writes are uncertain; updates end and invitations expire |
| `permissions_published` | the published grants were stored, agree with `/perm check` of that table and, unless the host refused the last publication, of the memory, and stay in force until newer ones replace them; an update ends |
| `audit_history` | no accepted record is lost, the history is the newest of what was appended, and only unconfirmed records repeat, with every fault |
| `auth_sessions` | who is unlocked knew the password of the time, no account is overwritten by who did not, a dismissed session stays out, and a locked one ends |
| `essentials_requests` | the stored places implement `Atlas`; every answer finds its request over refused batches; a teleport request that can be accepted is the one shown and has a timer, while batches of replies alone are accepted |
| `shop_transactions` | items and ledger stay one account over price changes and lost answers; menus, reads and transactions exclude one another, belong to present sessions and are bounded |

One run finds a disagreement between the code and its documentation:

| Run | What happens |
| --- | --- |
| `economy_lost_update` | A chat batch is refused while a write is under way. The handler drops the pending update, the next one is written under the same request id, and the first write's answer confirms it: memory holds an update the store does not. |

### Known disagreements

These properties are stated in the modules and the code breaks them. Each is
violated by its `MC` module with the constants given, all others as in the `.cfg`
named; none of them is part of a passing run.

| Property | Reproduce | What happens |
| --- | --- | --- |
| `Graves!ProtectedMeansZone` | `MCGraves.cfg`, one player, `MaxUnderWay = 0`, `Faults = {}`, no symmetry | `ZoneCommandAnswered` sets `protected` to whether the command was applied, for removals too (graves lib.rs:258). The applied removal of a public grave marks it protected again, and every sweep removes and announces it again. A refused removal does the reverse: nothing asks for it again. lib.rs:82 says "Whether the native zone owner still holds this grave's protection". |
| `Graves!TrackedBounded` | `MCGraves.cfg`, one player, `MaxGraves = 1`, `Faults = {"restart"}` | The merge of a load is not trimmed (lib.rs:423), so more graves than the limit are tracked and then saved, and no later instance can decode them (lib.rs:179). graves/README.md:63 says "At most 128 graves are tracked." |
| `Graves!CleanIsSaved` | `MCGraves.cfg`, one player, `MaxUnderWay = 0`, `Faults = {"uncertain_write"}` | `dirty` was taken when the failed write was sent, so the reload finds nothing to save (lib.rs:444). lib.rs:445 promises to "reload and re-apply this table on top of what the key holds now". With `Faults = {"batch_rejection"}` and `MaxUnderWay = 1` it happens without a failed write: a refused batch clears `pending` while another write is under way, so the next write is refused in its turn. `Graves!ChangesAreStored` therefore speaks of behaviours in which no write fails: `WritesSucceed`. |
| `Graves!PrivateGraveHasZone` | `MCGraves.cfg`, one player, `MaxUnderWay = 0`, `Faults = {"batch_rejection"}` | A refused batch loses the zone of a new grave and its timer; the handler redoes only the save (lib.rs:269). |
| `Towns!InvitationKept` | `MCTownsZones.cfg`, `InitialStores <- LoneStores`, `Faults = {}` | `join` takes the invitation before `save` refuses the update with "Another town update is committing; retry." (towns lib.rs:426, 214). |
| `Essentials!SavedIsStored` | `MCEssentials.cfg`, `Limit <- TwoPlaces`, `Casts <- OnlySaves`, `InitialStores <- NoWarp`, `MaxVersion = 1`, `Faults = {}` | Two changes that read the same version have one request id (essentials lib.rs:561); the first answer, which may be of the other one, is reported as "saved." for the second. |
| `Essentials!RequestIsLive` | `MCEssentials.cfg` with `"reply_rejection"` added | When a request's timer fires, `timer` removes it and returns "TPA request expired." (essentials lib.rs:716). If the host refuses that batch, `restore_correlations` (lib.rs:205) puts the request back, and no timer is left that would end it: `/tpaccept` accepts it for as long as both stay. Nor does one end if the batch that scheduled its timer held several events and is refused, since only the last of them is undone (lib.rs:779); the model has one event per callback and does not show this. |
| `Permissions!GrantsAreStored` | `MCPermissions.cfg` with `"reply_rejection"` added | As in `economy_lost_update`: after a refused chat batch two updates share `save-v<n>`, and the grants of the one that was not stored are published. |
| `Towns!MemoryIsStored` | `MCTowns.cfg` with `"reply_rejection"` added | A refused query while a save is written drops that save (towns lib.rs:1026); the next one has the same request id and takes the answer of the first, so the memory carries the stored version with other towns. |
| `Towns!ZonesMatch` | `MCTownsZones.cfg` with `MaxRefusals = 2`, or with `"restart"`, `"batch_rejection"` or (and `MaxQueries = 1`) `"reply_rejection"` added | Zones differ from the towns with nothing left to do: a zone refused while a rollback restores it stays as it is, for nothing looks at the answer; a restart leaves the zone of a chunk unclaimed just before; a refused batch takes its zone commands with it; and two saves of one request id, as above, leave the zones of one of them. solaris-towns/README.md:11 says "Every trust, flag, join or leave change commits durably and then rewrites each claim's zone; a refused rewrite rolls the change back." |
| `BasicEconomy!LedgersAreReadable` | `MCBasicEconomy.cfg`, `Catalogs <- TwoProducts` | `click` does not check `MAX_LEDGER_ENTRIES` (basic-economy lib.rs:409), which `decode_records` enforces (lib.rs:929): with enough retired products a stored ledger cannot be read any more. |

### Bounds

`Economy`: three players and accounts for two, two tokens and a window of one, so
that the account limit, eviction from the window and a retry after it occur;
`MaxVersion` and `MaxSequence` of 3 allow a payment, a conflicting update and a
retry across a restart; `MaxOutstanding` bounds what is under way when a command
arrives. The initial stores are an unwritten key and a ledger written before
receipts existed.

`Graves`: two or three cells, a table of one or two, windows of one tick and three
or four ticks, so that a grave is created before and after another one ends. Two cells in a table of
two never overflow it (`graves_windows`, `graves_end`); three cells do, and evict
(`graves_reuse`). `MaxUnderWay` and `MaxZoneCommands` bound how much is under way
when the world or an answer adds to it: 0 lets one event at a time meet an idle
host, 1 lets them overlap. `CellReuse` says whether a cell may hold a second grave.
It is on in `graves_reuse`, which has no restarts, and off in the others: after a
restart a grave on the cell of a stored, already broken one is given that one's
owner and deadline, because the merge of the load prefers the stored entry. Each
passing run has the faults its question needs: refused zones and batches in
`graves_windows`, failed reads in `graves_reuse`, uncertain writes in `graves_end`;
more of them at once exceed the time of a run; the safety theorems have fewer
restrictions (GravesProofs).
The combinations left out are those of the known disagreements. The two owners
of `graves_windows` are interchangeable, so it is checked up to their symmetry.

`Towns`: two players, two towns, two chunks of which one may be claimed for
`towns_charter`, so that a player can be member, guest or leader of another town
and every limit is met; one town with two claims for `towns_zones`, so that one
zone accepts what the other refuses. Updates start at two versions after the
stored one, and a rollback adds a third. One query and one other exchange are
under way when a command arrives: enough for a command while an update is
pending, and for an answer that finds the towns changed. The host refuses one
zone command: with two, the zones may stay wrong, because nothing looks at the
answers of a rollback's restored lists, and those may be taken for the answers of
the next update. `towns_zones` has no restart, which may leave the zone of a chunk
unclaimed just before, and no refused batch, after which an update that waits for
its zones or its rollback stays pending.

`Permissions`: three players for two assignments, so that the limit is met; a group
with the wildcard, one with a node and with another in one context, and one with none,
which an assignment at first start may name; three writes. One exchange
may be under way when an update starts.

`Audit`: four records for a history of two and a queue of one: a full queue, a
trimmed history, and a failure that puts one more in front of a full queue all
occur. No write fails and no batch is refused from version 3 on, because each failure may
store a record again.

`Auth`: two sessions of one account that race for it or follow one another, two
passwords, two wrong ones until the session is given up on; the account is new or
unreadable at first and takes two versions, so that a registration and a change
follow each other while the other session still holds the first.

`Essentials`: three players, one register of two names that holds one, at most two
correlations when a command is given. What the players do is divided into casts
(`Casts`): teleport requests; messages, `/back`, deaths and portals; changes of the
warps; visits to them. Requests of different casts are found by different maps
and meet only in the copy a refusal restores, and every cast has refusals. A batch
that holds only a message is not refused in the run (`"reply_rejection"` is off), for
the sake of `RequestIsLive`; with it, the other properties of the run and
`RequestIsShown` hold, as TLC finds in 11 million states and the theorems say.

`BasicEconomy`: two players and room for one, so that one waits for the other's
departure; only one of them clicks, closes its menu and quits. One product at two
prices, three coins, two purchases, two sessions, batches of up to two commands
when an event adds to one.

### Fairness

The host decides on every batch, executes every accepted call and delivers every
answer (weak fairness on `AcceptBatch`, `Execute`, `Deliver` in `Economy`, `Graves`,
`Towns` and `Permissions`, in `Graves` and
`Towns` on `ExecuteZone` and `ZoneAnswered`, in `Graves` on `Tick`, and in `Towns`
on each timer, with queries and storage apart so that neither holds up the other): this is the host's contract, and a
plugin that waits for an answer relies on it. No player command, fault or restart
is fair. In `Graves`, `TimerFired` and `Deliver` are strongly fair only because the
bounds `MaxUnderWay` and `MaxZoneCommands` disable them while the host is busy; the
host itself fires a timer and delivers an answer without such a wait. Under weak fairness of
`AcceptBatch` alone a batch can be refused again and again, but a refused batch
is a handled one, so the liveness properties hold with refusals in `Economy` and
`Permissions`. `Auth` needs less: the host decides on batches and fires timers;
`LockedEnds` holds even if no storage request is ever answered. `Audit`,
`Essentials` and `BasicEconomy` are checked for safety only: `RequestIsLive` and
`WaitingEnds` say instead that a timer or a request that ends the waiting exists.

## Proofs

The theorems hold for every value of the constants: any players, names, settings,
faults and bounds that satisfy the `ASSUME`s of the modules. `InputsAssumption` of
`Essentials` says what its definitions with data as constants must be: registers for
every key, a place for every session, and stored places a decoder could return.

### EconomyProofs

- `TypeCorrect`: type correctness, from the assumptions on the constants. It is
  proved only; the run lists `Synchronised` in its place.
- `SynchronisedAlways`: the inductive invariant. The plugin and the host hold one
  exchange at a time, and its kind is told by `loaded`, `pending` and
  `pending_pay_status`: loading, idle, probing or writing. In the last case the
  stored ledger is the one in memory or the one in memory with the pending update
  applied. `MemoryIsDurable` alone is not inductive: it does not say that the
  answer under way belongs to the pending update. The invariant needs that a
  batch of chat messages alone is not refused (`RepliesAccepted`);
  `economy_lost_update` shows the code breaks it otherwise.
- From it: `MemoryIsDurableAlways`, `OneWriteUnderWayAlways`,
  `UpdateIsUnderWayAlways`, `PaymentIsNewAlways`, `UnconfirmedReloadsAlways` and
  `StoreIsLoadableAlways` (for finitely many players, as its cardinality needs).
- `EconomyImplementsMoney`: every step of `Economy` is a payment or a balance
  change of `Money`, or leaves both of its variables alone.
- `WindowKeepsNewestAlways`: the token window drops the oldest payments first. The
  property is not inductive, as it only compares payments kept with payments
  dropped; what holds of every step is that the receipts of the window grow in its
  order, that once a token has a receipt every later one has too, and that a
  dropped payment is older than all of the window (`Ordered`). The pending update
  carries the window of now, or the end of that window with its own payment
  appended (`Remembered`, with `Synchronised` for "of now").

`OneWriteUnderWay`, `UpdateIsUnderWay` and `PaymentIsNew` follow from `Synchronised`
and are proved only; no run spends time on them. That payments conserve the coins is
part of `Money!Pay`, which debits and credits the same amount.

### PermissionsProofs

- `TypeCorrect`, and `SynchronisedAlways`: as in `Economy`, one exchange is under way
  at a time and its phase is told by `loaded` and `pending` (`Loading`, `Idle`,
  `Writing`). The third part, `Published`, ties the published table to a stored one:
  it was made from the assignments committed at its version, and it is the table of
  the memory while that is loaded, unless the host refused the last publication
  (`PublishPublished` covers both outcomes). The hypothesis is `RepliesAccepted` once more; the
  known disagreement about `GrantsAreStored` shows what happens without it.
- `AdmissionMatchesCheckAlways`: from `Published` and the lemmas about `CommandEntries`
  (`RowsAllow`, `EncodingsAgree`), for every context.
- `GrantsAreStoredAlways`: what is committed is within the limit besides
  (`WithinLimit`), so it can be decoded; this counts assignments and so needs finitely
  many players.
- `LastTableStaysInForce`: versions only grow, so a table is only replaced by a newer
  one or by the same rows.

### AuthProofs

All without further hypotheses. The invariant `Sound` is stated session by session,
so that a step of one session needs a single lemma (`Elsewhere`) for all the others.
It says that at most one storage request of a session is under way and is the one it
awaits (`OneRequest`, `Waiting`); that what a session knows, or is about to be told,
of its account is a version stored since it joined (`Informed`); that a write under
way replaces nothing or a password the session has shown (`Checked`); that an unlocked
session has shown a stored one (`Unlocked`); and that a dismissed one is told nothing
more (`Dismissed`). `UnlockIsEarned` alone is not inductive: an unlock may come from
a save confirmed much later, so the proof has to follow the write from the check of
the old password to its answer.

- `AccountIsStoredAlways`, `UnlockIsEarnedAlways`: parts of the invariant.
- `OverwritesKnowOld`, `DismissedStaysOutAlways`: what a step may not do, from it.

### EssentialsProofs

With every fault, refused replies included, but for `RequestIsLiveAlways`, which needs
that replies are accepted (`RepliesAccepted`): the refusal of "TPA request expired."
brings a request back without its timer. A refusal puts a copy of all
correlations back, so the invariant is stated of any copy and holds of the present
one and of the last (`Correlated`, `Offered`). `Distinct` says that no two requests
or answers under way carry one number; it needs that a new number is always free,
so that what is in use is finite (`Finite`). `Saving` says that a write under way, if
it still commits, changes one name of its register.

- `AnswerIsAwaitedAlways`, `RequestIsShownAlways`: from `Correlated` and `Offered`.
- `RequestIsLiveAlways`: also from `Timed`, which the invariant states of the present
  correlations and of the copy, while replies are accepted.
- `EssentialsImplementsAtlas`: every step stores nothing or one change of `Atlas`, by
  `Saving` and the compare-and-set. `Distinct` is not needed for it: two changes saved
  under one request id confuse the replies, not the register.

### AuditProofs

All without further hypotheses, with every fault. The records that wait are one line,
the pending one first (`Line`), which a refusal or a failure does not reorder. The
invariant `Sound` says that the memory is the stored history at `storage_version`
(`Memory`); that the log is at most one append ahead of the memory, which then is that
of the head of the line, or that nothing was read since a restart (`Behind`); that
each write and each answer says what it may (`Messages`); that one read at most is
under way, and only while the memory waits for it (`OneRead`); and that the head of
the line, unless it is unconfirmed, is written once and not stored yet, or stored and
answered (`OneWrite`, which counts the copies of a message). None of the three
properties is inductive: that a lost answer or a reload does not lose, double or
reorder a record depends on what the answers still under way may say.

- `AlwaysSound`: type correctness and the invariant.
- `NothingLostAlways`, `HistoryIsNewestAlways`, `OnlyUnconfirmedRepeatAlways`: from it.

### BasicEconomyProofs

All without further hypotheses, with every fault. A refused batch is undone by a fold
over the entries it noted, leaving filters them by another, and what a ledger owes is a
fold over its products. The provers have no induction here, so the module first proves
what these folds compute from one fact, that a set of numbers has a least member
(`LeastNat`, from the library's `WFMin`): the function by which the community modules
define a fold exists (`FoldDefined`), undoing is one `Undone` after the other
(`FoldRightDefined`), the filter keeps the entries of other sessions in their order
(`RetainedOf`), and a sum does not depend on its order (`SumAnyOrder`), so that one
purchase more adds one unit (`AgreedFair`).

The invariant `Sound` has three concerns.

- The batch under way. A request is either noted in the batch, and then asked for in
  it, or with the host (`Awaited`). `Undoable` says what the batch may have done for one
  player: asked for the ledger, opened a menu, taken a click, or opened a menu and then
  taken a click on it; and that each entry still fits the tables it would be undone to.
  `UndoneFrom` follows the tables backwards through the entries.
- The menu. It is that of the ledger in memory, the player waits for nothing, and sees
  the menu unless the batch opens it (`MenusSound`); a menu the batch closes is not
  opened again by it (`ClosesSound`). `MenuMatchesLedger` alone is not inductive: it
  does not say what a refusal brings back.
- The money. A ledger in memory, in an answer or named by a transaction is no newer than
  the stored one and equals it if it has its version (`Copies`); and a deal moves what it
  adds to the ledger it was made from (`Fair`).

- `AlwaysSound`: type correctness and the invariant.
- `PurchasesAreRefundableAlways`: for any number of products, at any change of prices.
- `MenuMatchesLedgerAlways`, `WaitingEndsAlways`, `NothingOfDepartedAlways`,
  `ActivePlayersBoundedAlways`: from the invariant.

### GravesProofs

A load merges whatever was stored with whatever is in memory, so nothing about the
table in memory is inductive: the invariants speak of all tables there are (`Tables`),
stored, being written and read. Three invariants rest on the types (`Typed`, with what
the host holds finite, so that a new number exists).

- `TypeCorrect`, `TypeOKAlways`: with every fault, with cells reused or not.
- `Kept`: every table names, of each grave that still is, the owner and the deadline it
  was created with. From it `DeadlineKeptAlways` and `RemovalIsDueAlways`, with every
  fault, for tables of any size. The hypothesis is that no cell is used twice
  (`~ CellReuse`): the merge would give the second grave the entry of the first.
- `Synced`: before the load nothing is written, and what was recorded is marked; after
  it at most one request is under way, a write expects the version there is, and what
  it writes or has stored is the memory unless that is marked as changed (`Loading`,
  `Settled`, `Saving`). From it `CleanIsSavedAlways`, with cells reused or not, for
  failed reads, refused zones and restarts. Its hypotheses, no refused batch and no
  uncertain write, are those of the known disagreements about it.
- `Zoned`: a grave in its private window has its zone, is about to get it, or is in no
  table at all; and no removal stands among the zone commands left. From it
  `PrivateGraveHasZoneAlways`, across restarts, failed reads and uncertain writes. A
  restart may lose a returned batch, but then it loses the record of the grave as well,
  which no table of the host holds before the batch is accepted. Hypotheses: no cell is
  used twice, no batch and no zone is refused, and the table has room for every cell. The last one cannot be
  dropped: an evicted grave whose entry is read again after a restart, or after a write
  that failed, is private and has no zone, which TLC finds as well.

Each of `Kept`, `Synced` and `Zoned` was an invariant of a TLC run before it was proved.
The order of a finite set (`OrderExists`), which the batch of removals and the zone
commands of a batch need, comes from `LeastNat` again.

### TownsProofs

- `TypeCorrect`, `TypeOKAlways`: with every fault. Beside `TypeOK` the proof needs that
  the zone actions of an update are about towns there are before it and after it.
- `AlwaysCharted`: the inductive invariant of the other three (`Charted`). Before the
  towns are read there is the request for them or its answer and nothing else
  (`Loading`); afterwards they are not read again and are the stored towns while they
  carry the stored version (`Working`), loaded or not: `MemoryIsStored` alone forgets
  the towns while a rollback is unconfirmed. The third part, `Protocol`, ties the
  one pending update to its write, which is in the batch, with the host or answered:
  the write carries the update's request id and the version in memory, and stores the
  towns after it while it is saved, those before it while it is rolled back. It also
  says that a save that has left the batch shares no later batch which may be refused,
  for `RejectBatch` would drop it. Hence the hypothesis, that no reply is refused
  (`"reply_rejection" \notin Faults`): a refused query while a save is written makes the
  plugin forget that save, start another under the same request id and take the
  answer to the first for that of the second.
- `MemoryIsStoredAlways`: from `Charted`.
- `TownsImplementsCharter`: the refinement. Only a compare-and-set changes the store;
  by `Protocol` and `Working` it goes from the pending update's `before` to its `after`
  or back. That one command is one decision and keeps the towns lawful is proved
  command by command (`CreateDecides` ... `FlagDecides`), `SetTrustedProposes` covering
  the guest who is named before the list of online players arrives.

- `ZonesMatchAlways`: for any towns, claims and members, with uncertain writes, failed
  reads and one refused zone. `ZonesMatch` says nothing while an update is pending, so
  the invariant (`Phase`, beside `Charted`) says what the zones are about at each time:
  the towns are not read yet (`Reading`), their zones are written at the start
  (`Opening`), a committed update rewrites its zones (`Changing`), it is written back
  (`Undoing`), the towns in memory have their zones (`Serving`), or the plugin answers no
  more commands (`Lost`). What is under way about one zone is said by the commands and
  answers that name it, in the batch, with the host or answered (`Quiet`, `Sent`,
  `Replied`), wherever among the others they stand (`ConcatHolds`, `AppendHolds`,
  `TailHolds`, `BatchHolds`). `Rewriting` says that a zone still awaited has one command
  or one answer under way and no other zone has any; `Matched`, which is weaker, that the
  last command about a zone leaves it as the towns want it. The difference is the
  restoration after a rollback: nobody waits for it, and a next update may queue its zones
  behind it and take its answers for its own, which harms nothing as long as no command
  is refused any more (`Spent`). `Zonal` (by `ActsZonal`, for every command) says why an
  update that is undone need restore only the zones of its `sync` actions: an added or
  dropped claim is one zone, and that one was refused. Every hypothesis of the theorem
  is needed, see the known disagreements: no restart, no refused batch or reply, and at
  most one refusal. `Phase` was an invariant of a TLC run of the `towns_zones` instance
  before it was proved.

### What is only model-checked

Liveness under fairness (`LockedEnds`, `ChangeEnds`, `UpdateEnds`, `EveryZoneEnds`,
`ChangesAreStored` and the like), which the prover does not handle. Every other property of a passing run is stated by a theorem.

## Not modelled

Parsing of arguments and settings, UUID formats and the text encodings: a value
is what the decoder would return. Dimensions and the 16-bit digest that tells
them apart in a grave's id. The host's own recovery. In `Towns`, sessions: a timer
that was scheduled for an earlier session of a player may end an invitation of a
later one. In `Audit` the filters of a lookup, in `Auth` the hash function, in
`Essentials` ambiguous names and the bound of the online list, in `BasicEconomy`
the notices deferred to a player's next command: none of them changes what the
properties speak of. The components marked `not_modelled` in `PROJECT.json`, for
the reasons given there: `land-claims` has the three stages of `solaris-towns` for one
zone, `online-roster` one query per player, `chisel` and `geological-mines` declare
static content.

## Plan

1. Economy (done): core module, abstract specification, invariant and proofs.
2. Graves (done, proved).
3. Towns (done, proved): the change protocol and `Charter`.
4. Permissions and Audit (done, proved).
5. Auth and Essentials (done, proved).
6. BasicEconomy (done, proved).
7. The legacy Lua examples, if they stay in the pack.
