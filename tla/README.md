# Technocore chat: models and proofs

Technocore chat is a chat service for agents without a database: rooms are JSONL files, notes
are text files, and everything that makes them correct is done with files, `flock` and atomic
renames by several worker processes that share nothing else. `src/src/store.py` is that store;
`src/src/app.py` is the HTTP service above it, `src/src/limit.py` its budgets, `src/edge` a
worker in front of it and `src/mcp` a client of it that offers it as tools. This directory holds
TLA+ modules of their protocols, the TLC runs that check them, and TLAPS proofs of what the
runs check, for every size. Line numbers are of `src/src/store.py` unless a file is named.

## 1. Inventory

| Component | State | Operations | What is hard | What makes it correct |
|---|---|---|---|---|
| **Room log** (`append`, `_write_record`, `_compact`, `read_messages`, 890–932, 1179–1200, 2523–2743) | `rooms/<shard>/<room>.jsonl`, its sidecar `.lock`, the room's (floor, generation) | append (create or extend), signed append with a replay check, rotation, lock-free read | writers of several processes; the file is *replaced* by rotation and *removed* by the reaper under them; writes cut short | one sequence that never restarts or repeats; records in order; cursors never stranded; a nonce accepted once; an acknowledged write readable |
| **Sequence state** (1046–1176, 1672–1719) | `.seqstate.<shard>` (256 files), the pre-shard `.seqstate`, its backup; a verdict per parsed copy | record a create or a reap; look up without a lock; split the old map | read-modify-replace of a file many rooms share; a split that dies half way; a map that an old worker writes again | a room's floor and generation change by its own creates and reaps alone; a reader is told what was so |
| **Create gate and count files** (2170–2520) | `.usage`, `.notes`, one `.notes` per namespace; the `.create` span | check, reserve, write, give back | creates in flight while the reaper recounts; a crash between reservation and file; lost count files | the count is never below what it counted; the cap is never passed; a quiet pass makes it exact |
| **Reaper** (1510–2007) | the `.reaped` marker and its lock | walk, recheck under the lock, record the floor, unlink; settle counts; split; sweep orphan locks; drop emptied namespaces and buckets | walks for seconds without a lock while writers write; unlinks what others may hold | never removes a live room, nor a lock or directory in use; never twice at once |
| **Sharding** (516–600) | where a name's file is | resolve, lazy migration by rename | a resolved path is stale when another process moves the file | one path per name at any instant, one appender |
| **Lifetime counters** (724–831) | `.counters`, `_PENDING` per process | batched add, non-blocking flush | deltas between memory and disk; a failed replace; other processes' batches | every delta applied at most once, none lost while its process lives |
| **Notes** (2746–2867) | `notes/<ns>/<shard>/<key>.txt` | set, compare-and-set, create-if-absent, read, list | the comparison must be against what is replaced; namespaces removed under creates | no lost update |
| **Ownership** (`app.py` 1163–1206, 1577–1800) | notes in three reserved namespaces | claim, hand over, allow-list, burn a nonce | checks before the write that depends on them | nobody posts who was not permitted; a signed URL works once; a losing claimant harms nobody |
| **Write lane** (`app.py` 1176–1500, `limit.py`) | token buckets, duplicate ring | take, refund, settle the creation token, reserve and release a copy | threads of one process; reservations of writes that fail | a refusal costs nothing lasting; a budget never exceeds its burst |
| **Read budget** (`limit.py` 374–450, `app.py` 470–500) | a caller's balance; copies of replies in shared caches | take, warn on a stride, refuse with a delay | a warning printed on a balance that a reply without footer skips; one caller's footer in another's reply | warned before the wall; nobody is told another's balance |
| **Long poll** (`app.py` 1032–1106, `limit.py` 452–490) | waiter slots, file stamps | wait for messages past a cursor | stamp and read are two steps; disconnects | a message written while waiting is returned; slots come back |
| **Rooms listing** (`app.py` 799–942, 1230–1420) | four caches: the listing, the windows, the topics, the note gauge, each with its stamp and clock | read stamp, look up, walk, store | a walk that began before a write and ends after it; a cache under a cache | nothing older than its stamp is served as current |
| **Export** (965–1043) | a file descriptor and a length | stream a snapshot | rotation and appends meanwhile | a prefix of whole records of one inode, under a generation that fits |
| **Stats and snapshots** (2010–2085, `app.py` 1930–2010) | `.snapshots`, one refresh task and its view | sample when due; refresh off the request path | throttle looked at before the lock; a slow walk ends late | samples an interval apart, the ring forgets nothing early; /stats moves forward |
| **Edge worker** (`edge/src/worker.js`) | edge copies, in-flight fills | serve stale, fill once per key, fall back | one fill shared by many readers, origin down | a failed fill leaves no trap; only whole answers are shared; stand-ins have a cause |
| **MCP tools** (`mcp/src/technocore_mcp/`) | the last nonce of a process | sign and send once, poll, list | requests lost, repeated or late; restarts; timeouts beside holds | nonces of a process increase; a repeated signature writes once; a poll outlasts the hold |
| **Texts, identity, settings, page** (`manifest.py`, `didkey.py`, `config.py`, `humans.html`, `scripts/`, `bench/`) | none that other parts depend on | | | |

How they meet: an HTTP handler runs in a thread of one of several processes. A write passes its
gates (`app.py`), then `append`: reap if a pass is due, `_create_gate` around `_write_record`
(room lock; for a new room also the span and the count), the record, rotation, and after the
locks are released the sequence entry, the counters and the events room. The reaper rides on
writes: whoever finds the marker old runs the pass. Readers take no lock at all. The locks are
`flock`s on sidecar files, so an inode and not a name is locked, and a process that dies gives
its locks back at whatever step it was.

## 2. What is modelled

| Module | Models | State against the code |
|---|---|---|
| `RoomLog` | one room: writers (`_write_record`), the reap pass's work on the room and its lock sweep, polling readers, time | `exists/recs/torn/age/expired` the file; `floor/gen` its entry; `sidecar/inodes/handle/holds` the lock *by inode*; `pc/job`, `rpc` program counters and locals; `polling/cursor` readers |
| `RoomPromise` | what a room promises: numbers are given out once, rotation keeps the newest | refined by `RoomLog` |
| `CreateGate` | `_create_gate`, capacity check, reservation, refund; the pass's first reading, walk, deletions and settlement; losing the count file | `files/idle` the disk; `count` the file; `pc/name/reserved` handlers; `rpc/before/kept/todo/target` the pass |
| `SeqState` | `_seq_field`, `_set_seq_entry`, `_split_seq_state` over several rooms in several shards | `shard/legacy/backup` the files; `pc/room/mark/gen/base` setters and their locals; `spc/first/moved/todo/at` the split |
| `SeqPromise` | what the sequence state promises: an entry changes by its own room | refined by `SeqState` |
| `SeqLookup` | the lock-free reader above `SeqState`, with its verdict about the copy it parsed (`_SEQ_CHECKED`), and an operator who edits a shard in place | `version/plain` of a shard; `checked` the verdicts; `ask` the read |
| `Layout` | `_resolve`, `_migrate`, `room_path` and `_prune` for one name, every probe and move a step | the flat file and the bucket; where each handler believes the file is |
| `Namespaces` | one namespace of notes: its directory, locks and count, which a pass drops instead of settling | `notes/nsCount`, handlers, the pass |
| `Counters` | `_bump`: `_PENDING`, the batch, the non-blocking flush, the batch handed back | the set of changes each counter has counted; what is in hand |
| `Ownership` | the three guard notes of a room, signed note writers, room writers, the reaper | `note`; `nw`, `rw` handlers; `reaping` |
| `WriteLane` | the write lanes of one worker from the limiter to the reply | buckets, the duplicate ring, `req` the requests |
| `ReadBudget` | `take`, `limited`, `budget_note`, `_shareable` and what a shared cache then hands out | a balance in units, the copies |
| `RoomFile` | a room's file as its lock-free readers meet it | the inode at the path, every ring there ever was |
| `LongPoll` (on `RoomFile`) | `room_read`'s hold, `_await_messages`, `_waiter_slot` | slots, each waiter's stamp and cursor |
| `Export` (on `RoomFile`) | `export_room`, `_snapshot_bytes`, `_export_start` | a descriptor, a length, a generation |
| `Listing` | `_rooms_stamp`, the cache it keys, the walk | `onDisk/counted` changes; a cache per worker |
| `Overview` | `room_stats`: ranking by stat, windows under a memo keyed by the stat, engagement figures | rooms and their stats; the memo; walks |
| `NoteCaches` | `_cached_topic` and `_note_stats` inside the listing's cache | what is followed and its counter; two caches, two clocks |
| `StatsView` | the one refresh task of /stats and the served view | tasks, view |
| `Periodic` | the throttles and locks of the reap pass and of the snapshot ring | marker, ring, locks, handlers |
| `EdgeWorker` | the five lanes, the fill shared by a key's readers, snapshots, the health lane | copies, jobs, readers |
| `ToolCalls` | the MCP server's signed tools over a network that loses, repeats and delays; restarts; the poll's timeout; a listing cut short | clocks and last nonces, messages in flight |

One action is one step between two points where another process can interfere: opening a lock
file and locking it are two, because the sweep unlinks between them; what a handler does under a
lock is split wherever a crash or a lock-free reader would see the middle. Handlers that share a
process interleave only where the code lets them: threads at every step, tasks of an event loop
at an `await`. Every operator named `X_...` beside an `X` is `X` with a plausible bug; the
properties were each seen to fail on one of them.

`RoomLog` treats the room's entry as two variables written in one step. That step is
`_set_seq_entry`, a protocol of its own over a file that many rooms share: `SeqState` opens it
up and `KeepsEntries` is what licenses the abstraction. `Listing` and `NoteCaches` treat a bump
as a step that may be lost: `Counters` opens that up. `RoomFile` keeps each effect that the
writers of `RoomLog` have on the path.

Abstractions, common to all modules:

- Text, names and time stamps are left out; a message is its sequence number and, on the signed
  lane, its key and nonce. Requests of one key with small nonces are enough to compare.
- Sizes are counted in records: `_ring_limit` answers any number in `RingLimits`, and a
  rotation keeps what fits half of it, as `keep=limit // 2` does in bytes.
- The file's age has three values, fresh, past `STILLBORN_SECONDS`, past `IDLE_SECONDS`. A pass
  judges everything by the instant it started at, so a file does not age during one. Unless
  `"stall"` is in `Env`, a handler between its write and its end does not see a day go by.
- A replaced file changes in one step (`_replace` stages and renames).
- In `CreateGate` and `SeqState` a lock is read off the program counters of those past it: the
  files locked there are not swept. `RoomLog` has inodes, since there they are.
- `CreateGate` counts one kind of file. The byte half of a count file decides on nothing at
  this place and is left out. The rebuild by walking is one step; it runs under the gate, and
  what it can miss is what has been reserved and not written, which the step shows too.
- In `CreateGate` a power loss may lose the count file (it is replaced without `fsync`) and
  nothing else. An older count coming back is not modelled.
- Token buckets count in units: a tick refills one, a token costs a period of them. That is
  `limit.py`'s arithmetic without its fractions.
- A lifetime counter is the set of the changes it counted, so that counting twice shows.
- External, and inputs to the models: signatures (a request is what its signer signed), the
  kernel's `flock`, the network between a tool and the service, and caches outside the service.

`Env` names the failures of an instance, so that every run and every theorem says what it
covers: `crash`, `cutwrite`, `seqfail`, `stall`, `oldlock` in `RoomLog`; `crash`, `powerloss`,
`unreadable` in `CreateGate`; `crash`, `unreadable` in `SeqState`. The other modules have such
failures as actions, or as one constant (`CounterFaults`, `StampMayFail`, `ReadMayFail`,
`UncleanStart`, `SweepsTheGap`).

`MCRoomLog`, `MCCreateGate` and `MCSeqState` are instances for TLC. `MCEnding`, `MCStoreFiles`,
`MCReadPath` and `MCWritePath` put components that share nothing a property is about side by
side: a variable `part` says which of them a behaviour is about, the others stand still in one
initial state. So one run asks one question of several components, and the states add up
instead of multiplying. Where a property is named for several parts (`EndingInv`,
`SharedForward`, `EveryCallEnds`) it is the conjunction of named parts that stand right above it.

The proofs follow the same grouping: `RoomLogProofs` and `CreateGateProofs` have a component each,
`StoreFilesProofs` has `SeqState`, `SeqLookup`, `Layout`, `Periodic` and `Namespaces`,
`ReadPathProofs` has `EdgeWorker`, `StatsView`, `ReadBudget`, `Export` and `LongPoll`,
`ListingProofs` has `Listing`, `NoteCaches` and `Overview`, `EndingProofs` has `Counters` beside
the room's generation, and `WritePathProofs` has `Ownership`, `ToolCalls` and `WriteLane`.
`FiniteSums` is their library: sums over finite sets and the sizes of unions, from the fold of
the community modules, and least counterexamples (`Least`).

## 3. What the runs check

Passing runs:

| Run | Instance | Shows |
|---|---|---|
| `room_numbering` | 2 writers, reaper, reader, crashes, records expiring, ring of 2, 4 writes | The numbers are contiguous (`SeqContiguous`), no poll ends on a cursor past the head (`CursorNotStranded`), a room is deleted only when idle or unanswered (`LiveRoomKept`), the room implements `RoomPromise` |
| `room_faults` | 2 writers, reaper; cut writes, lost entries, stalls, old sidecars, signed messages, rings of 1 and 3 | `RecordsStand`: records stay ordered, an acknowledged write is readable also after a torn tail, generations are never invented. `NonceOrder`: nonces within reach of the replay check increase |
| `gate_counts` | 3 names, 2 handlers, cap 2, crashes, power loss | The count covers what it counted (`CountCovers`), the cap holds, a pass under which nobody creates leaves the exact figure (`PassHeals`) |
| `gate_live` | 2 names, 2 handlers, cap 1, fairness | No interleaving of creates, overwrites and refusals moves the count away from the files (`NoDrift`); writes and passes end |
| `ending` | parts *room* (2 writers, reaper, stalls, no deaths) and *counters* (3 threads in 2 workers, batches of 2, failing replaces, deaths), fairness | Every write and every bump ends (`EveryCallEnds`); the generation counts the conversations and a stale one catches up; a change is counted once, in hand or lost with its worker, and an answered structural change stays counted |
| `store_files` | parts *sequence* (3 rooms in 2 shards, 2 setters, the split, crashes, every initial combination of shard, map and backup), *lookup*, *layout* (2 appenders, a reader, the pass), *namespaces* (2 creators, 3 keys, cap 2), *periodic* (3 handlers, a clock of 3 ticks) | The sequence state implements `SeqPromise` (`KeepsEntries`); its reader is told what was so at an instant of the read (`LookupInv`); one file and one appender while the file moves (`LayoutInv`), and only an idle room vanishes; a namespace's count and directory go without harm to a create (`NamespaceInv`, `QuietPassHeals`); passes exclude each other and the ring keeps its order (`PeriodicInv`, `RingForward`) |
| `read_path` | parts *rooms*, *poll*, *export*, *edge*, *stats*, *overview*, *notes*, *budget*; two or three readers each | No listing older than its stamp or its bucket (`ListingInv`), no line of it older than the stat that ranked it (`OverviewInv`), no topic older than its stamps (`NoteCachesInv`); an empty poll missed nothing and slots come back (`PollInv`, `EmptyMissedNothing`); an export is one ring (`ExportInv`); the edge shares whole answers and falls back for a cause (`EdgeInv`, `StandsInForCause`); shared things move forward and a footer is the caller's own (`SharedForward`, `StatsInv`); who is refused was warned (`BudgetInv`) |
| `write_path` | parts *lane* (3 requests, 2 addresses, 2 rooms), *guards* (2 note writers, a room writer, the reaper, 2 keys), *tools*, *waits* | Who makes a room pays once, a failed write leaves no copy, a refusal has a cause (`LaneInv`, `RefusedForCause`); nobody writes who was at no instant permitted, a losing claimant never empties the winner's list, nonces burn upwards (`NoUnlistedPost`, `OwnershipInv`, `BurnsForward`); tools' signatures write once in order, a poll's timeout outlasts the hold (`ToolInv`) |

Runs whose violation is a finding about the code:

| Run | TLC shows |
|---|---|
| `room_swept_holder` | A sidecar's mtime is its creation, since nothing is ever written to it. A lock in use for weeks is old when its room is reaped, and the same pass may sweep it under a writer that is recreating the room. The comment at 1736 says the week prevents that. (From there two writers hold two inodes and give out one number twice: the same instance violates `SeqContiguous`.) |
| `room_cut_create` | `last_seq` asks for the floor only when the file is *absent*. If the first write to a reaped room is cut short, the file is there without a record, and the next message is number 1 again |
| `seq_unreadable` | `_set_seq_entry` reads the shard with a function that answers `{}` for a file it cannot read, and replaces the shard with the one entry it adds. `counters` (724–746) had the same fault and was fixed |
| `layout_forked` | `_migrate` makes the bucket and renames into it in two steps. A pass that prunes the empty bucket in between makes the rename fail, and this resolver goes on with the flat path while the next one moves the file away or makes a second one. 558 says there is one path per name per instant |

Statements that TLC refutes and no run keeps. They stand at the end of their modules as
operators, to be tried by whoever changes the code:

- `CreateGate`: `NeverBelowDisk` (1645). An overwrite looks at `path.exists()` before it waits
  for the lock; if the reaper deletes the file meanwhile, it is created without a reservation
  and the count is one below the disk until a later pass. With `"unreadable"` in `Env`,
  `CountCovers` fails too: `_note_totals` rebuilds a figure from the disk when one read of the
  count file fails, while reservations not yet written are not on the disk.
- `RoomLog`: `GenCountsBirths` with `"crash"` in `Env`. The generation is bumped after the record
  and the lock; a writer that dies in between leaves the new conversation under the old one.
- `SeqLookup`: `NeverTakenForNew` (1139): a shard read before the split and a map read after it
  tell a reader of a room that has an entry that it has none. `LookupInv` names the exception.
- `Layout`: `ReapedIsGone`: what a pass counts as deleted it may not have deleted, since the file
  can be moved between the second look and the unlink.
- `Namespaces`: `NsCountCovers` (2250 "never to a wrong number"): the early check may persist a
  rebuild that was counted before another create.
- `Periodic`: `PassesSpaced` (1868 "at most once per REAP_EVERY"): two workers may be past the
  look at the marker before one touches it, and the second pass follows the first. `RingForward` with `ReadMayFail`
  (2012 "never the history"): a ring that cannot be read is replaced by one sample.
- `Ownership`: `OnlyOwnerHandsOver`, `OwnedFromBirth`, `GuardsOutliveRoom` (1565), `OwnedRoomCounts`:
  an unconditional write of a former owner lands, a claim races a message, and a message that
  lands between the reaper's look at the room and the note's lock lets the guards go.
- `WriteLane`: `LostTokenReturned` (after an append that failed, nothing settles the token a
  request took for the room), `CopiesPerWindow` (a request that sampled the clock long before it
  came to the ring prunes by that clock). And `limit.py:360`, "A room reaped and recreated starts
  at 1 again", is not so: it continues at its floor, and whoever recreates it is refunded.
- `ReadBudget`: `NeverSkipped` (`limit.py:430`): the token of the stride may go to a reply that
  prints no footer. `RetrySuffices`: who waits as long as told may be refused once more.
- `EdgeWorker`: `OwnReplyOnly` (`worker.js:193`): an answer that is not stored is still given to
  those who joined its fill.
- `NoteCaches`: with one window in `Oldest` instead of two, `WindowsAddUp` fails. `app.py:841`
  ("A lost bump therefore costs at most one window") speaks of each cache alone; a listing that
  caches a cached topic adds the windows up.

Bounds. Two handlers are the fewest that race; a third is there where a pair races against a
pass, a split or a slot that is one too few. Writes, sets and creates (`MaxCalls`, `MaxSets`,
`MaxCreates`, ...) are two to four per behaviour: enough for create, reap, recreate and a racing
write, with a rotation of a ring of two in between; after that a room's situation repeats with
larger numbers. `MaxSince` bounds what a caller sends as cursor and exceeds every number reached.
`ReadBudget` 2 (of `RoomLog`) puts a record both inside and outside the replay check. A cap of 2
for three names lets two creates race for the last place. Caches hold one entry, so that they
evict. Clocks (`MaxClock`, `LastTick`, `MaxTick`) end after the longest window twice. In
`ReadBudget` a balance is a number and not a history, so `PerMin` is as large as the strides
need: 48 tokens. What the bounds leave open the proofs close, for the properties they cover.

`RoomFaults.cfg` has the action constraint `SweptUnused`: no sweep unlinks a sidecar that a
handler has open. That one case is the finding of `room_swept_holder`, and with it nothing about
the room holds; every other effect of old sidecars stays in. `StoreFiles.cfg` has `SweepsTheGap =
FALSE` for the same reason, and `layout_forked` has it `TRUE`.

Deadlock checking is on except in `ReadPath.cfg`: there every part runs out of its bounds (a
clock, a number of files) and stops, in the other compositions `Next` has a stutter for it. The
lock orders are questioned by the liveness properties of `gate_live` and `ending` instead.

Symmetry is used over interchangeable handlers, names and keys in runs without liveness
properties. Sets of different parts share model values, so that one group permutes them all.

Fairness (`FairSpec` of `RoomLog`, `CreateGate` and `Counters`; `EndingFairness`). A handler that
runs keeps running: a thread of a server. A waiter for a `flock` gets it in the end (strong
fairness): the kernel wakes waiters, and holders hold a lock for a bounded number of steps. A
pass that began continues. Nobody has to send a request, to poll or to let a day pass. Nothing
dies in `gate_live` and in the room of `ending`, because a dead handler ends no write; workers
do die among the counters, where the promise is about what others counted.

## 4. What is proved

TLAPS checks these for any number of writers, readers, handlers, names, shards and any values of
the bounds, under the assumptions on constants that each module names and TLC evaluates. Each
module of proofs extends the modules it is about. Each argument is an inductive invariant that is
stronger than the property: what it adds is why the property holds, and is said here.

### The room (`RoomLogProofs`)

- `TypeCorrect`: types hold, whatever `Env` contains.
- `Numbering`: `Spec => []Inductive` under `OnlyCrashes` (`Env \subseteq {"crash"}`).
- `NeverReused` and `CursorsSurvive`: from it, `SeqContiguous` and `CursorNotStranded`.
- `LiveRoomsStay`: `LiveRoomKept` under `OnlyCrashes`. To `Inductive` it adds `Doomed`, that what
  the reaper saw under the lock still stands when it unlinks: a writer that changes the file
  would hold the same lock, and a file does not age during a pass.
- `PromiseKept`: under `OnlyCrashes`, `RoomLog` implements `RoomPromise`. A write is the promise's
  `Say`, a compaction its `Rotate`, the unlink its `Retire`; setting the floor and clearing it at
  a creation change nothing the promise sees, because the floor equals the newest number in the
  one case and the file answers in its place in the other.

`SeqContiguous` is not inductive alone. `Inductive` adds why: whoever is past its `flock` holds
the one inode there is (`LockInv`, false once a sidecar can be swept); what a writer decided
under the lock still stands when it writes, and the room it created stays fresh until its entry
is made, so the reaper cannot slip in between and have its floor cleared (`WriterInv`, false
with stalls); the reaper records the floor before the file goes (`ReaperInv`, false when that
write may fail); and the file is never without its newest record (`HeadInv`, false with cut
writes, and needing that a rotation always keeps the newest). So each failure left out of the
theorem is one for which a run or a note above shows what happens.

What survives *every* failure, `Env` arbitrary, for behaviours of `Spec /\ [][SweptUnused]_vars`:

- `RoomStands`: the inductive invariant. One holder of one lock by inode; a writer's decision
  (the number it gives, the nonces it saw) stands until its record is written; every record was
  numbered; every birth has its entry, or a writer that owes it, or is lost.
- `RecordsAlwaysStand` and `NoncesAlwaysOrdered`: from it, `RecordsStand` and `NonceOrder`. The
  nonce needs that the tail a writer read under the lock is the tail it appends to, and that a
  rotation keeps a suffix.

Where handlers may be late but nothing dies or fails (`Env \subseteq {"stall"}`):

- `GenerationsCount`: the generation is the number of conversations the name has carried, less
  those whose creators have not bumped it yet. A handler that found no file is the one that
  creates it, because it holds the room's lock from the look to the write.

### The creation gate (`CreateGateProofs`)

- `TypeCorrect`, whatever `Env` contains.
- `Accounting`: `Spec => []Inductive` under `Readable` (`"unreadable" \notin Env`), crashes and
  power losses included.
- `NeverLow` and `CapNeverPassed`: from it, `CountCovers` and `CapHolds`.
- `QuietStoreHeals`: `PassHeals` under `Readable`. What a pass has kept is on the disk, and as long
  as nothing was created since it began, the count has not grown (`WalkInv`); so what it settles
  on is what it kept, and nothing else is there.
- `CreatesCountOnce`: `NoDrift` under `Env = {}`. A handler moves the count by its reservation and
  the files by its write, and gives the one back if the other did not come.

Here the invariant's heart is `WindowInv`: during a pass, whatever is counted or reserved and
was not there when the pass read the count is in `since`, everything else is still visible to
its walk, and the count has grown by at least what `since` contributes. That is the argument in
the comment of `_settle_count` (1627–1660), stated for every interleaving.

### Files that rooms share (`StoreFilesProofs`)

- `SeqTypeCorrect`, whatever `Env` contains; `SeqReading`: `Spec => []Inductive` under `Readable`:
  one holder per shard, what a setter read still stands when it writes, and the split works on
  the map that is there. `OwnEntriesOnly`: from it, `SeqState` implements `SeqPromise`.
- `ReadersAreToldTrue`: `LookupInv`. Verdicts are kept by the version of a copy, and a shard gets
  a new version whenever it is replaced: so a verdict is about the text the reader holds, and a
  reader that trusts one trusts its own copy. An answer is what the room had when the copy was
  read, or, where the copy had nothing, what the map had when *that* was read, and the map's
  entries move into shards only (`HadFine`); the exception is a map retired in between, which
  the property names.
- `OneFile`: `LayoutInv` under `~SweepsTheGap`. Wherever a handler is on its way, its path is
  where the file is or the step that brings it there is the next; a resolver that moves has its
  bucket, which is the part a sweep of the gap takes away (`layout_forked`).
  `WrittenRoomsStay`: `OnlyIdleVanishes`, from the same: what the pass is about to unlink is idle
  or not there any more, and is nothing that a move may still bring (`DoomOf`).
- `PassesApart`: `PeriodicInv`. A lock is held by exactly the handler that is past it; whoever
  reads the ring under the lock still has it when it replaces it. `SamplesApart`: two samples are
  an interval apart, although a handler finds its sample due before it has the lock: it looks
  again inside. `RingGrows`: `RingForward` under `~ReadMayFail`.
- `NamespaceGoesUnused`: `NamespaceInv`. From the directory's making to the note in it a create
  holds its half of the span, which a pass that removes the directory needs whole (`SpanFine`);
  the count covers notes and reservations unless an increment was lost. `QuietPassesHeal`:
  `QuietPassHeals`; while nobody creates, the walk's figure is exactly the notes it is past
  (`WalkFine`).

### What readers are given (`ReadPathProofs`, `ListingProofs`)

- `SharesWholeAnswers`: `EdgeInv`, from what a fill, a copy and a waiting reader may hold;
  `StandInsAreJustified`: `StandsInForCause`; `CopiesMoveOn`: a fill that comes home late never
  covers a younger answer: while a key has a fill no other one stores under it.
- `FreshIsYoung` and `ViewsMoveOn`: `StatsInv`, and that the served view moves forward: only
  the task that is current walks, and its stamp is no older than the view it will replace
  (`WalkFine`).
- `WarnedFirst` and `FootersAreOwn`: `BudgetInv`: who was not warned, and had no warning given to a
  reply without footer, is still above the last stride; a reply in the cache has no footer.
- `SharedMovesOn`: `SharedForward`, the three parts above composed as the run composes them.
- `OneRingIsSent`: `ExportInv`. A descriptor is an inode: what was measured of it stays in it, and
  what is sent is a prefix of that. The generation read after the descriptor is at least the
  birth of the ring, or the export says that it is not known.
- `SlotsComeBack`: `PollInv`: the counters are the sizes of the sets of waiters that hold a slot.
  `StampsTellAll`: `EmptyMissedNothing`: a stamp a waiter compares with has nothing past the
  cursor, or is of an inode that never comes back (`WaitFine`), so an equal stamp misses nothing.
- `ListingsAreFresh`: `ListingInv`. What a walk will show is at least what its stamp counted,
  because the stamp was read before it began and changes land before they are counted.
- `NotesAreCurrent`: `NoteCachesInv`. Whoever walks under a stamp that an asker may still hold shows
  at least what that asker counts on (`Serves`, `CountsFine`); and a figure is no older than its
  own window, a listing than two (`WindowsFine`): the windows add up and no further.
- `LinesAreNotOlder`: `OverviewInv` under `RingOutlastsGrain`: a room takes no more records in one
  tick of the file clock than the half of its ring that a rotation drops. A memo is keyed by
  mtime and size, and the size tells two states of one tick apart as long as a rotation cannot
  bring it back (`KeyFine`). The assumption is needed and not idle: the run's instance meets it
  with equality, and with four posts to a tick TLC finds `WindowNotOlder` violated. In the code a
  tick is the file system's, some milliseconds, and a ring holds hundreds of records at least.

### What writers must pass (`WritePathProofs`)

- `GuardsKept`: `OwnershipInv`. A claimant that is about to empty the list has burnt the nonce
  that every other writer needs. `PostsArePermitted`: `NoUnlistedPost`: every permission a room
  writer acts on was so at an instant of its request, although the owner and the list are two
  reads. `NoncesBurnForward`: `BurnsForward`.
- `ToolsKeepTheirWord`: `ToolInv`. Two calls of an agent in one life of its process are in the order
  of their nonces (`OrderFine`); a bar is the nonce of a call that was taken, and none taken is
  above it (`BarsFine`): so a repeated signature lands once and an overtaken one not at all.
- `BudgetsAndCopiesHold`: `LaneInv`. Who did not pay found the room there or numbered, and numbering
  stays, so the first record is its maker's who paid (`PosterFine`). What an address has paid and
  what it has left never exceed its burst and the time up to its bucket's clock; an address
  without a bucket has paid nothing, unless the bucket was evicted (`BudgetFine`). Only a refund
  adds a bucket without evicting one, and a request has one refund: that bounds the table
  (`BucketsFine`). And a ring's entry has, for each instant, at most as many hits as requests
  hold a copy of that instant (`DupesFine`), which needs that a release takes away one hit.
- `RefusalsHaveCause`: `RefusedForCause`. The hits within the window are, instant by instant, no more
  than the copies; copies of different instants are different requests, so their numbers add up
  (`SizeOfUnion`), and at `MaxCopies` hits there are as many requests.

### Counters (`EndingProofs`)

- `EverythingCounts`: `EndingInv`, the room's `GenCountsBirths` beside `CountedOnce`. A change that
  landed is in one place: counted, lost, in a bucket, in a hand or with its writer (`OnePlace`),
  and the messages are the sum over the places; each step moves one place's share to another.
- `AnswersStayCounted`: `AnsweredStaysCounted`. Whoever answers has seen its deposit flushed, or finds
  it in the hand of a thread of its own worker that flushes for it (`DepositsFound`, `BatchHolds`);
  whoever has the batch has the lock, or failed (`LockFine`).

### What is only model-checked

Every invariant and every action property of a passing run is stated by a theorem, some under
the hypotheses named above. Liveness (`EverythingEnds`, `EveryCallEnds`, `GenerationCatchesUp`) rests
on fairness and `ENABLED`, which are out of this prover's reach; TLC checks it on the instances of
`gate_live` and `ending`. The four violation runs state what does *not* hold. Induction over data
is out of reach where it needs a theorem with an operator as parameter. Where a proof had to say
something of a sequence or a sum of any length it takes a least counterexample instead
(`Least`, by the order on the naturals), one claim at a time; `WriteLane` has the function `Only` in
place of `SelectSeq`, whose local recursion the prover does not open.

## 5. Plan

What is left is modelling: the removal of empty buckets as a step of the pass, an older count
file coming back after a power loss, and the two hazards that no property covers yet (2497: an
overwrite that turns into a creation; 1592: guards judged before their lock).

Not planned: documents, the manifest and the browser page (no state of the protocol), signature
verification (external mathematics; a verified key is an input), settings read once at start,
command-line scripts and benchmarks.
