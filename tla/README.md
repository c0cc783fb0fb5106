# A specification of Raqim's core

Raqim is a daemon that records what a swarm of agents thinks: thoughts arrive over
TCP, HTTP, WebSocket or from WASM guests, are merged into a CRDT, sealed into a
Merkle ledger, appended to a write-ahead log and, later, compacted into LanceDB.
This directory holds TLA+ modules of the parts of it that are concurrent or have
to survive a crash, the configurations that check them with TLC, and theorems
that TLAPS proves for every value of the constants.

Paths below are relative to `raqim-core/src/` unless they say otherwise.

## 1. The system

| part | state it keeps | operations | modelled in |
|---|---|---|---|
| WAL engine, `nucleus.rs` | log channel, command channel, active file, index | `append`, batch write, 2 ms tick, `Rotate`, recovery at start | `WalLog`, `Nucleus`, `WalFrames` |
| compactor, `compactor.rs` | the segment it works on, `compaction.manifest.json` | ask for a rotation, extract, embed, archive, erase, announce | `Compaction` |
| Phoenix boot, `main.rs` 323-526 | files to scan | read the manifest, erase a ghost, hydrate | `Compaction` |
| sessions and shutdown, `main.rs` 767-1063 | workers, cancellation, handles of the log | accept, read, cascade, drain, seal | `Cascade` |
| cascade, `lib.rs` 142-234 | none of its own | CRDT, seal, WAL, cortex, mesh, event | `Cascade` |
| swarm state, `state.rs`, `registry.rs` | one CRDT a namespace | get or create, append, purge | `Cascade` (no import, no eviction) |
| hot vectors, `hot_memory.rs` | entries in RAM | refill at boot, evict up to a watermark, search | `Compaction`, `Search` |
| LanceDB, `lancedb_store.rs` | tables | `archive_batch`, searches, snapshots, audit events | `Compaction`, `Search` |
| ledger, `axon.rs` | buffer of each namespace, archive, location index | seal, crystallize, prove, verify, boot audit | `Axon`, `Merkle` (no boot audit) |
| Aegis, `aegis.rs` | policies, token buckets, blocklist | authorize, reload, quarantine, assimilate | `TokenBucket`, `Aegis` (no signatures, no namespaces) |
| mesh, `network.rs` | zenoh session, flags | egress, A2A query and answer, quarantine | `Cascade`, `AgentCalls`, `Aegis` |
| gateway, `api.rs` | pending A2A map of a connection | WebSocket protocol, HTTP handlers | `AgentCalls`, `Cascade`, `Axon`, `Aegis`, `Search`, `Plugins` |
| memory router, `memory_router.rs` | effect index | effects, timelines, historical boot, hybrid search | `Search` (hybrid search only) |
| plugin orchestrator, `main.rs` 528-736 | `./plugins`, guests started | scan, start, archive; uploads beside it | `Plugins` |
| sandbox, `sandbox.rs` | guest layers, live and replay queues | host calls, checkpoint, resume | `AgentCalls` (questions only) |
| agent SDK, MCP server | a connection | commit a thought, capability loop | `Cascade`, `AgentCalls` (as clients) |
| witness, `witness.rs` | signed batch files | anchor, fetch, load | no, section 6 |
| Python SDK, CLI, siege, console, templates | none of the system's | clients and views | no |
| embedding, config, telemetry, health, cortex, utils | gauges, settings | external calls, parsing, printing | no |

How they interact. A request handler runs `execute_raqim_cascade`, which seals the
thought in the ledger and then sends it to the WAL's bounded channel; one worker
task owns the file. The compactor talks to that worker through a command channel
and waits for a reply; it talks to the hot buffer only through the broadcast bus.
The boot reads what worker and compactor left on disk, without either of them.
Proof requests read the ledger's maps beside the sealing of other requests. A packet
that Aegis refuses quarantines its agent: the record goes over the broadcast bus to
two loops of the node, and from each over the mesh to every node, its own included.

Questions between agents travel from a WebSocket, or a guest, over the mesh to every
node that has the capability, and back. Uploads of the gateway write modules into the
directory that the plugin orchestrator scans.

What is hard: crashes between the write, the sync and the index, and between the
files and the database; failures of single operations whose result is dropped;
one task giving up while another waits for it; concurrent requests over maps and
locks that are taken one after another; broadcasts that lag; a shutdown that waits for
handles other tasks keep. The hazards are listed line by line in `PROJECT.json`.

What makes each component right:

* WAL: what was published is found by recovery, once, in order; accepted logs settle.
* Compaction and boot: rows are in a file or in LanceDB, never lost, never twice;
  RAM and LanceDB do not show a row together for longer than a compaction, and RAM gives up
  only what is archived (or what stands in a segment that was given up, a flaw that
  `compaction_evict` shows).
* Ledger: one chain of batches per namespace, every log at its location, every
  proof valid.
* Cascade: a session keeps its order in CRDT and log; no thought ends in a shard that
  the registry let go; what is accepted is settled; a drain leaves nothing behind.
* Aegis: no refill above the burst, and no more packets than the bucket allows while one
  request at a time is in it (`bucket_race` shows what two do); a quarantine reaches every node
  that a copy reaches.
* A2A: whoever asks is told once, or hung up, once the question is on the mesh (before,
  a panic may keep it silent); what is refused is not handled.
* Search: a row on its way from RAM to LanceDB is not missed.
* Plugins: a complete plugin is taken, once, whatever lies beside it, while the loop
  of the orchestrator lives.

## 2. Modules

### `WalFrames` - the format of the log

A file is a sequence of *cells*: one for the length prefix, one for the checksum
and one for each log of the payload. So frames have different lengths, can be torn
between any two cells and can be partly overwritten by another frame. A cell
remembers the frame that wrote it, which is what a matching checksum establishes;
collisions of CRC32 are left out. `Zeros` is a cell of zero bytes: eight of them
read as a frame with an empty payload, whose checksum is 0 and matches, and the
recovery loop steps over it (`EmptyAt`). `CrashImages(f, d)` is what a device may
hold when the page cache was `f` and the last synced content `d`: any subset of the
cells that differ, and any length in between, a gap reading as zeros.

The recovery loop (`nucleus.rs` 255-310) is `ScanPositions`, a recursive function on
offsets; `ScannedFrames` are the offsets it indexes.

### `Nucleus` - `nucleus.rs`, `WalEngine`

The variable `worker` is the program counter of the worker task.

| action | code |
|---|---|
| `Append_` | `append` 335-337: waits for room; if the worker is dead the error is dropped |
| `Drain` | Path A, 85-97 |
| `WriteFrame`, `WriteFails`, `WriteFailsLate`, `ReportHeld` | the three `write_all`, 198-212 |
| `Sync`, `SyncFails`, `Publish` | 214-229 |
| `FlushTick` | Path B, 113-115 |
| `AskRotate` | the compactor's `WalCommand::Rotate` |
| `RotateRename`, `RenameFails`, `Reopen`, `OpenPanics`, `ClearIndex` | Path C, 118-150 |
| `Crash` | the process dies between any two steps |
| `Restart` | `recover_and_truncate_torn_frames`, 233-327, including a failed `set_len` |
| `Open`, `OpenPanics` | the first thing the task does, 68-76 |

Two points where the code and the library it uses matter:

* `tokio::fs::File` hands a write to a blocking thread and returns; the outcome of
  one is reported by the *next* write, and not by `sync_all`. The length and the
  checksum are followed by a write, the payload is not: a failure of its last piece
  goes unnoticed, the batch is published, and the next batch is given up for it.
  This is `WriteFailsLate` and `ReportHeld`; `held` is the stored error.
* the file is opened without `append` and without a seek. After a restart the
  descriptor is at 0 and `current_offset` is at the end of the clean prefix. The
  model does what the code does; `taint` remembers that it happened.

`fate` and `sent` are history: what became of each log and the order in which the
channel accepted them. `taint` says what happened to the active file since it was
opened: `"io"` (a write or a sync failed) or `"restart"` (the engine restarted over
a file that is not empty). A rotation starts a new, untainted file.

Left out: the end of the loops on closed channels (the senders are never all
dropped while the daemon runs), an active file that exists and cannot be opened by
recovery, and payloads of 4 GiB.

### `WalLog` - what the engine promises

The abstract log: logs are accepted one by one (`Accept`, or `Refuse` when the engine is
gone), settled a prefix of the queue at a time (`Commit`, `GiveUp`), archived by a rotation,
lost by a crash, and a start may bring back what was given up (`Recover`). `Nucleus`
implements it: `ImplementsWalLog` is `WalLog`'s specification, fairness included, under
the refinement mapping `queue <- batch \o chan`, `fate` being the history variable of the same
name. `Cascade` is built on `WalLog` and not on files, so what it shows of thoughts rests on
what the refinement shows of the engine.

### `Compaction` - `compactor.rs`, `main.rs` 323-526, `hot_memory.rs`, `archive_batch`

Here a file is the set of frames in it. `pc` is the program counter of the daemon,
`phase` that of the boot; `segments`, `manifest` and `vault` (LanceDB) survive a
`Crash`, the rest does not. Every operation that may fail has its failing
alternative, and one whose result the code drops goes on either way (`RemoveFile`,
`RemoveManifest`, `WriteManifest`).

`row[f]` is what comes out when frame `f` is decoded. The worker writes a
`Vec<OpLog>` (`nucleus.rs` 187) and both readers here read one `OpLog`
(`compactor.rs` 169, `main.rs` 405), so that what they get is decided by the bytes:
nothing (0), or a row whose transaction id need not be the one of any log. The
initial state leaves it open for every frame; no property that passes depends on
the choice, and the run `compaction_logs` shows what follows from 0.

`Publish` is the whole of `Nucleus`' path to the index, seen from here: a frame in
the active file, or, when the worker restarted over a log, a frame in place of at
least one other (`rewinding`). `spoiled` is a history variable that records the
frames which that, or a short answer of the embedder (`ArchiveNothing`,
`lancedb_store.rs` 461), takes out of the guarantee.

### `Search` - `memory_router.rs` 730-826, beside `Compaction`

Extends `Compaction` with one hybrid search: `Ask`, `EmbedQuery`, `SearchHot`, `SearchCold`,
`Respond` and their failures. `cold_future` is made before the hot buffer is read but, being a
future, reads nothing until it is awaited: `Reads` is the order that results. Every step of
the node is taken `Beside` the search; `held` is the set of ids that RAM or LanceDB has
had ever since it began.

### `Cascade` - `lib.rs` 142-234, `state.rs`, `main.rs` 767-1063, `api.rs` 899-998

| action | code |
|---|---|
| `Connect`, `Read`, `Interdict`, `Disconnected`, `Broken` | the accept loop and the worker of a session |
| `Send`, `HangUp` | the client (`raqim-mcp`, `commit_thought`) |
| `Ingress` | `http_ingress_endpoint`: a task of its own, and the client is answered at once |
| `Anonymous`, `FindBrain`, `AllocateBrain`, `EnterBrain`, `Merge` | the CRDT half of the cascade: `get_or_create_brain` in its two passes, `append_agent_thought` |
| `LogThought`, `Announce` | `wal.append`, `broadcast_to_world` and the event |
| `EgressDrops` | the mesh's egress loop: `allow_wan` is created false (`main.rs` 118) and never set |
| `Purge` | `purge_phantom_shards`, by reference count |
| `SettleLog`, `LogPanics` | the engine, as `WalLog` has it |
| `Cancel`, `Drained`, `DropLog`, `End`, `Crash` | the signal, the drain, the seal |

A brain is named after the thought whose task allocated it, so that two tasks that both
miss a shard make two. The checks of a packet are one choice (`Interdict` or not):
signature, capability, policy and rate change nothing here, and a check that panics
(`aegis.rs` 319) ends the task of the session as a refusal does. `holders` are the four parts that
keep a handle of the log for the life of the process.

### `AgentCalls` - `network.rs` 167-227 and 364-452, `api.rs` 239-473, `sandbox.rs`

A question: `Ask` or `AskAsGuest`, `Ignore`, `Refuse`, `Query`, then `Answer`, `Closed` or
`TimeOut`, or the asker leaves. A listener: `Register`, `Take`, `Reject` or `Approve`, `Reply`
and, since the code behind the `match` runs as well, `CallAgain` and `ReplyAgain`.

Four steps are panics of a task, which leaves the rest of the daemon running. The check
slices a blocked pattern that ends in `*` one past its end (`aegis.rs` 319; `aegis.toml` has such
patterns for two of three groups): `CheckPanics` at the asker, `AuditPanics` at a listener.
`session.get` and `declare_queryable` are unwrapped (`network.rs` 192 and 374): `QueryPanics` and
`RegisterPanics`, for a capability that makes no key expression (a leading slash gives
`a2a//x`) or, at the asker, a session that the shutdown has closed while the gateway serves.
Which capabilities and patterns these are is data the model has not: it lets any question
panic. The task is detached (`api.rs` 349), so that the socket of its client stays open; a guest
dies with its host call. What a
listener does with a question depends on who registered it (`kind`): the closures of the
gateway and of the sandbox block the thread inside a task, which tokio answers with a
panic (`SocketPanics`, `GuestPanics`); the loop is gone with the query it held. The pipe the
gateway entered in its map stays there until the client answers to nobody (`pending`).

### `Plugins` - `main.rs` 528-736, `api.rs` 851-896

The directory as three sets of names, the uploads that write modules into it, and the
orchestrator: `Tick` (a listing), for each name listed `NamePanics`, `SkipIncomplete`,
`ReadPanics`, `ReadFails`, `SkipCorrupt` or `Start`, and after a start the three renames as steps
of their own, since an upload may write or remove the module and the process may die between
them. `Place` and `PlaceModule` are the operator, external. The loop dies of three unwraps,
which the history variable `cause` tells apart: a name that is not UTF-8 (583; the constant
`Garbled`, names an upload cannot have), a file that is there and cannot be read (603-605;
`ReadFails`, one of the faults), and a file that has vanished since it was looked for
(`ReadPanics`). A failed write removes the file by name (`WriteFails`); a
stream that breaks leaves what was written (`UploadEnds`). Left out: the content of modules
and the reading of the archive; an upload whose name lacks the suffix, which writes a file
nobody looks at.

### `Merkle` and `Axon` - `axon.rs`

`Merkle` holds the pure part. Hashes are terms, so equal hashes mean equal inputs:
collision resistance is assumed. `Levels` are the turns of the loop over a level, `Depth` is
how many it takes, `Halved` the index beside it; `Climb` is `verify_inclusion`. All are
recursive functions on the number of turns.

`Axon` has the sealing of a thought in the steps that other threads can see:
`ReadParent` (a read lock), `EnterBuffer` (the map entry), `Locate`, `Push`,
`ArchiveBatch` and `Advance` (one write lock, but the location index and the
archive are read without it). A proof request is `AskProof`, `ReadLocation`,
`ReadArchive`, `SearchBuffers`, each over what the others have left of the index, the
archive and the buffers by then. `Capacity` stands for 1024.

### `TokenBucket` - `aegis.rs` 24-84, 163-171

`check_and_consume` with a step for each load, store and subtraction on the two
atomics (`ReadClock`, `ReadLast`, `Stamp`, `Load`, `Store`, `Look`, `Take`), for any
number of requests at a time: they hold only the read lock of the policies. `Reload`
takes the write lock and makes new buckets. Counters are words and wrap (`% Word`), as
they do in a release build. The clock is `SystemTime`: it moves on by itself (`Tick`) and may
be set back (`SetBack`); `Second` instants make a second. `shared`, `granted`, `born` and
`latest` are history: the account of what passed while one request at a time was in the
bucket. It is opened when the bucket is made, closed by a second request that enters
beside a first, and opened again when the last one leaves a bucket that is not above its
burst (`Opens`, `Enters`, `Leaves`).

### `Aegis` - `aegis.rs`, `network.rs` 231-287, `main.rs` 309-321 and 499-517, `api.rs` 728-849

| action | code |
|---|---|
| `Trigger` | `trigger_quarantine`, at any time: what authorizes a packet is left out |
| `Forward`, `PutFails` | `broadcast_quarantine_sync`, called by the outbound loop and by the audit vault sinker |
| `Lag` | `recv` returns `Lagged` and `while let Ok` ends: the loop is gone until the node restarts |
| `Drop` | zenoh drops a sample under congestion |
| `Arrive`, `Insert` | the subscriber and `assimilate_remote_quarantine`: `contains_key`, then `insert` |
| `Lift` | the two handlers that remove an agent from the blocklist of their node |
| `Crash`, `Boot` | the blocklist, the bus and the subscriber are in memory |

`bus` holds what a forwarder has yet to take and `net` the copies on their way, one for
each record, forwarder and destination; both are sets, so that any order of delivery is
covered. A put reaches the node's own subscriber, which is zenoh's default. The flag
`allow_global_aegis` is created true and never changed, so that its tests are left out.
`lost`, `lifted` and `forgotten` are history.

### The proof modules

`NucleusProofs`, `CompactionProofs`, `CascadeProofs`, `AxonProofs`, `AgentCallsProofs`,
`TokenBucketProofs`, `AegisProofs` and `PluginsProofs` hold the theorems about the modules they are
named for, section 5.

## 3. What is checked

All runs use two workers; none uses symmetry.

| run | bounds | result |
|---|---|---|
| `nucleus` | 3 logs, channel 2, batch 2, 1 fault, 2 crashes, 1 rotation | passes, 423 165 states |
| `nucleus_restart` | the same, no fault, 1 crash | `PublishedSurvivesRestart` violated |
| `compaction` (module `Search`) | 2 frames, 2 segments, 1 fault, 2 crashes, rows up to 2, a search at a time | passes, 700 578 states |
| `compaction_evict` | 2 frames, 2 segments, 1 fault, 1 crash | `EvictedRowsAreArchived` violated |
| `compaction_logs` | 1 frame, no fault, 1 crash | `LogsConserved` violated |
| `axon` | 4 thoughts, 2 namespaces, batches of 2, 1 client | passes, 451 998 states |
| `bucket` | 2 requests, rate 3, burst 2, seconds of 2 instants, 5 instants, words below 8, clock set back once, 1 reload | passes, 7 575 117 states |
| `bucket_race` | 2 requests, 4 instants, no set-back, no reload | `NeverAboveBurst` violated |
| `aegis` | 2 nodes, 1 agent, 2 forwarders, 2 quarantines, 2 rare events | passes, 661 576 states |
| `cascade` | 1 session of 2 thoughts, 1 thought over HTTP, 2 namespaces, 1 of them phantom, channels of 1 | passes, 221 935 states |
| `a2a` | 2 questions, 1 of them a guest's, 2 listeners of any kind | passes, 210 795 states |
| `plugins` | 3 plugins, 1 of them garbled, 2 uploads, 3 files placed, 2 faults, 1 crash | passes, 324 946 states |

**`nucleus`.** `IndexSurvivesCrash`: for *every* crash image of the present moment the
recovery loop would visit exactly the indexed frames. `PublishedIsDurable`: it would
find every published log. Both carry the proviso `taint = {}`, because the code does
not keep them beyond: after a failed sync the index is a frame off, after a restart
over data the first batch overwrites what was recovered. `AtMostOneFrame` and
`RecoveryInOrder` hold whatever fails. `EveryLogSettles` is liveness, and
`ImplementsWalLog` the refinement: no state of the engine, however it fails, does to a log what
`WalLog` does not allow. Three logs and a
batch of two give batches of different lengths, a full channel with a caller waiting,
an overwritten frame and a torn one; two crashes give a recovery of a recovered file;
one rotation moves one file away. A fault may strike any of the operations.

**`compaction`.** `RowsConserved` and `ArchivedAtMostOnce` are the two halves of
"exactly once". `NoDuplicateIngestion`: no boot puts an archived row into RAM.
`ArchivedRowsLeaveRam` and `EvictionSparesTheLog` are the two directions of
eviction: what is archived leaves, and no row leaves that stands in the active file or in the
segment at hand, whatever fails. The second fails when resuming an interrupted compaction
is added to the daemon's start, which is the mutant of two properties: eviction goes by
transaction id, and an old segment may hold higher ids than the active file. The rows of a
segment that was given up are not spared, against the promise of `hot_memory.rs` 67: that is
`compaction_evict`. A listener that has died of a lag (`ListenerEnds`) evicts nothing more; the
two properties speak of one that lives. `CompactionEnds` is liveness. Two frames
are enough for a segment beside the active file with rows in either order; two
segments for a manifest that is overwritten by the next compaction; two crashes for a
boot that is itself interrupted. `AnswersAreComplete` needs search and compaction together: rows
are archived before the watermark that evicts them, so a search must read RAM first. The
mutant reads LanceDB first and misses a row that moves between its two reads.

**`axon`.** Four thoughts in two namespaces with batches of two: TLC takes every
assignment of thoughts to namespaces, so there are two full batches in one chain, two
chains side by side, and a buffer half full. `EveryPathVerifies` is about the pure
operators alone and quantifies over the trees of up to nine leaves, which have levels
of every parity.

**`bucket`.** `RefillsRespectBurst`: no refill lifts the bucket above its burst, however stale
the count it adds to; what is excepted is the subtraction that wraps the counter below
zero, which two requests can bring about, so that `NeverAboveBurst` itself is false with two
and is stated by `bucket_race`. The mutant drops the cap (`.min`) and nothing else.
`WithinQuota` relates all that a bucket granted to the time it took, over every
stretch with one request at a time, those after a time with two included: it fails if a
refill rounds up, or if any instant is paid for twice. While two requests are in the bucket
it promises nothing: a stale store may give back what was taken. Three tokens per two instants
make refills of every remainder, and the clock is set back between and within checks.

**`aegis`.** `QuietMeansKnown` says what the second forwarder buys: when everything is
delivered, a node blocks the agent of every record it made or of which either copy was
not lost. The exceptions are explicit: a node that stopped forgets, and one that was down
when a put was made is sent nothing later (its copies count as lost). `MeshGoesQuiet`
is liveness. Two records against one agent make the case where a record is not
looked at because the other blocked the agent already; the two rare events are any two
of a failed put, a lagged loop, a dropped sample, a lift and a stop.

**`cascade`.** `NoThoughtIsOrphaned`: two tasks that miss a shard, and a purge that goes by the
reference count, do not split a timeline; the second pass of `get_or_create_brain` is what
it hangs on. `SessionOrder` relates the order of a connection to the CRDT and to the log.
`DrainIsComplete` and `DrainEnds` are the two halves of a graceful drain: nothing a session
accepted is left, and no full channel holds it up once the clients have hung up (nothing
tells the workers: with a client that stays, the drain lasts for ever). The shutdown behind
it is another matter: `OnlyAPanicEndsTheShutdown` says that main, once it awaits the worker
of the log, waits for ever or until that worker panics.
`EveryThoughtSettles` says that what is announced before it is durable is settled all the
same. Two thoughts of a session are an order; the thought over HTTP races with them for a
shard, and runs on during the shutdown; two namespaces make one shard that is
purged and one that must not be; channels of one place make everyone wait.

**`a2a`.** `ToldOnce` holds although every listener replies twice and several listen;
`RefusedIsNeverHandled` although the second call stands behind both branches of the check;
`OnlyAPanicIsSilent` is liveness: whatever listeners do, an asker hears of
its question unless it hung up or the task that asks panics before the question is on the
mesh. TLC takes every assignment of
kinds to the two listeners, so that a listener that answers stands beside one that panics.

**`plugins`.** `OnlyUploadsWithdraw` is about one of the three ends of the loop: a file that
is gone when it is read is a module a failed upload removed, never one that the renames of the
loop itself took from under its listing. The other two, a read that fails and a garbled name, may
come at any time.
`StartedOnce`: a deployment is started a second time only if the renames of its key *and* of
its certificate failed; two faults are the least that make this happen.
`PluginsAreTaken` is liveness: while the loop lives, what is skipped does not hold back what is
complete. The order of the listing is any, so two plugins are enough for one to stand in the
way; the third has the garbled name. A dead loop takes nothing any more.

**Violations.** Each of the four runs states a sentence of the sources, which is refuted:

1. `nucleus.rs` 51, "enterprise crash-safe WAL with automatic torn-frame recovery":
   the first batch after a restart overwrites the first recovered frame.
2. `compactor.rs` 195, "contained zero valid logs": the segment holds published logs
   that are read with the wrong type, and is erased.
3. `aegis.rs` 67, "do not exceed burst_capacity": two requests see the last token and
   both subtract it, and the unsigned counter wraps.
4. `hot_memory.rs` 67, "ONLY if they have been durably archived": the watermark of a segment
   evicts the rows of an earlier one that was given up after a failure
   (`compactor.rs` 211-218). They are then only in a file that no search reads.

Three more disagreements are stated by what passes, as the exception a property names:

* `main.rs` 1059 and 1063, "Awaiting final io_uring fsync", "terminated cleanly": `main` drops
  one of four handles of the log and waits for the worker, which ends with the last.
  `OnlyAPanicEndsTheShutdown` says that this takes a panic of the worker;
* `api.rs` 50, "Zero-Panic Guarantee": the task of a question panics in the check (`aegis.rs` 319)
  or in the query it unwraps (`network.rs` 192), and its client is told nothing on a socket
  that stays open (`OnlyAPanicIsSilent`);
* `main.rs` 568, "monitoring", with 591 "Dropped" and 611 "Skipping": one unreadable file or
  garbled name ends the loop for all plugins and not for its own (583 and 603-605);
  `PluginsAreTaken` speaks of a loop that lives.

Each property of a passing run has a mutant in `PROJECT.json`: a plausible slip in one
mapped definition which the run then refutes.

## 4. Fairness and deadlock

* `Nucleus`: weak fairness of the steps of a batch and of a rotation that has renamed
  the file: the runtime polls a task whose I/O has completed. Strong fairness of
  `Drain`: `select!` picks among its ready branches at random, so a log in the channel
  is taken even if ticks and rotations come and go. Nothing is assumed of `Restart`:
  no property needs the operator to restart the node.
* `Compaction`: weak fairness of the worker's answer, of the daemon's steps and of the
  boot. Nothing is assumed of the listener, of `AskRotate` or of `Publish`.
* `Axon`, `TokenBucket`: safety only.
* `Aegis`: weak fairness of the forwarders, the delivery and the insertion: they are tasks
  of a multi-threaded runtime, and zenoh delivers what it does not drop. Nothing is
  assumed of `Boot` or of any rare event.
* `WalLog`: weak fairness of `Settle`. `Nucleus` establishes it, `Cascade` assumes it of the
  log (`SettleLog`).
* `Cascade`: weak fairness of the workers' reads, of each cascade, of the egress loop and of
  the steps of the shutdown. Nothing makes a client speak or hang up, a packet be
  refused, a connection break or a signal arrive.
* `AgentCalls`: weak fairness of the asker's side, its 15 s timer included; none of the
  listeners.
* `Plugins`: weak fairness of the orchestrator, whose interval goes on firing; none of uploads, the
  operator or a restart.

Deadlock is checked for `TokenBucket`. The other runs have `CHECK_DEADLOCK FALSE`: the
bounded supplies of logs, frames, thoughts, questions, placements,
quarantines, crashes and rotations run out, and the worker may be dead.

## 5. What is proved

Every theorem is about `Spec`, for all values of the constants under the assumptions
that the modules state: the bounds are natural numbers, the capacities of channels are
positive, the set of frames is finite, the burst is below the word size, and the values that
stand for nothing are not among those they stand beside.

### The WAL engine (`NucleusProofs`)

* `TypeCorrect == Spec => []TypeOK`: among others, the channel and the batch never
  exceed their capacities.
* `CrashSafety == Spec => []IndexSurvivesCrash`.
* `PublishedOutlivesCrash == Spec => []PublishedIsDurable`.
* `OneFramePerLog == Spec => []AtMostOneFrame` and
  `RecoveryKeepsOrder == Spec => []RecoveryInOrder`.
* `ImplementsLogSteps == Spec => Log!Init /\ [][Log!Next]_(Log!vars)`: the safety half of
  the refinement `ImplementsWalLog`. Every step of the engine, failed and crashed ones
  included, is a step of `WalLog` or changes nothing a caller can tell.

None of the state formulas is inductive. The invariant of the first two is

    IInv == TypeInv /\ QueueInv /\ (Settled /\ taint = {} => IndexInv /\ FrameInv)

`CursorInv` (in `TypeInv`) ties the descriptor and the batch to the worker's place, and
keeps `Overlay` from leaving a hole. `QueueInv` says that waiting logs wait once: a new
batch therefore cannot start with a log the index has, and `Publish` adds an entry
instead of replacing one. `IndexInv` says that every indexed frame is whole both in the
page cache *and* on the device and that the frames chain from 0 to `current_offset`;
`FrameInv` that the frame being written stands at `current_offset`. A crash image takes
every cell from one of the two files, so a frame that both hold is in the image
(`CrashImageKeepsFrame`); a write at `current_offset` disturbs no indexed frame
(`OverlayKeepsFrame`). `IInv` was first checked with TLC as an invariant of the run
`nucleus`, and so were those that follow.

`PublishedIsDurable` speaks of the set of offsets the recovery loop computes. `ReachInv` says
that the frames of the index lead from one to the next, from offset 0 to `current_offset`, and
hold every published log; `GoneInv` that none is published while there is no index. The
first frame of the index that the scan of an image would miss has a frame before it, which
the scan reaches and which ends where the missed one begins (`ImageIsScanned`): the least
element of a set of offsets (`LeastNumber`, from the well-foundedness of `<` on the naturals)
stands in for an induction over the file.

`AtMostOneFrame` needs no assumption on `taint`. `PlaceInv`: the cells that announce a log stand
in one file, belong to one frame and stand at that frame's distances, in the page cache, on
the device and in segments alike; their logs are settled or in the batch that is being
written. A log is written once, since a batch holds only logs that were waiting, and neither
a crash image nor an overwritten file has a cell its origin had elsewhere. For
`RecoveryInOrder`, `SentInv` puts the logs that wait in the channel's order, batch first,
`EndInv` has the worker write at the end of the file as long as the engine has not
restarted over data, and `OrderInv` then keeps what is in the file before what waits.

Most steps map to one of `WalLog`'s by what they do to the batch and the channel: a drain
moves the line between the two and leaves the queue alone (`DrainKeepsQueue`), whatever
empties the batch settles a prefix of the queue (`QueueSplits`). Only a restart needs more:
`Recover` brings back logs that were durable or given up, never one that is new, waiting or
archived. That is `FoundInv`: every cell of the file or of the device announces logs that
are published, dropped, or in the worker's batch. A write adds cells of the batch only
(`OverlayCells`, `FrameCells`), a crash image only old cells and zeros (`CrashImageCells`),
and a rotation, which makes published logs archived, leaves both files empty.

### Compaction and boot (`CompactionProofs`)

* `CompactionTypes == Spec => []TypeOK`
* `RowsAreConserved == Spec => []RowsConserved`
* `RowsAreArchivedOnce == Spec => []ArchivedAtMostOnce`
* `NoRowIsIngestedTwice == Spec => NoDuplicateIngestion`
* `ArchivedRowsAreEvicted == Spec => []ArchivedRowsLeaveRam`
* `EvictionIsSafe == Spec => EvictionSparesTheLog`

* `CompactionBesideSearch`: all six under `SearchSpec`, the specification of the run
* `SearchesMissNothing == SearchSpec => []AnswersAreComplete`

so all the safety of the run `compaction`. The invariant is

    IInv == TypeOK /\ DaemonInv /\ BootInv /\ ManifestInv /\ StoreInv

`DaemonInv` says what the daemon may rely on at each of its places: the segment is on
disk until it is removed, the batch is what decodes from it, its rows are not archived
before `Archive` and kept after it. `ManifestInv` is what makes the boot safe: a
Committed manifest names a segment whose rows are kept, or one that is gone for good,
since a number is never reused. `StoreInv` has a frame in one file only, and in LanceDB
only after its segment was archived; with it, a file may be removed exactly when its rows
are kept (`RemoveStep`), and the rows `Archive` adds are new (`ArchiveStep`). `BootInv`
says that only the active file is scanned, which is why no archived row comes back to
RAM; it holds because the state the boot looks for is never written. The two eviction theorems
have an invariant each on top: `ArchivedRowsLeaveRam` is inductive given `IInv`, with the
existence of a highest transaction id in a batch (`Highest`, from the well-foundedness of
`<`), and `HotInv` follows the hot rows from the active file to the first segment
compacted, and on into LanceDB or among the segments that were given up (`Abandoned`). It
assumes nothing of failures.

A step of a search is a stutter of the node or uses up a failure (`SearchMoves`), so the
invariants carry over to `SearchSpec`. `SearchInv` says of a search what is still ahead of
it: before it reads the hot buffer, every row held all the while is in RAM or in LanceDB;
after that, those it has not found are in LanceDB, and rows of LanceDB stay
(`RowsStayCold`).

### The token bucket (`TokenBucketProofs`)

* `BucketTypes == Spec => []TypeOK`, for any set of requests.
* `RefillsAreCapped == Spec => RefillsRespectBurst` and
  `QuotaIsRespected == Spec => []WithinQuota`, both for any set of requests as well.

The first follows step by step from the types: a store leaves at most the burst, and a
subtraction raises the counter only from zero. The invariant `QuotaInv` of the second says that
an open account has one request in the bucket at most (`OpenInv`), and of each place in
`check_and_consume` how much of the
elapsed time has been turned into tokens: `(granted + tokens) * Second` is at most
`Burst * Second + Rate * (last - born)`, and between `Stamp` and `Store` so is the sum
with the tokens that are yet to be stored. It needs `born <= last`, which holds although
the clock may be set back, since `last` is only ever moved forward: no token is new
unless the clock is ahead of `last`. `ClockInv` holds with the account closed
as well: whatever two requests did, no stamp is later than `latest`, so that an account that is
opened afresh starts right (`FreshAccount`). The products are of two variables, and are taken
from lemmas of their own.

### The quarantine mesh (`AegisProofs`)

* `AegisTypes == Spec => []TypeOK`
* `OneCopyIsEnough == Spec => []QuietMeansKnown`

for any nodes, agents, forwarders and number of rare events. The invariant `ToldInv` says
that a node knows a record (it blocks the agent, has the record in hand, lifted the
quarantine or stopped since) or, if it did not make it, that each forwarder's copy is in
the bus, in the mesh or lost. Every step but `Trigger` moves copies from one place to
the next, which is the lemma `ToldByOthers`.

### The cascade (`CascadeProofs`)

* `CascadeTypesHold == Spec => []TypeOK`
* `NoOrphans == Spec => []NoThoughtIsOrphaned`
* `SessionsInOrder == Spec => []SessionOrder`
* `DrainLeavesNothing == Spec => []DrainIsComplete`
* `ShutdownTakesAPanic == Spec => []OnlyAPanicEndsTheShutdown`

for any sessions, thoughts, namespaces and capacities. `BrainInv` is the strengthening of the
first: a task that holds a brain holds the shard of its namespace, which exists; so the purge,
which spares what is held, takes no shard from under a task. `SessionInv` says that of one
session at most the thought last read is under way, and that a worker that has ended
leaves nothing under way; with `PhaseInv` (a drain that is over has joined all workers) it gives
`DrainIsComplete`. `SealInv` has the router keep its handle until a crash, so that the log's
worker can only panic. `LogInv` ties the log to the cascades: `FateInv` gives a thought a fate
once its cascade has logged it, `QueueInv` makes the queue hold exactly the logs that are
sent, each once, and `OrderInv` has those of a session in order in the queue and settled from
the front. It is about `WalLog`'s steps, so that it holds of any engine that implements them.

### The ledger (`AxonProofs`)

* `LedgerTypes == Spec => []TypeOK`
* `IndexIsRight == Spec => []LocationIsRight`
* `LinksPointBack == Spec => []LinkedToThePast`
* `PathLeadsToRoot`: for every list of leaves and every leaf of it, what `verify_inclusion`
  climbs to along the sibling path is the root `compute_markle_root` computes; so
  `EveryLeafVerifies == Spec => []EveryPathVerifies`
* `RootDeterminesLeaves`: two lists of one length with one root are one list
* `OneChain == Spec => []ChainIsIntact`
* `EveryProofVerifies == Spec => []ProofsVerify`

The two theorems about trees are inductions over the levels. A set of numbers that holds 0 and
what follows each of its members holds all (`AllNumbers`, again from a least
element), and the set is, for the first, the turns k after which the climbing hash is
the leaf's ancestor on level k (`ClimbTurns`, `TurnHalves`), for the second, those after
which the levels of the two trees differ from the root downwards in nothing
(`TurnDetermines`). `LevelsExist` gives the recursive functions their equations, `DepthIsFirst`
the turn at which one hash is left. That a hash is a term enters as `NodeApart` and
`LeafApart`: unequal inputs have unequal hashes, and leaves, nodes and the zero root are
apart.

`BaseInv` adds to the types who holds which lock: a request holds that of its namespace from
`Locate` to its last step, so a buffer it finds has room. `IdInv` says that no two buffers
share an id and that an id is in the archive exactly while its buffer is being archived,
and then with this buffer's content; with it `PlaceInv` follows a log from its location to the
buffer and on into the archive. `ParentInv` and `LinkInv` order the roots of a namespace: the
parent of a buffer, and the root a request has read under the first lock, are older than
any id the request can still get.

`ContentInv` says what is in a batch: every thought of it is indexed at its place in it, so no two
batches share one, and an archived batch is full. With `RootDeterminesLeaves` a root about to be
archived is new (`RootIsNew`), and so `TipInv` keeps the batches of a namespace one chain
(`NextLink`), whose tip is the parent of its buffer or, between `ArchiveBatch` and
`Advance`, the root just archived. `ClientInv` follows a proof request between its unlocked
reads: a location never changes once it is there (`PlaceStays`), and what an archived batch
holds at it is the thought (`IndexedIsThere`).

### Calls between agents (`AgentCallsProofs`)

* `CallTypes == Spec => []TypeOK`
* `AskersAreToldOnce == Spec => []ToldOnce`
* `RefusalIsFinal == Spec => []RefusedIsNeverHandled`

`ToldInv`: nobody is told before the call is settled, and a call is settled once. `QueryInv`: a
query waits once in the inbox of a listener, and is undecided while it waits and while it is
checked.

### The plugins directory (`PluginsProofs`)

* `PluginTypes == Spec => []TypeOK`
* `OnlyUploadsTakeAway == Spec => []OnlyUploadsWithdraw`
* `OneRenameIsEnough == Spec => StartedOnce`

`ListedInv`: what is listed is in the directory or was withdrawn since the tick, because the
orchestrator removes only what it has in hand and never has that in the listing. `StartedInv`: of
a deployment that was started, each credential has left the directory, or its rename
failed, or is still to come.

### Only model-checked

Every safety property of a passing run is a theorem; the type invariants of `TokenBucket` and
`Aegis` are proved and need no run. What is left to TLC is liveness
(`EveryLogSettles`, `CompactionEnds`, `MeshGoesQuiet`, `EveryThoughtSettles`, `DrainEnds`,
`OnlyAPanicIsSilent`, `PluginsAreTaken`, and the fairness half of `ImplementsWalLog`):
it rests on `ENABLED`, which the provers do not reason about. Induction theorems of
the library take an operator as a parameter, which the provers cannot instantiate; where
a recursive function had to be followed over its whole domain, the proofs take the least
counterexample instead.

No theorem assumes what the code does not establish. What the properties themselves except
(`taint`, `spoiled`, segments given up, an account that is closed, `blind`, what an operator
lifted) is part of their statements, section 3.

## 6. Not modelled

Left out because nothing in this commit reaches it:

* the witness files and the boot audit: `anchor_batch` is never called, `load_local_witness` compares
  an extension, which has no dot, with ".json", and the two sides name their files
  differently ("bundle_" and "batch_");
* foreign thoughts: `allow_wan` is created false (`main.rs` 118), so nothing is sent, and with
  it `verify_foreign_thoughts` and the import of remote updates; `evict_brain` and
  `quarantine_agent` are not called;
* the hot buffer's `push` and its capacity: RAM is filled at boot only, so that a new thought
  is not found by a hybrid search until it has been compacted;
* the effects of the memory router (829-914): their only client is `trace` of the Python SDK, which
  returns `None` in place of its decorator;
* guests: the engine is configured with `async_support(true)` and instantiated synchronously,
  which wasmtime answers with a panic. So checkpoints, the live and replay queues, and the
  resurrection of an archived guest have no behaviour; `AgentCalls` has what a guest asks, as
  the code is written, and `Plugins` ends with the spawn.

Left out because the result is not determined, or not ours:

* the timelines and searches of the log (`nucleus.rs` 340-492, `memory_router.rs` 109-460): they read
  frames that hold a vector of logs as one log, most of them without validation. Three queries
  beside them ask LanceDB for the column `transaction_id` (`lancedb_store.rs` 210 and 850,
  `memory_router.rs` 312), which the schema calls `tx_id`, and unwrap the answer. A segment that
  was rotated and not archived is in neither of the places they read;
* the merge of the CRDT (loro), the vector index (LanceDB) and the mesh (zenoh), which appear by
  what this code relies on;
* signatures, certificates and the matching of namespaces: the models leave open how they
  decide. That the matching may panic is modelled where somebody waits behind it
  (`AgentCalls`) or a session ends with it (`Cascade`);
* the process table (`touch_agent`), telemetry, health, configuration, embedders, the cortex
  reader, the command line, the load generator, the console and the templates: they
  format, measure and print.

Facts met while modelling that no run states:

* `main.rs` 348 compares the state of a manifest with `"PENDING"`, which is never written: a
  `Pending` compaction is not taken up at boot. Its segment stays on disk, which is why
  `RowsConserved` holds;
* `main.rs` 457 indexes the vectors of an embedder that may return fewer than it was asked: the
  boot panics, which is a `Crash` of the model;
* a proof request looks into archive and buffers one after the other and may answer "not found"
  for a sealed log whose batch is crystallized in between; what it does return verifies;
* a copy of a quarantine record that arrives after an operator has lifted the quarantine, the
  node's own copy included, blocks the agent again: `QuietMeansKnown` excepts lifted records
  for it and does not forbid it, as nothing says which of the two should win;
* the listener of watermarks ends at the first `Lagged` (`main.rs` 488): rows archived from then on
  stay in RAM, and in LanceDB, until the next start;
* `ask_swarm` of the Python SDK sends its public key as a list of numbers where a string is
  read, and is ignored; a late answer ends its listener;
* an upload is answered with success before its last chunk is known to be written, and a scan may
  start a module that is half written: guests do not run, so nothing depends on it yet.

What remains of the plan of this development: once guests run, a module of the sandbox's
live and replay queues.
