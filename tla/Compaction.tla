----------------------------- MODULE Compaction -----------------------------
(***************************************************************************)
(* What happens to frames once the WAL engine has published them: rotation *)
(* into segments, the two-phase compaction of compactor.rs into LanceDB,   *)
(* and the Phoenix boot of main.rs, which reads the manifest and the files *)
(* that a crash left and refills the hot vector buffer of hot_memory.rs.   *)
(*                                                                         *)
(* A file is the set of frames a reader finds in it; Nucleus.tla is about  *)
(* how frames come to be in the active file and what a crash does to them. *)
(* LanceDB and the embedder are external: adding rows is atomic, and each  *)
(* call may fail.                                                          *)
(*                                                                         *)
(* The worker writes a batch as one archived Vec<OpLog> (nucleus.rs 184),  *)
(* both readers here take a frame for one archived OpLog.  Validation      *)
(* rejects the bytes, or accepts something that is none of the logs: which *)
(* of the two depends on the bytes only.  row[f] is the transaction id of  *)
(* what comes out of frame f, 0 when nothing does.                         *)
(***************************************************************************)
EXTENDS Naturals, FiniteSets

CONSTANTS
  Frames,       \* the frames that are ever published
  MaxTx,        \* bound: transaction ids of decoded rows
  MaxSegments,  \* bound: segments rotated out
  MaxFaults,    \* bound: operations that fail
  MaxCrashes    \* bound: crashes

ASSUME ConstantAssumption ==
  /\ IsFiniteSet(Frames)
  /\ MaxTx \in Nat /\ MaxSegments \in Nat
  /\ MaxFaults \in Nat /\ MaxCrashes \in Nat

VARIABLES
  row,         \* what decoding a frame yields
  wal,         \* the frames of the active file
  segments,    \* segment -> its frames, for the segments on disk
  rotations,   \* segments rotated out so far
  manifest,    \* compaction.manifest.json
  vault,       \* frame -> rows of it in LanceDB
  phase,       \* of the node: down, or how far the boot has got
  toScan,      \* files_to_scan
  hot,         \* the frames whose rows are in the hot vector buffer
  workerUp,    \* the WAL worker task lives
  rewinding,   \* the worker restarted over a log: it writes at offset 0
  pc, target,  \* the compactor, and the segment it works on
  batch,       \* the frames whose rows it holds (logs_to_archive)
  watermarks,  \* CompactionTriggered events the watermark listener has not seen
  listening,   \* the watermark listener lives
  published,   \* history: the frames ever published
  spoiled,     \* history: frames lost to a rewound worker or a short embedding
  faults, crashes

persistent == <<wal, segments, rotations, manifest, vault>>
ram        == <<phase, toScan, hot, workerUp, rewinding, watermarks, listening>>
compactor  == <<pc, target, batch>>
history    == <<row, published, spoiled>>
bounds     == <<faults, crashes>>
vars       == <<persistent, ram, compactor, history, bounds>>

Segments == 1..MaxSegments
Active   == 0                     \* the name of the active file
None     == [target |-> 0, state |-> "None"]
Manifests == {None} \cup [target : Segments, state : {"Pending", "Committed"}]

OnDisk(file) == file = Active \/ file \in DOMAIN segments
Content(file) == IF file = Active THEN wal ELSE segments[file]
Without(s) == [t \in DOMAIN segments \ {s} |-> segments[t]]

\* The frames of S that decode to something.
DecodedAll(S) == S
Decoded(S) == {f \in S : row[f] # 0}

\* An operation of the environment fails.
Fault ==
  /\ faults < MaxFaults
  /\ faults' = faults + 1
  /\ UNCHANGED crashes

Init ==
  /\ row \in [Frames -> 0..MaxTx]
  /\ wal = {} /\ segments = [s \in {} |-> {}] /\ rotations = 0
  /\ manifest = None /\ vault = [f \in Frames |-> 0]
  /\ phase = "down" /\ toScan = {} /\ hot = {}
  /\ workerUp = FALSE /\ rewinding = FALSE
  /\ pc = "off" /\ target = Active /\ batch = {}
  /\ watermarks = {} /\ listening = FALSE
  /\ published = {} /\ spoiled = {} /\ faults = 0 /\ crashes = 0

-----------------------------------------------------------------------------
(* The WAL worker publishes a frame.  After a restart over a log it writes   *)
(* from offset 0, over at least the first frame: which of the others stay    *)
(* readable depends on where the new frame ends.                             *)
Publish(f) ==
  /\ phase = "up" /\ workerUp
  /\ f \notin published
  /\ published' = published \cup {f}
  /\ \/ /\ ~rewinding
        /\ wal' = wal \cup {f}
        /\ UNCHANGED spoiled
     \/ /\ rewinding
        /\ \E kept \in SUBSET wal :
             /\ kept # wal
             /\ wal' = kept \cup {f}
             /\ spoiled' = spoiled \cup (wal \ kept)
  /\ UNCHANGED <<row, segments, rotations, manifest, vault, ram, compactor, bounds>>

(* The ticks of the daemon: the file has a gigabyte, or a day has passed.    *)
AskRotate ==
  /\ phase = "up" /\ workerUp
  /\ pc = "idle"
  /\ rotations < MaxSegments
  /\ pc' = "asked"
  /\ UNCHANGED <<persistent, ram, target, batch, history, bounds>>

\* The active file becomes the next segment.
RenamedAway ==
  /\ rotations' = rotations + 1
  /\ segments' = [s \in DOMAIN segments \cup {rotations'} |->
                    IF s = rotations' THEN wal ELSE segments[s]]
  /\ wal' = {}
  /\ rewinding' = FALSE
  /\ UNCHANGED <<manifest, vault, phase, toScan, hot, watermarks, listening>>

(* The worker rotates and answers with the name of the segment.              *)
Rotate ==
  /\ pc = "asked"
  /\ RenamedAway
  /\ target' = rotations'
  /\ pc' = "rotated"
  /\ UNCHANGED <<workerUp, batch, history, bounds>>

\* The reply channel is dropped: the compactor stops waiting for it.
RefusedSilently == pc' = "unanswered"
Refused == pc' = "idle"

(* ... the rename fails, and the reply channel is dropped.                   *)
RotateFails ==
  /\ pc = "asked"
  /\ Fault
  /\ Refused
  /\ UNCHANGED <<persistent, ram, target, batch, history>>

(* ... or no fresh file can be opened: the worker dies, the channel with it. *)
RotateKillsWorker ==
  /\ pc = "asked"
  /\ Fault
  /\ RenamedAway
  /\ workerUp' = FALSE
  /\ Refused
  /\ UNCHANGED <<target, batch, history>>

-----------------------------------------------------------------------------
(* write_manifest_atomically: a failure is not reported.                     *)
WriteManifest(state) ==
  \/ /\ manifest' = [target |-> target, state |-> state]
     /\ UNCHANGED bounds
  \/ Fault /\ UNCHANGED manifest

(* fs::remove_file with its result thrown away, or only logged.              *)
RemoveFile(s) ==
  \/ segments' = Without(s) /\ UNCHANGED bounds
  \/ s \in DOMAIN segments /\ Fault /\ UNCHANGED segments

RemoveManifest ==
  \/ manifest' = None /\ UNCHANGED bounds
  \/ manifest # None /\ Fault /\ UNCHANGED manifest

WritePending ==
  /\ pc = "rotated"
  /\ WriteManifest("Pending")
  /\ pc' = "pending"
  /\ UNCHANGED <<wal, segments, rotations, vault, ram, target, batch, history>>

(* Read the segment and decode its frames; nothing decoded: it is removed.   *)
Extract ==
  /\ pc = "pending"
  /\ batch' = Decoded(segments[target])
  /\ pc' = IF batch' = {} THEN "empty" ELSE "extracted"
  /\ UNCHANGED <<persistent, ram, target, history, bounds>>

RemoveEmptySegment ==
  /\ pc = "empty"
  /\ RemoveFile(target)
  /\ pc' = "emptied"
  /\ UNCHANGED <<wal, rotations, manifest, vault, ram, target, batch, history>>

RemoveEmptyManifest ==
  /\ pc = "emptied"
  /\ RemoveManifest
  /\ pc' = "idle"
  /\ UNCHANGED <<wal, segments, rotations, vault, ram, target, batch, history>>

(* The segment cannot be read, or embed_batch fails: both return, and leave  *)
(* the segment and the Pending manifest where they are.                      *)
GiveUp ==
  /\ pc \in {"pending", "extracted"}
  /\ Fault
  /\ pc' = "idle"
  /\ UNCHANGED <<persistent, ram, target, batch, history>>

(* embed_batch answers, with as many vectors as texts or with fewer.         *)
Embed ==
  /\ pc = "extracted"
  /\ \/ pc' = "embedded" /\ UNCHANGED bounds
     \/ pc' = "short" /\ Fault
  /\ UNCHANGED <<persistent, ram, target, batch, history>>

(* archive_batch adds the rows ...                                           *)
Archive ==
  /\ pc = "embedded"
  /\ vault' = [f \in Frames |-> IF f \in batch THEN vault[f] + 1 ELSE vault[f]]
  /\ pc' = "archived"
  /\ UNCHANGED <<wal, segments, rotations, manifest, ram, target, batch, history, bounds>>

(* ... returns without a word when the lengths differ ...                    *)
ArchiveNothing ==
  /\ pc = "short"
  /\ spoiled' = spoiled \cup batch
  /\ pc' = "archived"
  /\ UNCHANGED <<persistent, ram, target, batch, row, published, bounds>>

(* ... or unwraps an error of the database, which kills the daemon.          *)
ArchivePanics ==
  /\ pc = "embedded"
  /\ Fault
  /\ pc' = "dead"
  /\ UNCHANGED <<persistent, ram, target, batch, history>>

WriteCommitted ==
  /\ pc = "archived"
  /\ WriteManifest("Committed")
  /\ pc' = "committed"
  /\ UNCHANGED <<wal, segments, rotations, vault, ram, target, batch, history>>

RemoveSegment ==
  /\ pc = "committed"
  /\ RemoveFile(target)
  /\ pc' = "removed"
  /\ UNCHANGED <<wal, rotations, manifest, vault, ram, target, batch, history>>

RemoveCommitted ==
  /\ pc = "removed"
  /\ RemoveManifest
  /\ pc' = "cleared"
  /\ UNCHANGED <<wal, segments, rotations, vault, ram, target, batch, history>>

(* ... and the event that carries the highest transaction id archived.       *)
Announce ==
  /\ pc = "cleared"
  /\ watermarks' = watermarks \cup
       {w \in {row[f] : f \in batch} : \A f \in batch : row[f] <= w}
  /\ pc' = "idle"
  /\ UNCHANGED <<persistent, phase, toScan, hot, workerUp, rewinding, listening,
                 target, batch, history, bounds>>

-----------------------------------------------------------------------------
\* The hot entries a watermark leaves in place.
SurvivesOrEqual(f, w) == row[f] >= w
Survives(f, w) == row[f] > w

(* The watermark listener: evict_compacted_up_to.                            *)
Evict(w) ==
  /\ listening
  /\ hot' = {f \in hot : Survives(f, w)}
  /\ watermarks' = watermarks \ {w}
  /\ UNCHANGED <<persistent, phase, toScan, workerUp, rewinding, listening,
                 compactor, history, bounds>>

(* The bus overruns the listener: recv is Lagged, and the loop ends.         *)
ListenerEnds ==
  /\ phase = "up" /\ listening
  /\ Fault
  /\ listening' = FALSE
  /\ UNCHANGED <<persistent, phase, toScan, hot, workerUp, rewinding, watermarks,
                 compactor, history>>

-----------------------------------------------------------------------------
(* A crash leaves the files, the manifest and LanceDB.                       *)
Crash ==
  /\ phase # "down"
  /\ crashes < MaxCrashes
  /\ crashes' = crashes + 1
  /\ phase' = "down" /\ toScan' = {} /\ hot' = {}
  /\ workerUp' = FALSE /\ rewinding' = FALSE
  /\ watermarks' = {} /\ listening' = FALSE
  /\ pc' = "off" /\ target' = Active /\ batch' = {}
  /\ UNCHANGED <<persistent, history, faults>>

\* The states the boot compares the manifest with: the enum is written as
\* "Committed" and "Pending".
ErasesAnything(m) == m.state \in {"Committed", "Pending"}
Erases(m) == m.state = "Committed"
QueuesPending(m) == m.state = "Pending"
Queues(m) == m.state = "PENDING"

\* Start the WAL worker, then read the manifest: erase a ghost, or list what is
\* to be scanned, the active file last.
BootWal ==
  /\ phase = "down"
  /\ workerUp' = TRUE
  /\ rewinding' = (wal # {})
  /\ phase' = "booting"
  /\ UNCHANGED <<persistent, toScan, hot, watermarks, listening, compactor,
                 history, bounds>>

ListFiles ==
  /\ phase = "booting"
  /\ ~Erases(manifest)
  /\ toScan' = {Active} \cup
       {s \in {manifest.target} : Queues(manifest) /\ OnDisk(s)}
  /\ phase' = "listed"
  /\ UNCHANGED <<persistent, hot, workerUp, rewinding, watermarks, listening,
                 compactor, history, bounds>>

EraseGhost ==
  /\ phase = "booting"
  /\ Erases(manifest)
  /\ RemoveFile(manifest.target)
  /\ phase' = "ghost"
  /\ UNCHANGED <<wal, rotations, manifest, vault, toScan, hot, workerUp,
                 rewinding, watermarks, listening, compactor, history>>

EraseGhostManifest ==
  /\ phase = "ghost"
  /\ RemoveManifest
  /\ toScan' = {Active}
  /\ phase' = "listed"
  /\ UNCHANGED <<wal, segments, rotations, vault, hot, workerUp, rewinding,
                 watermarks, listening, compactor, history>>

\* The rows of the files scanned.
Recovered == Decoded(UNION {Content(file) : file \in toScan})

\* Nothing tells the new compactor about a compaction that was under way.
ResumesPending ==
  IF manifest.state = "Pending" /\ OnDisk(manifest.target)
    THEN pc' = "rotated" /\ target' = manifest.target
    ELSE pc' = "idle" /\ target' = Active
StartsIdle == pc' = "idle" /\ target' = Active

(* Phoenix hydration: the rows of the files go to the hot buffer, when the   *)
(* embedder answers; the listener and the compactor start.                   *)
Hydrate ==
  /\ phase = "listed"
  /\ \/ hot' = Recovered /\ UNCHANGED bounds
     \/ Recovered # {} /\ hot' = {} /\ Fault
  /\ phase' = "up" /\ toScan' = {}
  /\ listening' = TRUE
  /\ StartsIdle /\ batch' = {}
  /\ UNCHANGED <<persistent, workerUp, rewinding, watermarks, history>>

-----------------------------------------------------------------------------
AnswerRotate == Rotate \/ RotateFails \/ RotateKillsWorker

ExecuteCompaction ==
  \/ WritePending \/ Extract \/ RemoveEmptySegment \/ RemoveEmptyManifest
  \/ GiveUp \/ Embed \/ Archive \/ ArchiveNothing \/ ArchivePanics
  \/ WriteCommitted \/ RemoveSegment \/ RemoveCommitted \/ Announce

Boot == BootWal \/ ListFiles \/ EraseGhost \/ EraseGhostManifest \/ Hydrate

Next ==
  \/ \E f \in Frames : Publish(f)
  \/ AskRotate \/ AnswerRotate \/ ExecuteCompaction
  \/ \E w \in watermarks : Evict(w)
  \/ ListenerEnds
  \/ Crash \/ Boot

\* Both tasks are polled by the runtime; the operator restarts a node.
Fairness == WF_vars(AnswerRotate) /\ WF_vars(ExecuteCompaction) /\ WF_vars(Boot)

Spec == Init /\ [][Next]_vars /\ Fairness

-----------------------------------------------------------------------------
(* Types; what is in the hot buffer has a row.                               *)
FileType ==
  /\ wal \in SUBSET Frames
  /\ rotations \in 0..MaxSegments
  /\ DOMAIN segments \in SUBSET (1..rotations)
  /\ segments \in [DOMAIN segments -> SUBSET Frames]
  /\ manifest \in Manifests
  /\ vault \in [Frames -> Nat]

NodeType ==
  /\ phase \in {"down", "booting", "ghost", "listed", "up"}
  /\ toScan \in SUBSET (Segments \cup {Active})
  /\ hot \in SUBSET Frames /\ Decoded(hot) = hot
  /\ workerUp \in BOOLEAN /\ rewinding \in BOOLEAN /\ listening \in BOOLEAN
  /\ watermarks \in SUBSET (1..MaxTx)

DaemonType ==
  /\ pc \in {"off", "idle", "asked", "rotated", "pending", "empty", "emptied",
             "extracted", "embedded", "short", "archived", "committed",
             "removed", "cleared", "dead"}
  /\ target \in Segments \cup {Active}
  /\ batch \in SUBSET Frames /\ Decoded(batch) = batch

HistoryType ==
  /\ row \in [Frames -> 0..MaxTx]
  /\ published \in SUBSET Frames /\ spoiled \in SUBSET published
  /\ faults \in 0..MaxFaults /\ crashes \in 0..MaxCrashes

TypeOK == FileType /\ NodeType /\ DaemonType /\ HistoryType

Files == {Active} \cup DOMAIN segments
Stored == UNION {Content(file) : file \in Files}

\* A frame that decodes is in a file or in LanceDB, whatever fails and whenever
\* the node crashes, until it is overwritten or its batch is short of a vector:
\* no file is removed before its rows are added (compactor.rs 193-251, main.rs
\* 333-360).
RowsConserved ==
  \A f \in published \ spoiled : row[f] # 0 => f \in Stored \/ vault[f] > 0

\* No row is added to LanceDB twice, however often compaction is cut short
\* (main.rs 341, "Prevent Schizophrenia (Duplication)").
ArchivedAtMostOnce == \A f \in Frames : vault[f] <= 1

\* No boot puts a row in the hot buffer that LanceDB already holds: searches
\* merge the two (main.rs 343 and 455-468).
NoDuplicateIngestion == [][\A f \in hot' \ hot : vault[f] = 0]_vars

\* The segments the daemon is through with, or never had.
GivenUp == DOMAIN segments \ {target}

\* A row that is in RAM and in LanceDB is about to be evicted from RAM: the
\* compaction that archived it, or its event, is still on the way (compactor.rs
\* 222-256, main.rs 487-496).
ArchivedRowsLeaveRam ==
  listening =>
    \A f \in hot :
      vault[f] > 0 => \/ pc \in {"archived", "committed", "removed", "cleared"}
                         /\ f \in batch
                      \/ \E w \in watermarks : row[f] <= w

\* Whatever fails, a watermark evicts no row from RAM that the next compaction, or
\* the one under way, has still to archive: what it evicts is in LanceDB, was lost
\* before, or is in a segment that the daemon has given up and does not come back to
\* (compactor.rs 211-218, hot_memory.rs 72; what is hot stood in the active file at
\* boot, so it is in the first segment compacted).
EvictionSparesTheLog ==
  [][listening /\ listening' =>
       \A f \in hot \ hot' :
         vault[f] > 0 \/ f \in spoiled \/ \E s \in GivenUp : f \in segments[s]]_vars

\* "Evists entries ONLY if they have been durably archived" (hot_memory.rs 67).
EvictedRowsAreArchived ==
  [][listening /\ listening' => \A f \in hot \ hot' : vault[f] > 0 \/ f \in spoiled]_vars

\* A rotation the compactor has asked for is answered, and a compaction ends:
\* the daemon is idle again, or dead, or the node is down.
CompactionEnds == (pc \notin {"off", "idle", "dead"}) ~> (pc \in {"off", "idle", "dead"})

\* compactor.rs 194-197 removes a segment that "contained zero valid logs": what
\* has been published is in a file or in LanceDB.
LogsConserved ==
  \A f \in published \ spoiled : f \in Stored \/ vault[f] > 0
=============================================================================
