------------------------------ MODULE Nucleus ------------------------------
(***************************************************************************)
(* The write-ahead log engine of raqim-core/src/nucleus.rs: WalEngine.     *)
(*                                                                         *)
(* Callers append logs to a bounded channel; one worker task drains it     *)
(* into batches, writes each batch as a checksummed frame, syncs, and only *)
(* then indexes it; the compactor asks the same task to rotate the file.   *)
(* Writes and syncs can fail, the worker can panic, the process can crash  *)
(* between any two steps, and start() recovers what the device kept.       *)
(*                                                                         *)
(* The readers of the engine (lexical_scan, get_highest_tx_id,             *)
(* fetch_hot_timeline) change nothing and are not modelled here.           *)
(***************************************************************************)
EXTENDS WalFrames

CONSTANTS
  ChanCap,      \* capacity of the log channel (100_000)
  BatchCap,     \* logs per batch (6_000)
  MaxFaults,    \* bound: I/O operations that fail
  MaxCrashes,   \* bound: crashes
  MaxRotations  \* bound: segments rotated out

ASSUME CapAssumption == ChanCap \in Nat \ {0} /\ BatchCap \in Nat \ {0}
ASSUME BoundAssumption ==
  MaxFaults \in Nat /\ MaxCrashes \in Nat /\ MaxRotations \in Nat

VARIABLES
  chan,          \* the mpsc channel of logs
  worker,        \* where the worker task is
  batch,         \* the worker's batch
  file,          \* the active file as a reader sees it (page cache)
  disk,          \* the active file as of the last successful sync
  cursor,        \* the position of the worker's file descriptor
  held,          \* the file handle holds a write error back
  currentOffset, \* the worker's current_offset
  index,         \* first tx of a frame -> offset of the frame
  rotateAsked,   \* a Rotate command is in the channel, its sender waits
  segments,      \* the files rotated out, oldest first
  fate,          \* what became of each log
  sent,          \* history: the logs the channel accepted, in order
  taint,         \* history: what happened to the active file since it was opened
  faults, crashes

data  == <<file, disk, cursor, held>>
seen  == <<currentOffset, index>>
past  == <<segments, sent, crashes>>
vars  == <<chan, worker, batch, file, disk, cursor, held, currentOffset, index,
           rotateAsked, segments, fate, sent, taint, faults, crashes>>

Set(s) == {s[i] : i \in 1..Len(s)}

WorkerStates == {"opening", "idle", "drained", "written", "synced",
                 "renamed", "reopened", "dead", "down"}
Fates  == {"new", "sent", "published", "archived", "dropped"}
Taints == {"io", "restart"}

\* `fate` with every log of S given the fate x.
Settle(S, x) == [l \in Logs |-> IF l \in S THEN x ELSE fate[l]]

NoIndex == [l \in {} |-> 0]

\* The first log of each frame of f at the given offsets, with its offset.
IndexOf(f, offsets) ==
  [t \in {BatchAt(f, o)[1] : o \in offsets} |->
     CHOOSE o \in offsets : BatchAt(f, o)[1] = t]

Init ==
  /\ chan = <<>> /\ worker = "opening" /\ batch = <<>>
  /\ file = <<>> /\ disk = <<>> /\ cursor = 0 /\ held = FALSE
  /\ currentOffset = 0 /\ index = NoIndex
  /\ rotateAsked = FALSE /\ segments = <<>>
  /\ fate = [l \in Logs |-> "new"] /\ sent = <<>> /\ taint = {}
  /\ faults = 0 /\ crashes = 0

-----------------------------------------------------------------------------
\* The channel takes another log.
HasRoomOffByOne == Len(chan) <= ChanCap
HasRoom == Len(chan) < ChanCap

(* append: the caller waits while the channel is full; when the worker is    *)
(* gone the send fails and the error is thrown away.                         *)
Append_(l) ==
  /\ fate[l] = "new"
  /\ \/ /\ worker # "dead"
        /\ HasRoom
        /\ chan' = Append(chan, l)
        /\ sent' = Append(sent, l)
        /\ fate' = Settle({l}, "sent")
     \/ /\ worker = "dead"
        /\ fate' = Settle({l}, "dropped")
        /\ UNCHANGED <<chan, sent>>
  /\ worker # "down"
  /\ UNCHANGED <<worker, batch, data, seen, rotateAsked, segments, taint,
                 faults, crashes>>

\* recv wakes the worker for a single log.
WorthDrainingFullBatch == Len(chan) >= BatchCap
WorthDraining == chan # <<>>

\* The first log and whatever else is queued, up to BatchCap.
DrainCount == IF Len(chan) < BatchCap THEN Len(chan) ELSE BatchCap
NextBatchReversed == [i \in 1..DrainCount |-> chan[DrainCount + 1 - i]]
NextBatch == [i \in 1..DrainCount |-> chan[i]]

(* Path A: recv, then try_recv until the batch is full or the channel empty. *)
Drain ==
  /\ worker = "idle"
  /\ WorthDraining
  /\ batch' = NextBatch
  /\ chan' = [i \in 1..(Len(chan) - DrainCount) |-> chan[i + DrainCount]]
  /\ worker' = "drained"
  /\ UNCHANGED <<data, seen, rotateAsked, fate, taint, faults, past>>

(* write_batch_to_disk, the three write_all calls.  tokio::fs::File hands    *)
(* each to a blocking thread and reports the error of one to the next write. *)
WriteFrame ==
  /\ worker = "drained"
  /\ ~held
  /\ file' = Overlay(file, cursor, Frame(batch))
  /\ cursor' = cursor + FrameLen(batch)
  /\ worker' = "written"
  /\ UNCHANGED <<chan, batch, disk, held, seen, rotateAsked, fate, taint,
                 faults, past>>

(* ... one of which fails after k cells of the frame: the function returns   *)
(* and the caller clears the batch.                                          *)
WriteFails(k, torn) ==
  LET part == TornFrame(batch, k, torn)
  IN  /\ worker = "drained"
      /\ ~held
      /\ faults < MaxFaults
      /\ file' = Overlay(file, cursor, part)
      /\ cursor' = cursor + Len(part)
      /\ taint' = IF Len(part) = 0 THEN taint ELSE taint \cup {"io"}
      /\ fate' = Settle(Set(batch), "dropped")
      /\ batch' = <<>>
      /\ worker' = "idle"
      /\ faults' = faults + 1
      /\ UNCHANGED <<chan, disk, held, seen, rotateAsked, past>>

(* ... or the payload's fails behind the caller, k cells into the frame: the *)
(* sync does not report it and the batch is published.                       *)
WriteFailsLate(k, torn) ==
  LET part == TornFrame(batch, k, torn)
  IN  /\ worker = "drained"
      /\ ~held
      /\ k >= 2
      /\ faults < MaxFaults
      /\ file' = Overlay(file, cursor, part)
      /\ cursor' = cursor + Len(part)
      /\ held' = TRUE
      /\ taint' = taint \cup {"io"}
      /\ worker' = "written"
      /\ faults' = faults + 1
      /\ UNCHANGED <<chan, batch, disk, seen, rotateAsked, fate, past>>

(* ... and the next batch, the first write of which reports the old error,   *)
(* is given up without a byte of it in the file.                             *)
ReportHeld ==
  /\ worker = "drained"
  /\ held
  /\ held' = FALSE
  /\ fate' = Settle(Set(batch), "dropped")
  /\ batch' = <<>>
  /\ worker' = "idle"
  /\ UNCHANGED <<chan, file, disk, cursor, seen, rotateAsked, taint, faults, past>>

\* What sync_all makes durable.
NoBarrier == disk' = disk
Barrier == disk' = file

(* ... the hardware barrier ...                                              *)
Sync ==
  /\ worker = "written"
  /\ Barrier
  /\ worker' = "synced"
  /\ UNCHANGED <<chan, batch, file, cursor, held, seen, rotateAsked, fate, taint,
                 faults, past>>

(* ... which, when it fails, also returns early: the frame is in the file,   *)
(* the descriptor is behind it and current_offset is not.                    *)
SyncFails ==
  /\ worker = "written"
  /\ faults < MaxFaults
  /\ fate' = Settle(Set(batch), "dropped")
  /\ batch' = <<>>
  /\ worker' = "idle"
  /\ taint' = taint \cup {"io"}
  /\ faults' = faults + 1
  /\ UNCHANGED <<chan, data, seen, rotateAsked, past>>

\* How far a published batch moves current_offset: 4 + 4 + payload.
AdvanceWithoutCrc(b) == 1 + Len(b)
Advance(b) == FrameLen(b)

(* ... and the index, under its write lock, then current_offset.             *)
Publish ==
  /\ worker = "synced"
  /\ index' = [t \in DOMAIN index \cup {batch[1]} |->
                 IF t = batch[1] THEN currentOffset ELSE index[t]]
  /\ currentOffset' = currentOffset + Advance(batch)
  /\ fate' = Settle(Set(batch), "published")
  /\ batch' = <<>>
  /\ worker' = "idle"
  /\ UNCHANGED <<chan, data, rotateAsked, taint, faults, past>>

(* Path B: the 2 ms group-commit tick.                                       *)
FlushTick ==
  /\ worker = "idle"
  /\ disk # file
  /\ disk' = file
  /\ UNCHANGED <<chan, worker, batch, file, cursor, held, seen, rotateAsked,
                 fate, taint, faults, past>>

-----------------------------------------------------------------------------
(* WalCommand::Rotate, sent by the compactor, which waits for the reply.     *)
AskRotate ==
  /\ worker \notin {"dead", "down"}
  /\ ~rotateAsked
  /\ Len(segments) < MaxRotations
  /\ rotateAsked' = TRUE
  /\ UNCHANGED <<chan, worker, batch, data, seen, fate, taint, faults, past>>

\* What the rename leaves under the active name.
CopyAway == file' = file /\ disk' = file
RenameAway == file' = <<>> /\ disk' = <<>>

(* Path C: sync_data and rename.  No file bears the active name now.         *)
RotateRename ==
  /\ worker = "idle"
  /\ rotateAsked
  /\ segments' = Append(segments, file)
  /\ RenameAway
  /\ fate' = Settle({l \in Logs : fate[l] = "published"}, "archived")
  /\ worker' = "renamed"
  /\ UNCHANGED <<chan, batch, cursor, held, seen, rotateAsked, sent, taint,
                 faults, crashes>>

(* ... the rename fails: `continue`, and the reply channel is dropped.       *)
RenameFails ==
  /\ worker = "idle"
  /\ rotateAsked
  /\ faults < MaxFaults
  /\ disk' = file
  /\ rotateAsked' = FALSE
  /\ faults' = faults + 1
  /\ UNCHANGED <<chan, worker, batch, file, cursor, held, seen, fate, taint,
                 past>>

(* ... a fresh file is opened under the active name.                         *)
Reopen ==
  /\ worker = "renamed"
  /\ cursor' = 0 /\ held' = FALSE
  /\ currentOffset' = 0
  /\ taint' = {}
  /\ worker' = "reopened"
  /\ UNCHANGED <<chan, batch, file, disk, index, rotateAsked, fate, faults, past>>

(* ... or cannot be: the unwrap kills the task, and the channel with it.     *)
(* start opens the file first thing in the task, with an expect.             *)
OpenPanics ==
  /\ worker \in {"renamed", "opening"}
  /\ faults < MaxFaults
  /\ fate' = Settle(Set(chan), "dropped")
  /\ chan' = <<>>
  /\ rotateAsked' = FALSE
  /\ worker' = "dead"
  /\ faults' = faults + 1
  /\ UNCHANGED <<batch, data, seen, taint, past>>

(* ... the index is cleared and the compactor told.                          *)
ClearIndex ==
  /\ worker = "reopened"
  /\ index' = NoIndex
  /\ rotateAsked' = FALSE
  /\ worker' = "idle"
  /\ UNCHANGED <<chan, batch, data, currentOffset, fate, taint, faults, past>>

-----------------------------------------------------------------------------
(* A crash: memory is gone and the device holds some image of the file.      *)
Crash ==
  /\ worker # "down"
  /\ crashes < MaxCrashes
  /\ \E image \in CrashImages(file, disk) : file' = image /\ disk' = image
  /\ fate' = Settle(Set(chan) \cup Set(batch), "dropped")
  /\ chan' = <<>> /\ batch' = <<>>
  /\ rotateAsked' = FALSE
  /\ worker' = "down"
  /\ crashes' = crashes + 1
  /\ UNCHANGED <<cursor, held, seen, segments, sent, taint, faults>>

(* start: recover_and_truncate_torn_frames, then the worker is spawned with  *)
(* current_offset at the end of the clean prefix, and logs are accepted.     *)
(* set_len may fail, which is only logged; when it succeeds no later write   *)
(* reaches the device before it does.                                        *)
Restart ==
  /\ worker = "down"
  /\ \E end \in ScanPositions(file) :
       /\ StopsAt(file, end)
       /\ currentOffset' = end
       /\ index' = IndexOf(file, {o \in ScannedFrames(file) : o < end})
       /\ \/ /\ file' = [i \in 1..end |-> file[i]]
             /\ disk' = file'
             /\ UNCHANGED faults
          \/ /\ end < Len(file)
             /\ faults < MaxFaults
             /\ faults' = faults + 1
             /\ UNCHANGED <<file, disk>>
  /\ fate' = Settle(ScannedLogs(file), "published")
  /\ taint' = IF file' = <<>> THEN taint ELSE taint \cup {"restart"}
  /\ worker' = "opening"
  /\ UNCHANGED <<chan, batch, cursor, held, rotateAsked, past>>

(* The worker opens the file: create, read, write, no append and no seek, so *)
(* the descriptor is at 0.                                                   *)
Open ==
  /\ worker = "opening"
  /\ cursor' = 0 /\ held' = FALSE
  /\ worker' = "idle"
  /\ UNCHANGED <<chan, batch, file, disk, seen, rotateAsked, fate, taint,
                 faults, past>>

-----------------------------------------------------------------------------
Rotate == RotateRename \/ RenameFails \/ Reopen \/ OpenPanics \/ ClearIndex

WriteBatchToDisk ==
  \/ WriteFrame
  \/ \E k \in 0..(FrameLen(batch) - 1), torn \in BOOLEAN :
       WriteFails(k, torn) \/ WriteFailsLate(k, torn)
  \/ ReportHeld
  \/ Sync \/ SyncFails \/ Publish

Next ==
  \/ \E l \in Logs : Append_(l)
  \/ Drain \/ WriteBatchToDisk \/ FlushTick
  \/ AskRotate \/ Rotate
  \/ Crash \/ Restart \/ Open

\* The runtime keeps polling the worker task, and select! picks among its ready
\* branches at random, so a log in the channel is drained whatever the ticks do.
Fairness ==
  /\ WF_vars(WriteBatchToDisk)
  /\ WF_vars(Open \/ Reopen \/ OpenPanics \/ ClearIndex)
  /\ SF_vars(Drain)

Spec == Init /\ [][Next]_vars /\ Fairness

-----------------------------------------------------------------------------
(* Types, and the two capacities of the engine.                              *)
QueueType ==
  /\ chan \in Seq(Logs) /\ Len(chan) <= ChanCap
  /\ batch \in Seq(Logs) /\ Len(batch) <= BatchCap
  /\ sent \in Seq(Logs)
  /\ fate \in [Logs -> Fates]

FileType ==
  /\ file \in Seq(Cell) /\ disk \in Seq(Cell) /\ cursor \in Nat
  /\ segments \in Seq(Seq(Cell))

IndexType ==
  /\ currentOffset \in Nat
  /\ DOMAIN index \in SUBSET Logs
  /\ index \in [DOMAIN index -> Nat]

ControlType ==
  /\ worker \in WorkerStates
  /\ rotateAsked \in BOOLEAN /\ held \in BOOLEAN
  /\ taint \in SUBSET Taints
  /\ faults \in 0..MaxFaults /\ crashes \in 0..MaxCrashes

TypeOK == QueueType /\ FileType /\ IndexType /\ ControlType

\* The states in which the index describes the active file.
Settled == worker \notin {"down", "dead", "renamed", "reopened"}

\* The recovery loop run on f visits exactly the offsets of the index, one after
\* the other, and stops no earlier than current_offset.
IndexScans(f) ==
  /\ currentOffset = 0 \/ \E t \in DOMAIN index : index[t] = 0
  /\ \A t \in DOMAIN index :
       /\ ValidAt(f, index[t])
       /\ BatchAt(f, index[t])[1] = t
       /\ \/ NextFrame(f, index[t]) = currentOffset
          \/ \E u \in DOMAIN index : index[u] = NextFrame(f, index[t])

\* Until a write or a sync fails, or the engine restarts over a log that is not
\* empty, the index is what recovery would rebuild, whatever a crash at this
\* moment leaves of the file (nucleus.rs 218-229 against 251-310).
IndexSurvivesCrash ==
  (Settled /\ taint = {}) =>
    \A image \in CrashImages(file, disk) : IndexScans(image)

\* Under the same proviso a crash loses no log the engine has published: the scan
\* of any image of the file finds it (the sync precedes the index, 209-226).
PublishedIsDurable ==
  (worker # "down" /\ taint = {}) =>
    \A image \in CrashImages(file, disk), l \in Logs :
      fate[l] = "published" => l \in ScannedLogs(image)

\* Whatever fails, no log is in two frames that a scan accepts, in the active file
\* or in a segment: nothing is archived or replayed twice (85-110, 118-158).
AtMostOneFrame ==
  LET files  == Append(segments, file)
      frames == UNION {{<<i, o>> : o \in ScannedFrames(files[i])} :
                         i \in 1..Len(files)}
  IN  \A p, q \in frames :
        p # q => LogsAt(files[p[1]], p[2]) \cap LogsAt(files[q[1]], q[2]) = {}

\* Recovery returns logs in the order the channel accepted them, as long as the
\* engine has not restarted over them; I/O errors lose logs, never reorder them.
RecoveryInOrder ==
  "restart" \notin taint =>
    \A p, q \in ScannedFrames(file) :
      \A i \in 1..Len(BatchAt(file, p)), j \in 1..Len(BatchAt(file, q)) :
        (p < q \/ (p = q /\ i < j)) =>
          \E m, n \in 1..Len(sent) :
            /\ m < n
            /\ sent[m] = BatchAt(file, p)[i]
            /\ sent[n] = BatchAt(file, q)[j]

\* Every log that is accepted is published or given up in the end: the worker
\* does not sit on a batch, and rotation does not hold the channel up for ever.
EveryLogSettles ==
  \A l \in Logs :
    fate[l] = "sent" ~> fate[l] \in {"published", "archived", "dropped"}

\* "Bootstraps the enterprise crash-safe WAL" (nucleus.rs 51): a published log
\* whose file saw no I/O error is found by the next recovery, restarts included.
PublishedSurvivesRestart ==
  (worker = "idle" /\ "io" \notin taint) =>
    \A l \in Logs : fate[l] = "published" => l \in ScannedLogs(file)

-----------------------------------------------------------------------------
\* The engine implements the log its callers rely on: its batch and its channel
\* are the queue, the worker's crashes and panics lose it.
Log == INSTANCE WalLog WITH queue <- batch \o chan

\* Whatever fails, batches settle whole and in the order append accepted their
\* logs, only a restart brings back what was given up, and an accepted log is
\* settled (append 335-337, the batch 85-110, write_batch_to_disk 175-230).
ImplementsWalLog == Log!Spec
=============================================================================
