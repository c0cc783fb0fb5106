-------------------------- MODULE CompactionProofs --------------------------
(***************************************************************************)
(* Theorems about Compaction.tla and Search.tla, for every set of frames   *)
(* and every number of segments, failures and crashes: types, that no row  *)
(* is lost, that none is archived twice, that no boot brings an archived   *)
(* row back to RAM, that an archived row in RAM is about to be evicted,    *)
(* that none still to be archived is, and that a search beside all this    *)
(* misses no row that was there all the while.                             *)
(***************************************************************************)
EXTENDS Search, TLAPS, WellFoundedInduction

-----------------------------------------------------------------------------
(* The inductive invariant.                                                  *)

\* The places of the daemon in which its segment is on disk, those in which its rows
\* are still to be added, and those in which it holds them.
Working  == {"rotated", "pending", "empty", "extracted", "embedded", "short",
             "archived", "committed"}
Unarchived == {"rotated", "pending", "extracted", "embedded"}
Holding  == {"extracted", "embedded", "short", "archived", "committed"}

\* The row of f is in LanceDB, or was lost in a way the properties except.
Kept(f) == vault[f] > 0 \/ f \in spoiled

\* The daemon runs when the node is up, and knows what is in its segment.
DaemonInv ==
  /\ pc = "off" <=> phase # "up"
  /\ pc = "asked" => rotations < MaxSegments
  /\ pc \in Working => target \in DOMAIN segments
  /\ pc \in Holding => batch = Decoded(segments[target])
  /\ pc = "empty" => Decoded(segments[target]) = {}
  /\ pc \in {"archived", "committed"} => \A f \in batch : Kept(f)
  /\ pc \in Unarchived => \A f \in segments[target] : vault[f] = 0

\* A boot scans the active file and no other: what it compares the manifest's state
\* with is never written.
BootInv ==
  /\ toScan \subseteq {Active}
  /\ phase # "listed" => toScan = {}

\* A Committed manifest names a segment that may be erased; a segment erased once
\* is never named again.
ManifestInv ==
  /\ manifest.target <= rotations
  /\ manifest.state = "Committed" /\ manifest.target \in DOMAIN segments =>
       \A f \in Decoded(segments[manifest.target]) : Kept(f)

\* What is in a file was published.
PublishedInv ==
  /\ wal \subseteq published
  /\ \A s \in DOMAIN segments : segments[s] \subseteq published

\* A frame is in one file, and in LanceDB only after its segment was archived.
PlaceInv ==
  /\ \A s \in DOMAIN segments : segments[s] \cap wal = {}
  /\ \A s, t \in DOMAIN segments : s # t => segments[s] \cap segments[t] = {}
  /\ \A f \in Frames : f \notin published => vault[f] = 0
  /\ \A f \in wal : vault[f] = 0

\* RowsConserved, without the names of the files.
InAFile(f) == f \in wal \/ \E s \in DOMAIN segments : f \in segments[s]
RowsInv == \A f \in published \ spoiled : row[f] # 0 => InAFile(f) \/ vault[f] > 0

StoreInv == PublishedInv /\ PlaceInv /\ RowsInv /\ ArchivedAtMostOnce

IInv == TypeOK /\ DaemonInv /\ BootInv /\ ManifestInv /\ StoreInv

\* What StoreInv is about.
store == <<wal, segments, rotations, vault, row, published, spoiled>>
-----------------------------------------------------------------------------
(* What decodes are frames, each with a row.                                 *)
LEMMA DecodedFacts ==
  ASSUME HistoryType, NEW S \in SUBSET Frames
  PROVE  /\ Decoded(S) \in SUBSET S
         /\ Decoded(Decoded(S)) = Decoded(S)
         /\ \A f \in Decoded(S) : row[f] \in 1..MaxTx
  BY ConstantAssumption DEF HistoryType, Decoded

(* The content of a file is a set of frames.                                 *)
LEMMA ContentType ==
  ASSUME FileType, NEW file \in {Active} \cup DOMAIN segments
  PROVE  Content(file) \in SUBSET Frames
  BY DEF FileType, Content, Active

(* The invariant holds at the start.                                         *)
LEMMA InitInvariant == Init => IInv
  <1> SUFFICES ASSUME Init PROVE IInv
    OBVIOUS
  <1>1. HistoryType
    BY ConstantAssumption DEF Init, HistoryType
  <1>2. FileType
    BY ConstantAssumption DEF Init, FileType, Manifests
  <1>3. NodeType
    BY DEF Init, NodeType, Decoded
  <1>4. DaemonType
    BY DEF Init, DaemonType, Decoded
  <1>5. DaemonInv
    BY DEF Init, DaemonInv, Working, Holding, Unarchived
  <1>6. StoreInv
    BY DEF Init, StoreInv, PublishedInv, PlaceInv, RowsInv, ArchivedAtMostOnce
  <1>7. ManifestInv
    BY DEF Init, ManifestInv, None
  <1>8. BootInv
    BY DEF Init, BootInv
  <1> QED
    BY <1>1, <1>2, <1>3, <1>4, <1>5, <1>6, <1>7, <1>8 DEF IInv, TypeOK

(* Every step keeps the history, and never changes what frames decode to.    *)
LEMMA HistoryStep ==
  ASSUME IInv, [Next]_vars
  PROVE  HistoryType' /\ UNCHANGED row /\ spoiled \subseteq spoiled'
  <1> DEFINE Goal == HistoryType' /\ UNCHANGED row /\ spoiled \subseteq spoiled'
  <1> SUFFICES Goal
    OBVIOUS
  <1> USE ConstantAssumption DEF history, bounds
  <1>0. HistoryType
    BY DEF IInv, TypeOK
  <1>u. UNCHANGED history /\ (UNCHANGED bounds \/ Fault) => Goal
    BY <1>0 DEF HistoryType, Fault
  <1>1. ASSUME NEW f \in Frames, Publish(f) PROVE Goal
    BY <1>0, <1>1 DEF Publish, HistoryType, IInv, StoreInv, PublishedInv
  <1>2. CASE AskRotate
    BY <1>2, <1>u DEF AskRotate
  <1>3. CASE AnswerRotate
    BY <1>3, <1>u DEF AnswerRotate, Rotate, RotateFails, RotateKillsWorker
  <1>4. CASE ArchiveNothing
    <2>1. batch \subseteq published
      BY <1>4, DecodedFacts DEF ArchiveNothing, IInv, StoreInv, TypeOK, FileType, DaemonInv,
         PublishedInv, Working, Holding
    <2> QED
      BY <1>0, <1>4, <2>1 DEF ArchiveNothing, HistoryType
  <1>5. CASE \/ WritePending \/ Extract \/ RemoveEmptySegment \/ RemoveEmptyManifest
             \/ GiveUp \/ Embed \/ Archive \/ ArchivePanics
    BY <1>5, <1>u DEF WritePending, Extract, RemoveEmptySegment, RemoveEmptyManifest,
       GiveUp, Embed, Archive, ArchivePanics, WriteManifest, RemoveFile, RemoveManifest, Fault
  <1>6. CASE WriteCommitted \/ RemoveSegment \/ RemoveCommitted \/ Announce
    BY <1>6, <1>u DEF WriteCommitted, RemoveSegment, RemoveCommitted, Announce,
       WriteManifest, RemoveFile, RemoveManifest, Fault
  <1>7. ASSUME NEW w \in watermarks, Evict(w) PROVE Goal
    BY <1>7, <1>u DEF Evict
  <1>8. CASE ListenerEnds \/ Boot
    BY <1>8, <1>u DEF ListenerEnds, Boot, BootWal, ListFiles, EraseGhost,
       EraseGhostManifest, Hydrate, RemoveFile, RemoveManifest, Fault
  <1>9. CASE Crash
    BY <1>0, <1>9 DEF Crash, HistoryType
  <1>10. CASE UNCHANGED vars
    BY <1>10, <1>u DEF vars
  <1> QED
    BY <1>1, <1>2, <1>3, <1>4, <1>5, <1>6, <1>7, <1>8, <1>9, <1>10
       DEF Next, ExecuteCompaction

(* What a step does to the files and to LanceDB.                             *)

LEMMA QuietStep ==
  ASSUME StoreInv, UNCHANGED store
  PROVE  StoreInv'
  BY DEF StoreInv, store, PublishedInv, PlaceInv, RowsInv, InAFile, ArchivedAtMostOnce

LEMMA PublishStep ==
  ASSUME IInv, NEW f \in Frames, Publish(f)
  PROVE  StoreInv'
  <1> USE DEF Publish, persistent, ram, compactor, bounds
  <1>t. FileType /\ HistoryType /\ StoreInv
    BY DEF IInv, TypeOK
  <1>1. PublishedInv'
    BY <1>t DEF FileType, StoreInv, PublishedInv
  <1>2. PlaceInv'
    BY <1>t DEF FileType, StoreInv, PublishedInv, PlaceInv
  <1>3. RowsInv'
    BY <1>t DEF FileType, StoreInv, RowsInv, InAFile
  <1>4. ArchivedAtMostOnce'
    BY <1>t DEF StoreInv, ArchivedAtMostOnce
  <1> QED
    BY <1>1, <1>2, <1>3, <1>4 DEF StoreInv

(* The segment renamed away has a number that no segment had.                *)
LEMMA RenameFacts ==
  ASSUME FileType, RenamedAway
  PROVE  /\ rotations' \in Nat /\ rotations' = rotations + 1
         /\ rotations' \notin DOMAIN segments
         /\ DOMAIN segments' = DOMAIN segments \cup {rotations'}
         /\ segments'[rotations'] = wal
         /\ \A s \in DOMAIN segments : segments'[s] = segments[s]
         /\ wal' = {} /\ UNCHANGED <<manifest, vault>>
  <1>1. rotations' = rotations + 1 /\ rotations \in Nat
    BY ConstantAssumption DEF FileType, RenamedAway
  <1>2. rotations' \notin DOMAIN segments
    BY <1>1 DEF FileType
  <1> QED
    BY <1>1, <1>2 DEF RenamedAway

LEMMA RenameStep ==
  ASSUME IInv, RenamedAway, UNCHANGED history
  PROVE  StoreInv'
  <1>t. FileType /\ StoreInv
    BY DEF IInv, TypeOK
  <1>r. /\ rotations' \notin DOMAIN segments
        /\ DOMAIN segments' = DOMAIN segments \cup {rotations'}
        /\ segments'[rotations'] = wal
        /\ \A s \in DOMAIN segments : segments'[s] = segments[s]
        /\ wal' = {} /\ UNCHANGED <<vault, row, published, spoiled>>
    BY <1>t, RenameFacts DEF history
  <1>1. PublishedInv'
    BY <1>t, <1>r DEF StoreInv, PublishedInv
  <1>2. PlaceInv'
    BY <1>t, <1>r DEF StoreInv, PlaceInv
  <1>3. RowsInv'
    BY <1>t, <1>r DEF StoreInv, RowsInv, InAFile
  <1>4. ArchivedAtMostOnce'
    BY <1>t, <1>r DEF StoreInv, ArchivedAtMostOnce
  <1> QED
    BY <1>1, <1>2, <1>3, <1>4 DEF StoreInv

(* A segment is removed when its rows are kept.                              *)
LEMMA RemoveStep ==
  ASSUME IInv, NEW s, RemoveFile(s), UNCHANGED history,
         UNCHANGED <<wal, rotations, vault>>,
         s \in DOMAIN segments => \A f \in Decoded(segments[s]) : Kept(f)
  PROVE  StoreInv'
  <1>t. FileType /\ HistoryType /\ StoreInv
    BY DEF IInv, TypeOK
  <1>1. CASE UNCHANGED segments
    BY <1>t, <1>1, QuietStep DEF store, history
  <1>2. CASE segments' = Without(s)
    <2>r. /\ DOMAIN segments' = DOMAIN segments \ {s}
          /\ \A t \in DOMAIN segments' : segments'[t] = segments[t]
          /\ UNCHANGED <<wal, vault, row, published, spoiled>>
      BY <1>2 DEF Without, history
    <2>1. PublishedInv'
      BY <1>t, <2>r DEF StoreInv, PublishedInv
    <2>2. PlaceInv'
      BY <1>t, <2>r DEF StoreInv, PlaceInv
    <2>3. RowsInv'
      <3> SUFFICES ASSUME NEW f \in published \ spoiled, row[f] # 0, vault[f] = 0
                   PROVE  InAFile(f)'
        BY <1>t, <2>r DEF RowsInv, FileType, HistoryType
      <3>1. InAFile(f)
        BY <1>t DEF StoreInv, RowsInv
      <3>2. s \in DOMAIN segments => f \notin segments[s]
        BY DEF Decoded, Kept
      <3> QED
        BY <3>1, <3>2, <2>r DEF InAFile
    <2>4. ArchivedAtMostOnce'
      BY <1>t, <2>r DEF StoreInv, ArchivedAtMostOnce
    <2> QED
      BY <2>1, <2>2, <2>3, <2>4 DEF StoreInv
  <1> QED
    BY <1>1, <1>2 DEF RemoveFile

(* The rows added are those of a segment none of which was added before.     *)
LEMMA ArchiveStep ==
  ASSUME IInv, Archive
  PROVE  StoreInv'
  <1>t. FileType /\ HistoryType /\ StoreInv /\ DaemonInv
    BY DEF IInv, TypeOK
  <1>r. /\ target \in DOMAIN segments
        /\ batch \subseteq segments[target]
        /\ \A f \in segments[target] : vault[f] = 0
    BY <1>t DEF Archive, DaemonInv, Working, Holding, Unarchived, Decoded
  <1>v. /\ vault' = [f \in Frames |-> IF f \in batch THEN vault[f] + 1 ELSE vault[f]]
        /\ UNCHANGED <<wal, segments, row, published, spoiled>>
    BY DEF Archive, history
  <1>1. PublishedInv'
    BY <1>t, <1>v DEF StoreInv, PublishedInv
  <1>2. PlaceInv'
    BY <1>t, <1>r, <1>v DEF StoreInv, PlaceInv, PublishedInv, FileType
  <1>3. RowsInv'
    BY <1>t, <1>v DEF StoreInv, RowsInv, InAFile, FileType, HistoryType
  <1>4. ArchivedAtMostOnce'
    BY <1>t, <1>r, <1>v DEF StoreInv, ArchivedAtMostOnce, FileType
  <1> QED
    BY <1>1, <1>2, <1>3, <1>4 DEF StoreInv

LEMMA ArchiveNothingStep ==
  ASSUME IInv, ArchiveNothing
  PROVE  StoreInv'
  BY DEF IInv, StoreInv, ArchiveNothing, PublishedInv, PlaceInv, RowsInv, InAFile,
     ArchivedAtMostOnce, persistent

(* Every step: the files that are removed are those whose rows are kept.     *)
LEMMA StoreStep ==
  ASSUME IInv, [Next]_vars
  PROVE  StoreInv'
  <1>t. TypeOK /\ StoreInv /\ DaemonInv /\ ManifestInv
    BY DEF IInv
  <1> USE DEF persistent, ram, compactor, history
  <1>1. ASSUME NEW f \in Frames, Publish(f) PROVE StoreInv'
    BY <1>1, PublishStep
  <1>2. CASE AskRotate
    BY <1>t, <1>2, QuietStep DEF AskRotate, store
  <1>3. CASE Rotate \/ RotateKillsWorker
    BY <1>3, RenameStep DEF Rotate, RotateKillsWorker
  <1>4. CASE RotateFails
    BY <1>t, <1>4, QuietStep DEF RotateFails, store
  <1>5. CASE WritePending \/ Extract \/ RemoveEmptyManifest \/ GiveUp \/ Embed \/ ArchivePanics
    BY <1>t, <1>5, QuietStep DEF store, WritePending, Extract, RemoveEmptyManifest, GiveUp,
       Embed, ArchivePanics
  <1>6. CASE RemoveEmptySegment
    <2>1. Decoded(segments[target]) = {}
      BY <1>t, <1>6 DEF DaemonInv, RemoveEmptySegment
    <2>2. RemoveFile(target) /\ UNCHANGED <<wal, rotations, vault>> /\ UNCHANGED history
      BY <1>6 DEF RemoveEmptySegment
    <2> QED
      BY <2>1, <2>2, RemoveStep
  <1>7. CASE Archive
    BY <1>7, ArchiveStep
  <1>8. CASE ArchiveNothing
    BY <1>8, ArchiveNothingStep
  <1>9. CASE WriteCommitted \/ RemoveCommitted \/ Announce
    BY <1>t, <1>9, QuietStep DEF store, WriteCommitted, RemoveCommitted, Announce
  <1>10. CASE RemoveSegment
    <2>1. \A f \in Decoded(segments[target]) : Kept(f)
      BY <1>t, <1>10 DEF DaemonInv, Holding, RemoveSegment
    <2>2. RemoveFile(target) /\ UNCHANGED <<wal, rotations, vault>> /\ UNCHANGED history
      BY <1>10 DEF RemoveSegment
    <2> QED
      BY <2>1, <2>2, RemoveStep
  <1>11. ASSUME NEW w \in watermarks, Evict(w) PROVE StoreInv'
    BY <1>t, <1>11, QuietStep DEF Evict, store
  <1>12. CASE ListenerEnds \/ Crash
    BY <1>t, <1>12, QuietStep DEF ListenerEnds, Crash, store
  <1>13. CASE BootWal \/ ListFiles \/ EraseGhostManifest \/ Hydrate
    BY <1>t, <1>13, QuietStep DEF BootWal, ListFiles, EraseGhostManifest, Hydrate, store
  <1>14. CASE EraseGhost
    <2>1. manifest.target \in DOMAIN segments =>
            \A f \in Decoded(segments[manifest.target]) : Kept(f)
      BY <1>t, <1>14 DEF ManifestInv, EraseGhost, Erases
    <2>2. /\ RemoveFile(manifest.target)
          /\ UNCHANGED <<wal, rotations, vault>> /\ UNCHANGED history
      BY <1>14 DEF EraseGhost
    <2> QED
      BY <2>1, <2>2, RemoveStep
  <1>15. CASE UNCHANGED vars
    BY <1>t, <1>15, QuietStep DEF vars, store
  <1> QED
    BY <1>1, <1>2, <1>3, <1>4, <1>5, <1>6, <1>7, <1>8, <1>9, <1>10, <1>11, <1>12, <1>13,
       <1>14, <1>15 DEF Next, AnswerRotate, ExecuteCompaction, Boot

(* What is kept stays kept: no row leaves LanceDB.                           *)
LEMMA KeptStep ==
  ASSUME IInv, [Next]_vars
  PROVE  /\ vault' = vault \/ Archive
         /\ \A f \in Frames : Kept(f) => Kept(f)'
  <1>1. vault' = vault \/ Archive
    BY DEF Next, vars, persistent, Publish, AskRotate, AnswerRotate, Rotate, RotateFails,
       RotateKillsWorker, RenamedAway, ExecuteCompaction, WritePending, Extract,
       RemoveEmptySegment, RemoveEmptyManifest, GiveUp, Embed, ArchiveNothing, ArchivePanics,
       WriteCommitted, RemoveSegment, RemoveCommitted, Announce, Evict, ListenerEnds, Crash,
       Boot, BootWal, ListFiles, EraseGhost, EraseGhostManifest, Hydrate
  <1>2. spoiled \subseteq spoiled'
    BY HistoryStep
  <1>3. CASE vault' = vault
    BY <1>2, <1>3 DEF Kept
  <1>4. CASE Archive
    BY <1>2, <1>4 DEF Kept, Archive, IInv, TypeOK, FileType
  <1> QED
    BY <1>1, <1>3, <1>4

(* What the daemon knows of its segment stays true at every place it goes.   *)
LEMMA DaemonStep ==
  ASSUME IInv, [Next]_vars
  PROVE  DaemonInv'
  <1>t. FileType /\ HistoryType /\ DaemonType /\ DaemonInv /\ StoreInv
    BY DEF IInv, TypeOK
  <1>k. /\ UNCHANGED row
        /\ \A f \in Frames : Kept(f) => Kept(f)'
    BY HistoryStep, KeptStep
  <1>b. \A f \in batch : f \in Frames
    BY <1>t DEF DaemonType
  <1> USE <1>t, <1>k, <1>b DEF DaemonInv, Working, Holding, Unarchived, Decoded
  <1>0. ASSUME UNCHANGED <<phase, pc, target, batch, rotations, segments, vault>>
        PROVE  DaemonInv'
    BY <1>0
  <1>1. ASSUME NEW f \in Frames, Publish(f) PROVE DaemonInv'
    BY <1>0, <1>1 DEF Publish, ram, compactor
  <1>2. CASE AskRotate
    BY <1>2 DEF AskRotate, ram, persistent
  <1>3. CASE Rotate
    <2>1. /\ rotations' \in DOMAIN segments' /\ segments'[rotations'] = wal
          /\ vault' = vault /\ phase' = phase
      BY <1>3, RenameFacts DEF Rotate, RenamedAway
    <2>2. pc' = "rotated" /\ target' = rotations' /\ pc = "asked"
      BY <1>3 DEF Rotate
    <2> QED
      BY <2>1, <2>2 DEF StoreInv, PlaceInv
  <1>4. CASE RotateFails \/ RotateKillsWorker
    BY <1>4 DEF RotateFails, RotateKillsWorker, Refused, RenamedAway, ram
  <1>5. CASE WritePending
    BY <1>5 DEF WritePending, ram
  <1>6. CASE Extract
    BY <1>6 DEF Extract, ram, persistent
  <1>7. CASE RemoveEmptySegment \/ RemoveEmptyManifest
    BY <1>7 DEF RemoveEmptySegment, RemoveEmptyManifest, ram
  <1>8. CASE GiveUp \/ Embed \/ ArchivePanics
    BY <1>8 DEF GiveUp, Embed, ArchivePanics, ram, persistent
  <1>9. CASE Archive
    <2>1. \A f \in batch : vault'[f] > 0
      BY <1>9 DEF Archive, FileType
    <2> QED
      BY <1>9, <2>1 DEF Archive, ram, Kept
  <1>10. CASE ArchiveNothing
    BY <1>10 DEF ArchiveNothing, ram, persistent, Kept
  <1>11. CASE WriteCommitted
    BY <1>11 DEF WriteCommitted, ram
  <1>12. CASE RemoveSegment \/ RemoveCommitted \/ Announce
    BY <1>12 DEF RemoveSegment, RemoveCommitted, Announce, ram, persistent
  <1>13. ASSUME NEW w \in watermarks, Evict(w) PROVE DaemonInv'
    BY <1>0, <1>13 DEF Evict, compactor, persistent
  <1>14. CASE ListenerEnds
    BY <1>0, <1>14 DEF ListenerEnds, compactor, persistent
  <1>15. CASE Crash
    BY <1>15 DEF Crash
  <1>16. CASE BootWal \/ ListFiles \/ EraseGhost \/ EraseGhostManifest
    BY <1>16 DEF BootWal, ListFiles, EraseGhost, EraseGhostManifest, compactor
  <1>17. CASE Hydrate
    BY <1>17 DEF Hydrate, StartsIdle
  <1>18. CASE UNCHANGED vars
    BY <1>0, <1>18 DEF vars, ram, compactor, persistent
  <1> QED
    BY <1>1, <1>2, <1>3, <1>4, <1>5, <1>6, <1>7, <1>8, <1>9, <1>10, <1>11, <1>12, <1>13,
       <1>14, <1>15, <1>16, <1>17, <1>18 DEF Next, AnswerRotate, ExecuteCompaction, Boot

(* The boot lists nothing but the active file.                               *)
LEMMA BootStep ==
  ASSUME IInv, [Next]_vars
  PROVE  BootInv'
  <1>t. FileType /\ BootInv /\ DaemonInv
    BY DEF IInv, TypeOK
  <1> USE <1>t DEF BootInv
  <1>0. ASSUME UNCHANGED <<toScan, phase, segments>> PROVE BootInv'
    BY <1>0
  <1>1. ASSUME NEW f \in Frames, Publish(f) PROVE BootInv'
    BY <1>1, <1>0 DEF Publish, ram
  <1>2. CASE AskRotate \/ RotateFails
    BY <1>2, <1>0 DEF AskRotate, RotateFails, ram, persistent
  <1>3. CASE Rotate \/ RotateKillsWorker
    BY <1>3, RenameFacts DEF Rotate, RotateKillsWorker, RenamedAway
  <1>4. CASE \/ WritePending \/ Extract \/ RemoveEmptyManifest
             \/ GiveUp \/ Embed \/ Archive \/ ArchiveNothing \/ ArchivePanics
             \/ WriteCommitted \/ RemoveCommitted \/ Announce
    BY <1>4, <1>0 DEF WritePending, Extract, RemoveEmptyManifest, GiveUp, Embed, Archive,
       ArchiveNothing, ArchivePanics, WriteCommitted, RemoveCommitted, Announce, ram, persistent
  <1>5. CASE RemoveEmptySegment \/ RemoveSegment
    <2>1. toScan = {} /\ UNCHANGED <<toScan, phase>>
      BY <1>5 DEF RemoveEmptySegment, RemoveSegment, DaemonInv, ram
    <2> QED
      BY <2>1
  <1>6. ASSUME NEW w \in watermarks, Evict(w) PROVE BootInv'
    BY <1>6, <1>0 DEF Evict, persistent
  <1>7. CASE ListenerEnds \/ BootWal
    BY <1>7 DEF ListenerEnds, BootWal, persistent
  <1>8. CASE ListFiles
    <2>1. ~Queues(manifest)
      BY DEF Queues, FileType, Manifests, None
    <2> QED
      BY <1>8, <2>1 DEF ListFiles
  <1>9. CASE EraseGhost \/ EraseGhostManifest
    BY <1>9 DEF EraseGhost, EraseGhostManifest
  <1>10. CASE Crash \/ Hydrate
    BY <1>10 DEF Crash, Hydrate
  <1>11. CASE UNCHANGED vars
    BY <1>11, <1>0 DEF vars, ram, persistent
  <1> QED
    BY <1>1, <1>2, <1>3, <1>4, <1>5, <1>6, <1>7, <1>8, <1>9, <1>10, <1>11
       DEF Next, AnswerRotate, ExecuteCompaction, Boot

(* No step but WriteCommitted lets the manifest name a segment as committed. *)
LEMMA ManifestStep ==
  ASSUME IInv, [Next]_vars
  PROVE  ManifestInv'
  <1>t. FileType /\ DaemonInv /\ ManifestInv
    BY DEF IInv, TypeOK
  <1>k. /\ UNCHANGED row
        /\ \A f \in Frames : Kept(f) => Kept(f)'
    BY HistoryStep, KeptStep
  <1>s. /\ \A s \in DOMAIN segments : s <= rotations /\ segments[s] \subseteq Frames
        /\ rotations \in Nat
    BY <1>t, ConstantAssumption DEF FileType
  <1> USE <1>t, <1>k, <1>s DEF ManifestInv, Decoded
  <1>0. ASSUME \/ UNCHANGED manifest
               \/ manifest' = None
               \/ manifest' = [target |-> target, state |-> "Pending"] /\ target \in DOMAIN segments,
               UNCHANGED rotations,
               \A s \in DOMAIN segments' : s \in DOMAIN segments /\ segments'[s] = segments[s]
        PROVE  ManifestInv'
    BY <1>0 DEF None
  <1>1. ASSUME NEW f \in Frames, Publish(f) PROVE ManifestInv'
    BY <1>1, <1>0 DEF Publish
  <1>2. CASE AskRotate \/ RotateFails
    BY <1>2, <1>0 DEF AskRotate, RotateFails, persistent
  <1>3. CASE Rotate \/ RotateKillsWorker
    <2>1. RenamedAway
      BY <1>3 DEF Rotate, RotateKillsWorker
    <2>2. manifest.target \in Nat
      BY ConstantAssumption DEF FileType, Manifests, None, Segments
    <2>3. manifest.target # rotations' /\ manifest.target <= rotations' /\ manifest' = manifest
      BY <2>1, <2>2, RenameFacts
    <2> QED
      BY <2>1, <2>3, RenameFacts
  <1>4. CASE WritePending
    <2>1. target \in DOMAIN segments
      BY <1>4 DEF WritePending, DaemonInv, Working
    <2> QED
      BY <1>4, <1>0, <2>1 DEF WritePending, WriteManifest
  <1>5. CASE Extract \/ GiveUp \/ Embed \/ Archive \/ ArchiveNothing \/ ArchivePanics \/ Announce
    BY <1>5, <1>0 DEF Extract, GiveUp, Embed, Archive, ArchiveNothing, ArchivePanics, Announce,
       persistent
  <1>6. CASE RemoveEmptySegment \/ RemoveSegment \/ EraseGhost
    BY <1>6, <1>0 DEF RemoveEmptySegment, RemoveSegment, EraseGhost, RemoveFile, Without
  <1>7. CASE RemoveEmptyManifest \/ RemoveCommitted \/ EraseGhostManifest
    BY <1>7, <1>0 DEF RemoveEmptyManifest, RemoveCommitted, EraseGhostManifest, RemoveManifest
  <1>8. CASE WriteCommitted
    <2>1. /\ target \in DOMAIN segments
          /\ \A f \in Decoded(segments[target]) : Kept(f)
      BY <1>8 DEF WriteCommitted, DaemonInv, Working, Holding
    <2>2. UNCHANGED <<segments, rotations>>
      BY <1>8 DEF WriteCommitted
    <2>3. CASE manifest' = [target |-> target, state |-> "Committed"]
      BY <2>1, <2>2, <2>3
    <2>4. CASE UNCHANGED manifest
      BY <1>0, <2>2, <2>4
    <2> QED
      BY <1>8, <2>3, <2>4 DEF WriteCommitted, WriteManifest
  <1>9. ASSUME NEW w \in watermarks, Evict(w) PROVE ManifestInv'
    BY <1>9, <1>0 DEF Evict, persistent
  <1>10. CASE ListenerEnds \/ Crash \/ BootWal \/ ListFiles \/ Hydrate
    BY <1>10, <1>0 DEF ListenerEnds, Crash, BootWal, ListFiles, Hydrate, persistent
  <1>11. CASE UNCHANGED vars
    BY <1>11, <1>0 DEF vars, persistent
  <1> QED
    BY <1>1, <1>2, <1>3, <1>4, <1>5, <1>6, <1>7, <1>8, <1>9, <1>10, <1>11
       DEF Next, AnswerRotate, ExecuteCompaction, Boot

-----------------------------------------------------------------------------
(* Types.                                                                    *)

LEMMA FileTypeStep ==
  ASSUME IInv, [Next]_vars
  PROVE  FileType'
  <1>t. FileType /\ DaemonType /\ DaemonInv
    BY DEF IInv, TypeOK
  <1>m. target \in DOMAIN segments => target \in Segments
    BY <1>t, ConstantAssumption DEF FileType, Segments
  <1> USE <1>t, ConstantAssumption DEF FileType
  <1>0. ASSUME UNCHANGED persistent PROVE FileType'
    BY <1>0 DEF persistent
  <1>1. ASSUME NEW f \in Frames, Publish(f) PROVE FileType'
    BY <1>1 DEF Publish
  <1>2. CASE AskRotate \/ RotateFails
    BY <1>2, <1>0 DEF AskRotate, RotateFails
  <1>3. CASE Rotate \/ RotateKillsWorker
    <2>1. RenamedAway
      BY <1>3 DEF Rotate, RotateKillsWorker
    <2>2. rotations < MaxSegments
      BY <1>3 DEF Rotate, RotateKillsWorker, IInv, DaemonInv
    <2> QED
      BY <2>1, <2>2 DEF RenamedAway
  <1>4. CASE WritePending \/ WriteCommitted
    <2>1. target \in Segments
      BY <1>4, <1>m DEF WritePending, WriteCommitted, DaemonInv, Working
    <2>2. manifest' \in Manifests
      BY <1>4, <2>1 DEF WritePending, WriteCommitted, WriteManifest, Manifests
    <2> QED
      BY <1>4, <2>2 DEF WritePending, WriteCommitted
  <1>5. CASE \/ Extract \/ GiveUp \/ Embed \/ ArchiveNothing \/ ArchivePanics \/ Announce
    BY <1>5, <1>0 DEF Extract, GiveUp, Embed, ArchiveNothing, ArchivePanics, Announce, persistent
  <1>6. CASE Archive
    BY <1>6 DEF Archive
  <1>7. CASE RemoveEmptySegment \/ RemoveSegment \/ EraseGhost
    BY <1>7 DEF RemoveEmptySegment, RemoveSegment, EraseGhost, RemoveFile, Without
  <1>8. CASE RemoveEmptyManifest \/ RemoveCommitted \/ EraseGhostManifest
    BY <1>8 DEF RemoveEmptyManifest, RemoveCommitted, EraseGhostManifest, RemoveManifest, Manifests
  <1>9. ASSUME NEW w \in watermarks, Evict(w) PROVE FileType'
    BY <1>9, <1>0 DEF Evict
  <1>10. CASE ListenerEnds \/ Crash \/ BootWal \/ ListFiles \/ Hydrate
    BY <1>10, <1>0 DEF ListenerEnds, Crash, BootWal, ListFiles, Hydrate
  <1>11. CASE UNCHANGED vars
    BY <1>11, <1>0 DEF vars
  <1> QED
    BY <1>1, <1>2, <1>3, <1>4, <1>5, <1>6, <1>7, <1>8, <1>9, <1>10, <1>11
       DEF Next, AnswerRotate, ExecuteCompaction, Boot

LEMMA NodeTypeStep ==
  ASSUME IInv, [Next]_vars
  PROVE  NodeType'
  <1>t. FileType /\ NodeType /\ DaemonType /\ HistoryType
    BY DEF IInv, TypeOK
  <1>k. UNCHANGED row
    BY HistoryStep
  <1> USE <1>t, <1>k, ConstantAssumption DEF NodeType, Decoded
  <1>0. ASSUME UNCHANGED ram PROVE NodeType'
    BY <1>0 DEF ram
  <1>1. ASSUME NEW f \in Frames, Publish(f) PROVE NodeType'
    BY <1>1, <1>0 DEF Publish
  <1>2. CASE AskRotate \/ RotateFails
    BY <1>2, <1>0 DEF AskRotate, RotateFails
  <1>3. CASE Rotate \/ RotateKillsWorker
    BY <1>3 DEF Rotate, RotateKillsWorker, RenamedAway
  <1>4. CASE \/ WritePending \/ Extract \/ RemoveEmptySegment \/ RemoveEmptyManifest
             \/ GiveUp \/ Embed \/ Archive \/ ArchiveNothing \/ ArchivePanics
             \/ WriteCommitted \/ RemoveSegment \/ RemoveCommitted
    BY <1>4, <1>0 DEF WritePending, Extract, RemoveEmptySegment, RemoveEmptyManifest, GiveUp,
       Embed, Archive, ArchiveNothing, ArchivePanics, WriteCommitted, RemoveSegment,
       RemoveCommitted
  <1>5. CASE Announce
    <2>1. \A f \in batch : row[f] \in 1..MaxTx
      BY DEF DaemonType, HistoryType
    <2> QED
      BY <1>5, <2>1 DEF Announce
  <1>6. ASSUME NEW w \in watermarks, Evict(w) PROVE NodeType'
    BY <1>6 DEF Evict, Survives
  <1>7. CASE ListenerEnds \/ Crash \/ BootWal
    BY <1>7 DEF ListenerEnds, Crash, BootWal
  <1>8. CASE ListFiles
    <2>1. manifest.target \in DOMAIN segments \cup {Active} => manifest.target \in Segments \cup {Active}
      BY DEF FileType, Segments
    <2> QED
      BY <1>8, <2>1 DEF ListFiles, OnDisk
  <1>9. CASE EraseGhost \/ EraseGhostManifest
    BY <1>9 DEF EraseGhost, EraseGhostManifest
  <1>10. CASE Hydrate
    <2>1. Recovered \in SUBSET Frames /\ Decoded(Recovered) = Recovered
      <3>1. \A file \in toScan : Content(file) \in SUBSET Frames
        BY ContentType DEF IInv, BootInv
      <3> QED
        BY <3>1 DEF Recovered, Decoded
    <2> QED
      BY <1>10, <2>1 DEF Hydrate
  <1>11. CASE UNCHANGED vars
    BY <1>11, <1>0 DEF vars
  <1> QED
    BY <1>1, <1>2, <1>3, <1>4, <1>5, <1>6, <1>7, <1>8, <1>9, <1>10, <1>11
       DEF Next, AnswerRotate, ExecuteCompaction, Boot

LEMMA DaemonTypeStep ==
  ASSUME IInv, [Next]_vars
  PROVE  DaemonType'
  <1>t. FileType /\ DaemonType /\ DaemonInv
    BY DEF IInv, TypeOK
  <1>k. UNCHANGED row
    BY HistoryStep
  <1> USE <1>t, <1>k, ConstantAssumption DEF DaemonType, Decoded
  <1>0. ASSUME UNCHANGED compactor PROVE DaemonType'
    BY <1>0 DEF compactor
  <1>1. ASSUME NEW f \in Frames, Publish(f) PROVE DaemonType'
    BY <1>1, <1>0 DEF Publish
  <1>2. CASE AskRotate \/ RotateFails \/ RotateKillsWorker
    BY <1>2 DEF AskRotate, RotateFails, RotateKillsWorker, Refused
  <1>3. CASE Rotate
    <2>1. rotations' \in Segments
      BY <1>3 DEF Rotate, RenamedAway, FileType, DaemonInv, Segments
    <2> QED
      BY <1>3, <2>1 DEF Rotate
  <1>4. CASE Extract
    <2>1. segments[target] \in SUBSET Frames
      BY <1>4 DEF Extract, DaemonInv, Working, FileType
    <2> QED
      BY <1>4, <2>1 DEF Extract
  <1>5. CASE \/ WritePending \/ RemoveEmptySegment \/ RemoveEmptyManifest
             \/ GiveUp \/ Embed \/ Archive \/ ArchiveNothing \/ ArchivePanics
             \/ WriteCommitted \/ RemoveSegment \/ RemoveCommitted \/ Announce
    BY <1>5 DEF WritePending, RemoveEmptySegment, RemoveEmptyManifest, GiveUp,
       Embed, Archive, ArchiveNothing, ArchivePanics, WriteCommitted, RemoveSegment,
       RemoveCommitted, Announce
  <1>6. ASSUME NEW w \in watermarks, Evict(w) PROVE DaemonType'
    BY <1>6, <1>0 DEF Evict
  <1>7. CASE ListenerEnds \/ BootWal \/ ListFiles \/ EraseGhost \/ EraseGhostManifest
    BY <1>7, <1>0 DEF ListenerEnds, BootWal, ListFiles, EraseGhost, EraseGhostManifest
  <1>8. CASE Crash \/ Hydrate
    BY <1>8 DEF Crash, Hydrate, StartsIdle
  <1>9. CASE UNCHANGED vars
    BY <1>9, <1>0 DEF vars
  <1> QED
    BY <1>1, <1>2, <1>3, <1>4, <1>5, <1>6, <1>7, <1>8, <1>9
       DEF Next, AnswerRotate, ExecuteCompaction, Boot

-----------------------------------------------------------------------------
LEMMA InvariantStep == IInv /\ [Next]_vars => IInv'
  BY HistoryStep, StoreStep, DaemonStep, BootStep, ManifestStep, FileTypeStep, NodeTypeStep,
     DaemonTypeStep DEF IInv, TypeOK

LEMMA Invariance == Spec => []IInv
  BY InitInvariant, InvariantStep, PTL DEF Spec

(* The invariant says of the files what RowsConserved says of their names.   *)
LEMMA InvariantImplies == IInv => RowsConserved
  <1> SUFFICES ASSUME IInv, NEW f \in published \ spoiled, row[f] # 0
               PROVE  f \in Stored \/ vault[f] > 0
    BY DEF RowsConserved
  <1>1. InAFile(f) \/ vault[f] > 0
    BY DEF IInv, StoreInv, RowsInv
  <1>2. CASE f \in wal
    BY <1>2 DEF Stored, Files, Content
  <1>3. ASSUME NEW s \in DOMAIN segments, f \in segments[s] PROVE f \in Stored
    <2>1. s # Active
      BY DEF IInv, TypeOK, FileType, Active
    <2> QED
      BY <1>3, <2>1 DEF Stored, Files, Content
  <1> QED
    BY <1>1, <1>2, <1>3 DEF InAFile

\* Every reachable state has its types: no boot or compaction, whatever fails in
\* it, hands on a segment that was not rotated, a hot entry without a row or a
\* watermark that is no transaction id (compactor.rs 149-258, main.rs 310-474).
THEOREM CompactionTypes == Spec => []TypeOK
  BY Invariance, PTL DEF IInv

\* No frame that decodes is ever lost, for any number of frames, segments,
\* failures and crashes: compactor.rs 149-258 and main.rs 325-360 remove a file
\* only after its rows were added to LanceDB.
THEOREM RowsAreConserved == Spec => []RowsConserved
  BY Invariance, InvariantImplies, PTL

\* No row is archived twice, for any number of frames, segments, failures and
\* crashes (compactor.rs 149-258; main.rs 333-346 never re-archives).
THEOREM RowsAreArchivedOnce == Spec => []ArchivedAtMostOnce
  BY Invariance, PTL DEF IInv, StoreInv

-----------------------------------------------------------------------------
(* The hot buffer.                                                           *)

LEMMA BelowIsWellFounded ==
  IsWellFoundedOn({p \in Nat \X Nat : p[1] < p[2]}, Nat)
  BY NatLessThanWellFounded DEF OpToRel

(* A bounded set of transaction ids has a highest one.                       *)
LEMMA Highest ==
  ASSUME NEW bound \in Nat, NEW S \in SUBSET (1..bound), S # {}
  PROVE  \E w \in S : \A v \in S : v <= w
  <1> DEFINE Below == {p \in Nat \X Nat : p[1] < p[2]}
             Distances == {n \in Nat : \E v \in S : n + v = bound}
  <1>1. IsWellFoundedOn(Below, Nat)
    BY BelowIsWellFounded
  <1>2. Distances \subseteq Nat
    OBVIOUS
  <1>3. Distances # {}
    <2>1. PICK v \in S : v \in 1..bound
      OBVIOUS
    <2>2. bound - v \in Nat /\ (bound - v) + v = bound
      BY <2>1
    <2> QED
      BY <2>2
  <1> HIDE DEF Below, Distances
  <1>4. PICK d \in Distances : \A e \in Distances : ~ (<<e, d>> \in Below)
    BY <1>1, <1>2, <1>3, WFMin
  <1>5. ASSUME NEW e \in Distances, e < d PROVE FALSE
    <2>1. <<e, d>> \in Nat \X Nat /\ <<e, d>>[1] < <<e, d>>[2]
      BY <1>2, <1>4, <1>5
    <2> QED
      BY <2>1, <1>4 DEF Below
  <1>6. PICK w \in S : d + w = bound
    BY <1>4 DEF Distances
  <1>7. ASSUME NEW v \in S PROVE v <= w
    <2>1. v \in 1..bound /\ w \in 1..bound
      OBVIOUS
    <2>2. bound - v \in Distances
      BY <2>1 DEF Distances
    <2> QED
      BY <1>2, <1>4, <1>5, <1>6, <2>1, <2>2
  <1> QED
    BY <1>6, <1>7

(* The event of a compaction covers every row it archived.                   *)
LEMMA AnnounceCovers ==
  ASSUME IInv, Announce, NEW f \in batch
  PROVE  \E w \in watermarks' : row[f] <= w
  <1> DEFINE Rows == {row[g] : g \in batch}
  <1>1. Rows \in SUBSET (1..MaxTx) /\ Rows # {}
    BY DEF IInv, TypeOK, DaemonType, HistoryType, Decoded
  <1>2. PICK w \in Rows : \A v \in Rows : v <= w
    BY <1>1, Highest, ConstantAssumption
  <1>3. w \in watermarks'
    BY <1>2 DEF Announce
  <1> QED
    BY <1>2, <1>3

(* The only step that puts a row in the hot buffer puts rows of the active   *)
(* file there.                                                               *)
LEMMA HotStep ==
  ASSUME IInv, [Next]_vars
  PROVE  \A f \in hot' \ hot : vault[f] = 0 /\ vault' = vault
  <1> SUFFICES ASSUME NEW f \in hot', f \notin hot
               PROVE  vault[f] = 0 /\ vault' = vault
    OBVIOUS
  <1>1. Hydrate
    BY DEF Next, vars, ram, Publish, AskRotate, AnswerRotate, Rotate, RotateFails,
       RotateKillsWorker, RenamedAway, ExecuteCompaction, WritePending, Extract,
       RemoveEmptySegment, RemoveEmptyManifest, GiveUp, Embed, Archive, ArchiveNothing,
       ArchivePanics, WriteCommitted, RemoveSegment, RemoveCommitted, Announce, Evict,
       ListenerEnds, Crash, Boot, BootWal, ListFiles, EraseGhost, EraseGhostManifest
  <1>2. Recovered \subseteq wal
    BY DEF Recovered, Decoded, Content, IInv, BootInv
  <1>3. f \in wal
    BY <1>1, <1>2 DEF Hydrate
  <1> QED
    BY <1>1, <1>3 DEF Hydrate, persistent, IInv, StoreInv, PlaceInv

LEMMA LeaveRamStep ==
  ASSUME IInv, ArchivedRowsLeaveRam, [Next]_vars
  PROVE  ArchivedRowsLeaveRam'
  <1> DEFINE Leaving(f) == \/ /\ pc \in {"archived", "committed", "removed", "cleared"}
                              /\ f \in batch
                           \/ \E w \in watermarks : row[f] <= w
  <1> SUFFICES ASSUME listening', NEW f \in hot', vault'[f] > 0
               PROVE  Leaving(f)'
    BY DEF ArchivedRowsLeaveRam
  <1>k. UNCHANGED row /\ f \in Frames
    BY HistoryStep, NodeTypeStep DEF NodeType
  <1>1. CASE f \notin hot
    BY <1>1, HotStep
  <1>2. CASE Hydrate
    <2>1. f \in wal
      BY <1>2 DEF Hydrate, Recovered, Decoded, Content, IInv, BootInv
    <2> QED
      BY <1>2, <2>1 DEF Hydrate, persistent, IInv, StoreInv, PlaceInv
  <1>3. CASE f \in hot /\ ~Hydrate
    <2>a. listening
      BY <1>3 DEF Next, vars, ram, Publish, AskRotate, AnswerRotate, Rotate, RotateFails,
         RotateKillsWorker, RenamedAway, ExecuteCompaction, WritePending, Extract,
         RemoveEmptySegment, RemoveEmptyManifest, GiveUp, Embed, Archive, ArchiveNothing,
         ArchivePanics, WriteCommitted, RemoveSegment, RemoveCommitted, Announce, Evict,
         ListenerEnds, Crash, Boot, BootWal, ListFiles, EraseGhost, EraseGhostManifest
    <2>1. CASE Archive
      <3>1. CASE f \in batch
        BY <2>1, <3>1 DEF Archive
      <3>2. CASE f \notin batch
        BY <1>3, <1>k, <2>a, <2>1, <3>2 DEF Archive, ram, ArchivedRowsLeaveRam
      <3> QED
        BY <3>1, <3>2
    <2>b. ~Archive => Leaving(f)
      BY <1>3, <1>k, <2>a, KeptStep DEF ArchivedRowsLeaveRam
    <2>2. CASE Announce
      <3>1. f \in batch => \E w \in watermarks' : row[f] <= w
        BY <2>2, AnnounceCovers
      <3>2. watermarks \subseteq watermarks' /\ ~Archive
        BY <2>2 DEF Announce, Archive
      <3> QED
        BY <1>k, <2>b, <3>1, <3>2
    <2>3. ASSUME NEW w \in watermarks, Evict(w) PROVE Leaving(f)'
      <3>1. row[f] > w /\ watermarks' = watermarks \ {w} /\ UNCHANGED <<pc, batch>> /\ ~Archive
        BY <2>3 DEF Evict, Survives, compactor, Archive
      <3>2. row[f] \in Nat /\ watermarks \subseteq Nat
        BY <1>k DEF IInv, TypeOK, HistoryType, NodeType
      <3> QED
        BY <1>k, <2>b, <3>1, <3>2
    <2>4. ~Crash
      BY DEF Crash
    <2>5. CASE ~Archive /\ ~Announce /\ \A w \in watermarks : ~Evict(w)
      <3>1. UNCHANGED watermarks
        BY <1>3, <2>4, <2>5 DEF Next, vars, ram, Publish, AskRotate, AnswerRotate, Rotate,
           RotateFails, RotateKillsWorker, RenamedAway, ExecuteCompaction, WritePending, Extract,
           RemoveEmptySegment, RemoveEmptyManifest, GiveUp, Embed, ArchiveNothing,
           ArchivePanics, WriteCommitted, RemoveSegment, RemoveCommitted,
           ListenerEnds, Boot, BootWal, ListFiles, EraseGhost, EraseGhostManifest
      <3>2. pc \in {"archived", "committed", "removed", "cleared"} =>
              /\ pc' \in {"archived", "committed", "removed", "cleared"}
              /\ batch' = batch
        BY <1>3, <2>4, <2>5 DEF Next, vars, compactor, Publish, AskRotate, AnswerRotate, Rotate,
           RotateFails, RotateKillsWorker, ExecuteCompaction, WritePending, Extract,
           RemoveEmptySegment, RemoveEmptyManifest, GiveUp, Embed, ArchiveNothing,
           ArchivePanics, WriteCommitted, RemoveSegment, RemoveCommitted,
           ListenerEnds, Boot, BootWal, ListFiles, EraseGhost, EraseGhostManifest
      <3> QED
        BY <1>k, <2>b, <2>5, <3>1, <3>2
    <2> QED
      BY <2>1, <2>2, <2>3, <2>5
  <1> QED
    BY <1>1, <1>2, <1>3

\* No boot puts a row in the hot buffer that LanceDB holds, for any number of
\* frames, segments, failures and crashes (main.rs 325-360 and 389-468: of the
\* files, only the active one is ever scanned).
THEOREM NoRowIsIngestedTwice == Spec => NoDuplicateIngestion
  <1>1. IInv /\ [Next]_vars => [\A f \in hot' \ hot : vault[f] = 0]_vars
    BY HotStep
  <1> QED
    BY Invariance, <1>1, PTL DEF Spec, NoDuplicateIngestion

\* As long as the listener lives, every archived row in RAM is in the batch being
\* archived or below a watermark still to be handled, for any number of frames,
\* segments, failures and crashes (compactor.rs 222-256, main.rs 487-496).
THEOREM ArchivedRowsAreEvicted == Spec => []ArchivedRowsLeaveRam
  <1>1. Init => ArchivedRowsLeaveRam
    BY DEF Init, ArchivedRowsLeaveRam
  <1>2. IInv /\ ArchivedRowsLeaveRam /\ [Next]_vars => ArchivedRowsLeaveRam'
    BY LeaveRamStep
  <1> QED
    BY Invariance, <1>1, <1>2, PTL DEF Spec

-----------------------------------------------------------------------------
(* Eviction.  A hot row is archived, or in a segment that was given up, or   *)
(* it waits in the active file or in the segment of the first compaction:    *)
(* there is no watermark before that compaction is over.                     *)
WaitsInFile(f) == pc \in {"idle", "asked"} /\ f \in wal
WaitsInSegment(f) ==
  /\ pc \in Unarchived \cup {"short", "dead", "idle", "asked"}
  /\ target \in DOMAIN segments /\ f \in segments[target]

Waiting(f) == watermarks = {} /\ (WaitsInFile(f) \/ WaitsInSegment(f))
Abandoned(f) == \E s \in GivenUp : f \in segments[s]

HotInv ==
  /\ phase # "up" => watermarks = {} /\ ~listening
  /\ target <= rotations
  /\ listening => \A f \in hot : Kept(f) \/ Abandoned(f) \/ Waiting(f)

LEMMA ListenerStep ==
  ASSUME IInv, HotInv, [Next]_vars
  PROVE  (phase # "up" => watermarks = {} /\ ~listening)'
  <1> USE DEF HotInv
  <1>1. ASSUME NEW f \in Frames, Publish(f) PROVE (phase # "up" => watermarks = {} /\ ~listening)'
    BY <1>1 DEF Publish, ram
  <1>2. CASE AskRotate \/ AnswerRotate
    BY <1>2 DEF AskRotate, AnswerRotate, Rotate, RotateFails, RotateKillsWorker, RenamedAway, ram
  <1>3. CASE Announce
    BY <1>3 DEF Announce, IInv, DaemonInv
  <1>4. CASE ExecuteCompaction /\ ~Announce
    BY <1>4 DEF ExecuteCompaction, WritePending, Extract, RemoveEmptySegment,
       RemoveEmptyManifest, GiveUp, Embed, Archive, ArchiveNothing, ArchivePanics,
       WriteCommitted, RemoveSegment, RemoveCommitted, ram
  <1>5. ASSUME NEW w \in watermarks, Evict(w) PROVE (phase # "up" => watermarks = {} /\ ~listening)'
    BY <1>5 DEF Evict
  <1>6. CASE ListenerEnds \/ Crash \/ UNCHANGED vars
    BY <1>6 DEF ListenerEnds, Crash, vars, ram
  <1>7. CASE Boot
    BY <1>7 DEF Boot, BootWal, ListFiles, EraseGhost, EraseGhostManifest, Hydrate
  <1> QED
    BY <1>1, <1>2, <1>3, <1>4, <1>5, <1>6, <1>7 DEF Next

LEMMA TargetStep ==
  ASSUME IInv, target <= rotations, [Next]_vars
  PROVE  target' <= rotations'
  <1>t. target \in Nat /\ rotations \in Nat
    BY ConstantAssumption DEF IInv, TypeOK, FileType, DaemonType, Segments, Active
  <1>1. CASE Rotate
    BY <1>1, <1>t DEF Rotate, RenamedAway
  <1>2. CASE RotateKillsWorker
    BY <1>2, <1>t DEF RotateKillsWorker, RenamedAway
  <1>3. CASE Crash \/ Hydrate
    BY <1>3, <1>t DEF Crash, Hydrate, StartsIdle, persistent, Active
  <1>4. CASE ~Rotate /\ ~RotateKillsWorker /\ ~Crash /\ ~Hydrate
    BY <1>4 DEF Next, vars, persistent, compactor, Publish, AskRotate, AnswerRotate, RotateFails,
       ExecuteCompaction, WritePending, Extract, RemoveEmptySegment, RemoveEmptyManifest, GiveUp,
       Embed, Archive, ArchiveNothing, ArchivePanics, WriteCommitted, RemoveSegment,
       RemoveCommitted, Announce, Evict, ListenerEnds, Boot, BootWal, ListFiles, EraseGhost,
       EraseGhostManifest
  <1> QED
    BY <1>1, <1>2, <1>3, <1>4

\* A segment given up stays as long as the node is up: the daemon removes its own.
LEMMA AbandonedStep ==
  ASSUME IInv, HotInv, [Next]_vars, listening, listening', NEW f \in Frames, Abandoned(f)
  PROVE  Abandoned(f)'
  <1> USE DEF Abandoned, GivenUp
  <1>0. PICK s \in DOMAIN segments \ {target} : f \in segments[s]
    OBVIOUS
  <1>1. CASE AnswerRotate
    <2>1. CASE RotateFails
      BY <2>1 DEF RotateFails, persistent
    <2>2. CASE Rotate \/ RotateKillsWorker
      <3>1. RenamedAway /\ (target' = target \/ target' = rotations')
        BY <2>2 DEF Rotate, RotateKillsWorker
      <3>2. s \in DOMAIN segments' \ {target'} /\ segments'[s] = segments[s]
        BY <3>1, RenameFacts DEF IInv, TypeOK
      <3> QED
        BY <1>0, <3>2
    <2> QED
      BY <1>1, <2>1, <2>2 DEF AnswerRotate
  <1>2. CASE RemoveEmptySegment \/ RemoveSegment
    <2>1. UNCHANGED target /\ (UNCHANGED segments \/ segments' = Without(target))
      BY <1>2 DEF RemoveEmptySegment, RemoveSegment, RemoveFile
    <2> QED
      BY <1>0, <2>1 DEF Without
  <1>3. CASE Crash \/ Boot
    BY <1>3 DEF Crash, Boot, BootWal, ListFiles, EraseGhost, EraseGhostManifest, Hydrate, HotInv
  <1>4. CASE ~AnswerRotate /\ ~RemoveEmptySegment /\ ~RemoveSegment /\ ~Crash /\ ~Boot
    <2>1. UNCHANGED <<segments, target>>
      BY <1>4 DEF Next, vars, persistent, compactor, Publish, AskRotate, ExecuteCompaction,
         WritePending, Extract, RemoveEmptyManifest, GiveUp, Embed, Archive, ArchiveNothing,
         ArchivePanics, WriteCommitted, RemoveCommitted, Announce, Evict, ListenerEnds
    <2> QED
      BY <1>0, <2>1
  <1> QED
    BY <1>1, <1>2, <1>3, <1>4

\* A row that waits goes on to wait, or is archived, or lost, or its segment given up.
LEMMA WaitingStep ==
  ASSUME IInv, HotInv, [Next]_vars, listening, listening', ~Hydrate,
         NEW f \in Frames, row[f] # 0, Waiting(f)
  PROVE  Kept(f)' \/ Abandoned(f)' \/ Waiting(f)'
  <1> DEFINE Goal == Kept(f)' \/ Abandoned(f)' \/ Waiting(f)'
  <1> SUFFICES Goal
    OBVIOUS
  <1>w. watermarks = {} /\ pc \in {"idle", "asked", "short", "dead"} \cup Unarchived
    BY DEF Waiting, WaitsInFile, WaitsInSegment
  <1> USE DEF Waiting, WaitsInFile, WaitsInSegment, Unarchived
  <1>1. ASSUME NEW g \in Frames, Publish(g) PROVE Goal
    BY <1>1 DEF Publish, ram, compactor, Kept
  <1>2. CASE AskRotate
    BY <1>2 DEF AskRotate, ram, persistent
  <1>3. CASE Rotate \/ RotateKillsWorker
    <2>1. /\ RenamedAway /\ pc = "asked"
          /\ \/ target' = rotations' /\ pc' = "rotated"
             \/ target' = target /\ pc' = "idle"
      BY <1>3 DEF Rotate, RotateKillsWorker, Refused
    <2>2. /\ DOMAIN segments' = DOMAIN segments \cup {rotations'}
          /\ rotations' \notin DOMAIN segments /\ segments'[rotations'] = wal
          /\ \A s \in DOMAIN segments : segments'[s] = segments[s]
          /\ watermarks' = watermarks /\ rotations' = rotations + 1
      BY <2>1, RenameFacts DEF IInv, TypeOK, RenamedAway
    <2>3. target # rotations'
      BY <2>2, ConstantAssumption
         DEF HotInv, IInv, TypeOK, FileType, DaemonType, Segments, Active
    <2>4. CASE f \in wal
      BY <2>1, <2>2, <2>3, <2>4 DEF Abandoned, GivenUp
    <2>5. CASE f \notin wal
      <3>1. target \in DOMAIN segments /\ f \in segments[target]
        BY <2>1, <2>5
      <3> QED
        BY <2>1, <2>2, <2>3, <3>1 DEF Abandoned, GivenUp
    <2> QED
      BY <2>4, <2>5
  <1>4. CASE RotateFails
    BY <1>4 DEF RotateFails, Refused, ram, persistent
  <1>5. CASE WritePending
    BY <1>5 DEF WritePending, ram
  <1>6. CASE Extract
    <2>1. f \in segments[target] /\ target \in DOMAIN segments
      BY <1>6 DEF Extract
    <2>2. f \in batch'
      BY <1>6, <2>1 DEF Extract, Decoded
    <2> QED
      BY <1>6, <2>1, <2>2 DEF Extract, ram, persistent
  <1>7. CASE GiveUp \/ Embed \/ ArchivePanics
    BY <1>7 DEF GiveUp, Embed, ArchivePanics, ram, persistent
  <1>8. CASE Archive \/ ArchiveNothing
    <2>1. f \in segments[target] /\ pc \in {"embedded", "short"}
      BY <1>8 DEF Archive, ArchiveNothing
    <2>2. f \in batch
      BY <2>1 DEF IInv, DaemonInv, Holding, Decoded
    <2> QED
      BY <1>8, <2>2 DEF Archive, ArchiveNothing, Kept, IInv, TypeOK, FileType
  <1>9. CASE UNCHANGED vars
    BY <1>9 DEF vars, ram, compactor, persistent
  <1>10. ~Crash /\ ~Boot /\ ~ListenerEnds
    BY DEF Crash, Boot, BootWal, ListFiles, EraseGhost, EraseGhostManifest, HotInv, ListenerEnds
  <1> QED
    BY <1>w, <1>1, <1>2, <1>3, <1>4, <1>5, <1>6, <1>7, <1>8, <1>9, <1>10
       DEF Next, AnswerRotate, ExecuteCompaction, RemoveEmptySegment, RemoveEmptyManifest,
       WriteCommitted, RemoveSegment, RemoveCommitted, Announce, Evict

LEMMA HotInvStep ==
  ASSUME IInv, HotInv, [Next]_vars
  PROVE  HotInv'
  <1> SUFFICES ASSUME listening', NEW f \in hot'
               PROVE  Kept(f)' \/ Abandoned(f)' \/ Waiting(f)'
    BY ListenerStep, TargetStep DEF HotInv
  <1>k. UNCHANGED row /\ f \in Frames /\ row[f] # 0
    BY HistoryStep, NodeTypeStep DEF NodeType, Decoded
  <1>1. CASE Hydrate
    <2>1. f \in wal
      BY <1>1 DEF Hydrate, Recovered, Decoded, Content, IInv, BootInv
    <2> QED
      BY <1>1, <2>1 DEF Hydrate, StartsIdle, persistent, HotInv, Waiting, WaitsInFile
  <1>2. CASE ~Hydrate
    <2>1. f \in hot /\ listening
      BY <1>2 DEF Next, vars, ram, Publish, AskRotate, AnswerRotate, Rotate, RotateFails,
         RotateKillsWorker, RenamedAway, ExecuteCompaction, WritePending, Extract,
         RemoveEmptySegment, RemoveEmptyManifest, GiveUp, Embed, Archive, ArchiveNothing,
         ArchivePanics, WriteCommitted, RemoveSegment, RemoveCommitted, Announce, Evict,
         ListenerEnds, Crash, Boot, BootWal, ListFiles, EraseGhost, EraseGhostManifest
    <2>2. Kept(f) \/ Abandoned(f) \/ Waiting(f)
      BY <2>1 DEF HotInv
    <2> QED
      BY <1>2, <1>k, <2>1, <2>2, KeptStep, AbandonedStep, WaitingStep
  <1> QED
    BY <1>1, <1>2

\* Only Evict takes a row out of RAM while the listener lives.
LEMMA EvictionStep ==
  ASSUME IInv, HotInv, [Next]_vars, listening, listening', NEW f \in hot, f \notin hot'
  PROVE  vault[f] > 0 \/ f \in spoiled \/ \E s \in GivenUp : f \in segments[s]
  <1>1. PICK w \in watermarks : Evict(w)
    <2>1. ~Hydrate
      BY DEF Hydrate, HotInv, IInv, DaemonInv
    <2> QED
      BY <2>1 DEF Next, vars, ram, Publish, AskRotate, AnswerRotate, Rotate, RotateFails,
         RotateKillsWorker, RenamedAway, ExecuteCompaction, WritePending, Extract,
         RemoveEmptySegment, RemoveEmptyManifest, GiveUp, Embed, Archive, ArchiveNothing,
         ArchivePanics, WriteCommitted, RemoveSegment, RemoveCommitted, Announce,
         ListenerEnds, Crash, Boot, BootWal, ListFiles, EraseGhost, EraseGhostManifest
  <1> QED
    BY <1>1 DEF HotInv, Kept, Waiting, Abandoned

\* Whatever fails and whenever the node crashes, a watermark evicts no row that is
\* still to be archived: an evicted row that LanceDB does not hold was lost before, or
\* its segment was given up, and that one stays on disk (compactor.rs 211-218,
\* hot_memory.rs 67-72), for any number of frames, segments, failures and crashes.
THEOREM EvictionIsSafe == Spec => EvictionSparesTheLog
  <1>1. Init => HotInv
    BY DEF Init, HotInv, Active
  <1>2. IInv /\ HotInv /\ [Next]_vars => HotInv'
    BY HotInvStep
  <1>3. IInv /\ HotInv /\ [Next]_vars =>
          [listening /\ listening' =>
             \A f \in hot \ hot' :
               vault[f] > 0 \/ f \in spoiled \/ \E s \in GivenUp : f \in segments[s]]_vars
    BY EvictionStep
  <1> QED
    BY Invariance, <1>1, <1>2, <1>3, PTL DEF Spec, EvictionSparesTheLog
-----------------------------------------------------------------------------
(* The search beside the compaction.                                         *)

\* What a search does to the node is at most to use up a failure.
OnlyFaults == Fault /\ UNCHANGED <<persistent, ram, compactor, history>>

LEMMA SearchMoves ==
  ASSUME [SearchNext]_<<vars, search>>
  PROVE  [Next]_vars \/ OnlyFaults
  <1>1. CASE SearchSteps
    BY <1>1 DEF SearchSteps, Ask, EmbedQuery, EmbedQueryFails, SearchHot, SearchCold,
       SearchColdFails, Respond, OnlyFaults
  <1>2. CASE UNCHANGED <<vars, search>>
    BY <1>2
  <1>3. CASE SearchNext /\ ~SearchSteps
    BY <1>3 DEF SearchNext, Beside, CrashWithSearch, Next
  <1> QED
    BY <1>1, <1>2, <1>3

LEMMA FaultStep ==
  ASSUME IInv, OnlyFaults
  PROVE  /\ IInv'
         /\ HotInv => HotInv'
         /\ ArchivedRowsLeaveRam => ArchivedRowsLeaveRam'
  <1>1. /\ UNCHANGED <<wal, segments, rotations, manifest, vault>>
        /\ UNCHANGED <<phase, toScan, hot, workerUp, rewinding, watermarks, listening>>
        /\ UNCHANGED <<pc, target, batch>> /\ UNCHANGED <<row, published, spoiled>>
        /\ faults < MaxFaults /\ faults' = faults + 1 /\ crashes' = crashes
    BY DEF OnlyFaults, Fault, persistent, ram, compactor, history
  <1>2. faults \in Nat /\ MaxFaults \in Nat
    BY ConstantAssumption DEF IInv, TypeOK, HistoryType
  <1>3. FileType' /\ NodeType' /\ DaemonType' /\ HistoryType'
    BY <1>1, <1>2 DEF IInv, TypeOK, FileType, NodeType, DaemonType, HistoryType, Decoded
  <1>4. DaemonInv' /\ BootInv' /\ ManifestInv'
    BY <1>1 DEF IInv, DaemonInv, BootInv, ManifestInv, Decoded, Kept
  <1>5. StoreInv'
    BY <1>1, QuietStep DEF IInv, store
  <1>6. HotInv => HotInv'
    BY <1>1 DEF HotInv, Kept, Abandoned, GivenUp, Waiting, WaitsInFile, WaitsInSegment
  <1>7. ArchivedRowsLeaveRam => ArchivedRowsLeaveRam'
    BY <1>1 DEF ArchivedRowsLeaveRam
  <1> QED
    BY <1>3, <1>4, <1>5, <1>6, <1>7 DEF IInv, TypeOK

\* A search at any time disturbs none of the above: types, that no row is lost or
\* archived twice, that none in LanceDB comes back to RAM, that archived rows leave
\* RAM, and of others only those given up (memory_router.rs 730-826 only reads).
THEOREM CompactionBesideSearch ==
  SearchSpec => /\ []TypeOK /\ []RowsConserved /\ []ArchivedAtMostOnce
                /\ []ArchivedRowsLeaveRam /\ NoDuplicateIngestion /\ EvictionSparesTheLog
  <1>1. SearchInit => IInv /\ HotInv /\ ArchivedRowsLeaveRam
    <2>1. Init => HotInv /\ ArchivedRowsLeaveRam
      BY DEF Init, HotInv, ArchivedRowsLeaveRam, Active
    <2> QED
      BY <2>1, InitInvariant DEF SearchInit
  <1>2. IInv /\ HotInv /\ ArchivedRowsLeaveRam /\ [SearchNext]_<<vars, search>>
          => IInv' /\ HotInv' /\ ArchivedRowsLeaveRam'
    BY SearchMoves, FaultStep, InvariantStep, HotInvStep, LeaveRamStep
  <1>3. IInv => TypeOK /\ RowsConserved /\ ArchivedAtMostOnce
    BY InvariantImplies DEF IInv, StoreInv
  <1>4. OnlyFaults => hot' = hot
    BY DEF OnlyFaults, ram
  <1>5. IInv /\ [SearchNext]_<<vars, search>> => [\A f \in hot' \ hot : vault[f] = 0]_vars
    BY <1>4, SearchMoves, HotStep
  <1>6. IInv /\ HotInv /\ [SearchNext]_<<vars, search>> =>
          [listening /\ listening' =>
             \A f \in hot \ hot' :
               vault[f] > 0 \/ f \in spoiled \/ \E s \in GivenUp : f \in segments[s]]_vars
    BY <1>4, SearchMoves, EvictionStep
  <1> QED
    BY <1>1, <1>2, <1>3, <1>5, <1>6, PTL
       DEF SearchSpec, NoDuplicateIngestion, EvictionSparesTheLog

\* What a search has not found of the rows held all the while is still ahead of it:
\* before the buffer is read they are in RAM or in LanceDB, after it those that are
\* not found are in LanceDB, where rows stay.
SearchInv ==
  /\ held \subseteq HotIds \cup ColdIds
  /\ stage \in {"none", "embedding", "reading", "answered"}
  /\ stage = "reading" =>
       \/ toRead = <<"ram", "lance">>
       \/ toRead = <<"lance">> /\ held \subseteq found \cup ColdIds
  /\ stage = "answered" /\ ~blind => held \subseteq found

LEMMA RowsStayCold ==
  ASSUME IInv, [Next]_vars
  PROVE  ColdIds \subseteq ColdIds'
  <1>1. row' = row
    BY HistoryStep
  <1>2. vault \in [Frames -> Nat]
    BY DEF IInv, TypeOK, FileType
  <1>3. \A f \in Frames : vault[f] > 0 => vault'[f] > 0
    <2>1. CASE Archive
      BY <1>2, <2>1 DEF Archive
    <2>2. CASE ~Archive
      <3>1. vault' = vault
        BY <2>2 DEF Next, vars, persistent, Publish, AskRotate, AnswerRotate, Rotate, RotateFails,
           RotateKillsWorker, RenamedAway, ExecuteCompaction, WritePending, Extract,
           RemoveEmptySegment, RemoveEmptyManifest, GiveUp, Embed, ArchiveNothing,
           ArchivePanics, WriteCommitted, RemoveSegment, RemoveCommitted, Announce, Evict,
           ListenerEnds, Crash, Boot, BootWal, ListFiles, EraseGhost, EraseGhostManifest, Hydrate
      <3> QED
        BY <3>1
    <2> QED
      BY <2>1, <2>2
  <1> QED
    BY <1>1, <1>3 DEF ColdIds, Ids

LEMMA BesideStep ==
  ASSUME IInv, SearchInv, [Next]_vars, held' = held \cap (HotIds' \cup ColdIds'),
         UNCHANGED <<stage, toRead, found, blind>>
  PROVE  SearchInv'
  <1>1. ColdIds \subseteq ColdIds'
    BY RowsStayCold
  <1>2. held' \subseteq held /\ held' \subseteq HotIds' \cup ColdIds'
    OBVIOUS
  <1> QED
    BY <1>1, <1>2 DEF SearchInv

\* The node at rest holds what it held.
LEMMA SameIds ==
  ASSUME UNCHANGED persistent, UNCHANGED ram, UNCHANGED history
  PROVE  HotIds' = HotIds /\ ColdIds' = ColdIds
  BY DEF persistent, ram, history, HotIds, ColdIds, Ids

LEMMA SearchStep ==
  ASSUME IInv, SearchInv, [SearchNext]_<<vars, search>>
  PROVE  SearchInv'
  <1> USE DEF SearchInv
  <1>0. NoSearch => SearchInv'
    BY DEF NoSearch
  <1>1. CASE Ask
    BY <1>1, SameIds DEF Ask, vars
  <1>2. CASE EmbedQuery
    <2>1. HotIds' = HotIds /\ ColdIds' = ColdIds
      BY <1>2, SameIds DEF EmbedQuery, vars
    <2>2. stage' = "reading" /\ toRead' = <<"ram", "lance">> /\ held' = held
      BY <1>2 DEF EmbedQuery, Reads
    <2> QED
      BY <2>1, <2>2
  <1>3. CASE EmbedQueryFails \/ Respond \/ CrashWithSearch
    BY <1>0, <1>3 DEF EmbedQueryFails, Respond, CrashWithSearch
  <1>4. CASE SearchHot
    <2>1. HotIds' = HotIds /\ ColdIds' = ColdIds
      BY <1>4, SameIds DEF SearchHot, vars
    <2>2. toRead = <<"ram", "lance">>
      BY <1>4 DEF SearchHot, Reading
    <2>3. toRead' = <<"lance">> /\ stage' = "reading"
      BY <1>4, <2>2 DEF SearchHot, NextRead
    <2>4. held' = held /\ found' = found \cup HotIds
      BY <1>4 DEF SearchHot
    <2> QED
      BY <2>1, <2>3, <2>4
  <1>5. CASE SearchCold
    <2>1. HotIds' = HotIds /\ ColdIds' = ColdIds
      BY <1>5, SameIds DEF SearchCold, vars
    <2>2. toRead = <<"lance">> /\ held \subseteq found \cup ColdIds
      BY <1>5 DEF SearchCold, Reading
    <2>3. toRead' = <<>> /\ stage' = "answered"
      BY <1>5, <2>2 DEF SearchCold, NextRead
    <2>4. held' = held /\ found' = found \cup ColdIds
      BY <1>5 DEF SearchCold
    <2> QED
      BY <2>1, <2>2, <2>3, <2>4
  <1>6. CASE SearchColdFails
    <2>1. HotIds' = HotIds /\ ColdIds' = ColdIds
      BY <1>6, SameIds DEF SearchColdFails
    <2>2. toRead = <<"lance">>
      BY <1>6 DEF SearchColdFails, Reading
    <2>3. toRead' = <<>> /\ stage' = "answered"
      BY <1>6, <2>2 DEF SearchColdFails, NextRead
    <2>4. held' = held /\ blind' = TRUE
      BY <1>6 DEF SearchColdFails
    <2> QED
      BY <2>1, <2>3, <2>4
  <1>7. CASE UNCHANGED <<vars, search>>
    <2>1. HotIds' = HotIds /\ ColdIds' = ColdIds /\ UNCHANGED <<stage, toRead, found, blind, held>>
      BY <1>7, SameIds DEF vars, search
    <2> QED
      BY <2>1
  <1>8. CASE SearchNext /\ ~SearchSteps /\ ~CrashWithSearch
    <2>1. /\ [Next]_vars /\ held' = held \cap (HotIds' \cup ColdIds')
          /\ UNCHANGED <<stage, toRead, found, blind>>
      BY <1>8 DEF SearchNext, Beside, Next
    <2> QED
      BY <2>1, BesideStep
  <1> QED
    BY <1>1, <1>2, <1>3, <1>4, <1>5, <1>6, <1>7, <1>8 DEF SearchNext, SearchSteps

\* A search that LanceDB answers lists every row that RAM or LanceDB held all the
\* while, whatever the daemon archives and the listener evicts between its steps, for
\* any number of frames, segments, failures and crashes (memory_router.rs 744-748;
\* compactor.rs 229 and 249, hot_memory.rs 67).
THEOREM SearchesMissNothing == SearchSpec => []AnswersAreComplete
  <1>1. SearchInit => IInv /\ SearchInv
    BY InitInvariant DEF SearchInit, SearchInv
  <1>2. IInv /\ SearchInv /\ [SearchNext]_<<vars, search>> => IInv' /\ SearchInv'
    BY SearchMoves, FaultStep, InvariantStep, SearchStep
  <1>3. SearchInv => AnswersAreComplete
    BY DEF SearchInv, AnswersAreComplete
  <1> QED
    BY <1>1, <1>2, <1>3, PTL DEF SearchSpec

=============================================================================
