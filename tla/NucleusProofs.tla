--------------------------- MODULE NucleusProofs ---------------------------
(***************************************************************************)
(* Theorems about the write-ahead log of Nucleus.tla, for every set of     *)
(* logs, every capacity and every number of faults, crashes and rotations: *)
(* its types; that index and published logs survive any crash for as long  *)
(* as the file has seen no I/O error and no restart over a log that is not *)
(* empty; that no log is in two frames, and recovery keeps the order of    *)
(* the channel; and that every step is one the log of WalLog.tla allows.   *)
(***************************************************************************)
EXTENDS Nucleus, TLAPS, SequenceTheorems, WellFoundedInduction

-----------------------------------------------------------------------------
(* Functions on 1..n are sequences of length n.                              *)
LEMMA FcnIsSeq ==
  ASSUME NEW S, NEW n \in Nat, NEW f \in [1..n -> S]
  PROVE  f \in Seq(S) /\ Len(f) = n
  <1>1. f \in Seq(S)
    BY SeqDef
  <1>2. Len(f) \in Nat /\ DOMAIN f = 1..Len(f) /\ DOMAIN f = 1..n
    BY <1>1, LenProperties
  <1> QED
    BY <1>1, <1>2, SMT

(* The frame of a batch is a sequence of FrameLen(b) cells.                  *)
LEMMA FrameIsSeq ==
  ASSUME NEW b \in Batch
  PROVE  /\ FrameLen(b) \in Nat /\ FrameLen(b) >= 2
         /\ Frame(b) \in Seq(Cell)
         /\ Len(Frame(b)) = FrameLen(b)
         /\ \A k \in 1..FrameLen(b) : Frame(b)[k] = [batch |-> b, part |-> k]
  <1>1. FrameLen(b) \in Nat /\ FrameLen(b) >= 2
    BY LenProperties DEF FrameLen, Batch
  <1>2. Frame(b) \in [1..FrameLen(b) -> Cell]
    BY <1>1 DEF Frame, Cell
  <1> QED
    BY <1>1, <1>2, FcnIsSeq DEF Frame

(* A failed write leaves a prefix of the frame and at most one junk cell.    *)
LEMMA TornFrameIsSeq ==
  ASSUME NEW b \in Batch, NEW k \in Nat, NEW torn \in BOOLEAN
  PROVE  TornFrame(b, k, torn) \in Seq(Cell)
  <1> DEFINE n == IF torn THEN k + 1 ELSE k
  <1>1. n \in Nat
    OBVIOUS
  <1>2. Junk \in Cell
    BY EmptySeq DEF Junk, Cell, Batch
  <1>3. TornFrame(b, k, torn) \in [1..n -> Cell]
    BY <1>1, <1>2 DEF TornFrame, Cell
  <1> QED
    BY <1>1, <1>3, FcnIsSeq

(* Overlaying cells at offset c keeps what stands before c, puts the new     *)
(* cells right after it, and never shortens the file.                        *)
LEMMA OverlayIsSeq ==
  ASSUME NEW f \in Seq(Cell), NEW part \in Seq(Cell),
         NEW c \in Nat, c <= Len(f)
  PROVE  /\ Overlay(f, c, part) \in Seq(Cell)
         /\ Len(Overlay(f, c, part)) >= Len(f)
         /\ Len(Overlay(f, c, part)) >= c + Len(part)
         /\ \A i \in 1..c : Overlay(f, c, part)[i] = f[i]
         /\ \A i \in 1..Len(part) : Overlay(f, c, part)[c + i] = part[i]
  <1> DEFINE n == IF c + Len(part) > Len(f) THEN c + Len(part) ELSE Len(f)
             g == Overlay(f, c, part)
  <1>1. Len(f) \in Nat /\ Len(part) \in Nat
    BY LenProperties
  <1>2. n \in Nat /\ n >= Len(f) /\ n >= c + Len(part)
    BY <1>1
  <1>3. ASSUME NEW i \in 1..n
        PROVE  (IF c < i /\ i <= c + Len(part) THEN part[i - c] ELSE f[i]) \in Cell
    <2>1. CASE c < i /\ i <= c + Len(part)
      <3>1. i - c \in 1..Len(part)
        BY <1>1, <2>1
      <3> QED
        BY <2>1, <3>1, ElementOfSeq
    <2>2. CASE ~(c < i /\ i <= c + Len(part))
      <3>1. i \in 1..Len(f)
        BY <1>1, <2>2
      <3> QED
        BY <2>2, <3>1, ElementOfSeq
    <2> QED
      BY <2>1, <2>2
  <1>4. g \in [1..n -> Cell]
    BY <1>3 DEF Overlay
  <1>5. g \in Seq(Cell) /\ Len(g) = n
    BY <1>2, <1>4, FcnIsSeq
  <1>6. ASSUME NEW i \in 1..c PROVE g[i] = f[i]
    <2>1. i \in 1..n /\ ~(c < i)
      BY <1>1, <1>2
    <2> QED
      BY <2>1 DEF Overlay
  <1>7. ASSUME NEW i \in 1..Len(part) PROVE g[c + i] = part[i]
    <2>1. c + i \in 1..n /\ c < c + i /\ c + i <= c + Len(part) /\ (c + i) - c = i
      BY <1>1, <1>2
    <2> QED
      BY <2>1 DEF Overlay
  <1> QED
    BY <1>2, <1>5, <1>6, <1>7

(* Whatever a crash leaves is a file.                                        *)
LEMMA CrashImageIsSeq ==
  ASSUME NEW f \in Seq(Cell), NEW d \in Seq(Cell), NEW g \in CrashImages(f, d)
  PROVE  g \in Seq(Cell)
  <1>1. Len(f) \in Nat /\ Len(d) \in Nat
    BY LenProperties
  <1>2. PICK n \in Shorter(f, d)..Longer(f, d), lost \in SUBSET Dirty(f, d) :
          g = CrashImage(f, d, n, lost)
    BY DEF CrashImages
  <1>3. n \in Nat
    BY <1>1 DEF Shorter, Longer
  <1>4. Zeros \in Cell
    BY EmptySeq DEF Zeros, Cell, Batch
  <1>5. ASSUME NEW i \in 1..n
        PROVE  (IF i > Len(f) \/ i \in lost THEN OnDevice(d, i) ELSE f[i]) \in Cell
    <2>1. CASE i > Len(f) \/ i \in lost
      <3>1. CASE i <= Len(d)
        <4>1. i \in 1..Len(d)
          BY <1>1, <1>3, <3>1
        <4> QED
          BY <2>1, <3>1, <4>1, ElementOfSeq DEF OnDevice
      <3>2. CASE ~(i <= Len(d))
        BY <1>4, <2>1, <3>2 DEF OnDevice
      <3> QED
        BY <3>1, <3>2
    <2>2. CASE ~(i > Len(f) \/ i \in lost)
      <3>1. i \in 1..Len(f)
        BY <1>1, <1>3, <2>2
      <3> QED
        BY <2>2, <3>1, ElementOfSeq
    <2> QED
      BY <2>1, <2>2
  <1>6. g \in [1..n -> Cell]
    BY <1>2, <1>5 DEF CrashImage
  <1> QED
    BY <1>3, <1>6, FcnIsSeq

(* A frame both the page cache and the device hold is in every crash image.  *)
LEMMA CrashImageKeepsFrame ==
  ASSUME NEW f \in Seq(Cell), NEW d \in Seq(Cell), NEW g \in CrashImages(f, d),
         NEW o \in Nat, NEW b \in Batch,
         HoldsFrame(f, o, b), HoldsFrame(d, o, b)
  PROVE  HoldsFrame(g, o, b)
  <1>1. Len(f) \in Nat /\ Len(d) \in Nat /\ FrameLen(b) \in Nat
    BY LenProperties, FrameIsSeq
  <1>2. PICK n \in Shorter(f, d)..Longer(f, d), lost \in SUBSET Dirty(f, d) :
          g = CrashImage(f, d, n, lost)
    BY DEF CrashImages
  <1>3. n \in Nat /\ o + FrameLen(b) <= n
    BY <1>1 DEF HoldsFrame, Shorter, Longer
  <1>4. g \in Seq(Cell)
    BY CrashImageIsSeq
  <1>5. Len(g) = n
    <2>1. DOMAIN g = 1..n /\ DOMAIN g = 1..Len(g) /\ Len(g) \in Nat
      BY <1>2, <1>4, LenProperties DEF CrashImage
    <2> QED
      BY <1>3, <2>1
  <1>6. ASSUME NEW k \in 1..FrameLen(b)
        PROVE  g[o + k] = [batch |-> b, part |-> k]
    <2>1. /\ o + k \in 1..n /\ o + k <= Len(f) /\ o + k <= Len(d)
          /\ f[o + k] = [batch |-> b, part |-> k]
          /\ d[o + k] = [batch |-> b, part |-> k]
      BY <1>1, <1>3 DEF HoldsFrame
    <2>2. g[o + k] = IF o + k > Len(f) \/ o + k \in lost
                     THEN OnDevice(d, o + k) ELSE f[o + k]
      BY <1>2, <2>1 DEF CrashImage
    <2> QED
      BY <2>1, <2>2 DEF OnDevice
  <1> QED
    BY <1>3, <1>5, <1>6 DEF HoldsFrame

(* Writing behind a frame leaves the frame alone.                            *)
LEMMA OverlayKeepsFrame ==
  ASSUME NEW f \in Seq(Cell), NEW part \in Seq(Cell),
         NEW c \in Nat, c <= Len(f),
         NEW o \in Nat, NEW b \in Batch,
         HoldsFrame(f, o, b), o + FrameLen(b) <= c
  PROVE  HoldsFrame(Overlay(f, c, part), o, b)
  <1>1. Len(f) \in Nat /\ FrameLen(b) \in Nat
    BY LenProperties, FrameIsSeq
  <1>2. Overlay(f, c, part) \in Seq(Cell)
    BY OverlayIsSeq
  <1>3. Len(Overlay(f, c, part)) \in Nat /\ Len(Overlay(f, c, part)) >= Len(f)
    BY <1>2, LenProperties, OverlayIsSeq
  <1>4. ASSUME NEW k \in 1..FrameLen(b)
        PROVE  Overlay(f, c, part)[o + k] = [batch |-> b, part |-> k]
    <2>1. o + k \in 1..c
      BY <1>1
    <2> QED
      BY <2>1, OverlayIsSeq DEF HoldsFrame
  <1> QED
    BY <1>1, <1>3, <1>4 DEF HoldsFrame

(* Writing a frame at offset c puts that frame there.                        *)
LEMMA OverlayPutsFrame ==
  ASSUME NEW f \in Seq(Cell), NEW c \in Nat, c <= Len(f), NEW b \in Batch
  PROVE  HoldsFrame(Overlay(f, c, Frame(b)), c, b)
  <1>1. /\ Frame(b) \in Seq(Cell) /\ Len(Frame(b)) = FrameLen(b)
        /\ \A k \in 1..FrameLen(b) : Frame(b)[k] = [batch |-> b, part |-> k]
    BY FrameIsSeq
  <1> DEFINE g == Overlay(f, c, Frame(b))
  <1>2. Len(g) >= c + FrameLen(b) /\ \A i \in 1..FrameLen(b) : g[c + i] = Frame(b)[i]
    BY <1>1, OverlayIsSeq
  <1> QED
    BY <1>1, <1>2 DEF HoldsFrame

(* Two frames held at one offset are frames of one batch.                    *)
LEMMA HeldFrameIsValid ==
  ASSUME NEW f \in Seq(Cell), NEW o \in Nat, NEW b \in Batch, b # <<>>,
         HoldsFrame(f, o, b)
  PROVE  BatchAt(f, o) = b /\ ValidAt(f, o) /\ NextFrame(f, o) = o + FrameLen(b)
  <1>1. FrameLen(b) \in Nat /\ FrameLen(b) >= 2 /\ Len(f) \in Nat
    BY FrameIsSeq, LenProperties
  <1>2. f[o + 1] = [batch |-> b, part |-> 1]
    BY <1>1 DEF HoldsFrame
  <1>3. BatchAt(f, o) = b
    BY <1>2 DEF BatchAt
  <1> QED
    BY <1>1, <1>3 DEF ValidAt, NextFrame, HoldsFrame

-----------------------------------------------------------------------------
(* The inductive invariant.                                                  *)

\* The descriptor is inside the file, a new file is empty, and the worker holds a
\* batch exactly while it writes one.
CursorInv ==
  /\ batch # <<>> <=> worker \in {"drained", "written", "synced"}
  /\ worker \in {"idle", "drained", "written", "synced", "reopened"} =>
       cursor <= Len(file)
  /\ worker \in {"renamed", "reopened"} => file = <<>> /\ disk = <<>>
  /\ worker = "reopened" => cursor = 0 /\ currentOffset = 0

\* A log that waits waits once, in the channel or in the batch.
QueueInv ==
  /\ worker \in {"down", "dead"} => chan = <<>>
  /\ \A i \in 1..Len(chan) : fate[chan[i]] = "sent"
  /\ \A i \in 1..Len(batch) : fate[batch[i]] = "sent"
  /\ \A i, j \in 1..Len(chan) : i # j => chan[i] # chan[j]
  /\ \A i \in 1..Len(chan), j \in 1..Len(batch) : chan[i] # batch[j]

\* The frame of the index entry t is whole in f and starts with t.
HoldsEntry(f, t) ==
  /\ BatchAt(file, index[t]) \in Batch
  /\ BatchAt(file, index[t]) # <<>>
  /\ BatchAt(file, index[t])[1] = t
  /\ HoldsFrame(f, index[t], BatchAt(file, index[t]))

\* Behind the frame of t there is another entry, or the end.
ChainAt(t) ==
  \/ NextFrame(file, index[t]) = currentOffset
  \/ \E u \in DOMAIN index : index[u] = NextFrame(file, index[t])

\* The index, the file and the device agree.
IndexInv ==
  /\ currentOffset = 0 \/ \E t \in DOMAIN index : index[t] = 0
  /\ \A t \in DOMAIN index :
       /\ HoldsEntry(file, t)
       /\ HoldsEntry(disk, t)
       /\ NextFrame(file, index[t]) <= currentOffset
       /\ ChainAt(t)
       /\ fate[t] = "published"

\* The worker opens an empty log only, the frame being written stands at
\* current_offset, and the descriptor behind it.
FrameInv ==
  /\ worker = "opening" => currentOffset = 0
  /\ worker \in {"idle", "drained"} => cursor = currentOffset
  /\ worker \in {"written", "synced"} =>
       /\ cursor = currentOffset + FrameLen(batch)
       /\ HoldsFrame(file, currentOffset, batch)
  /\ worker = "synced" => HoldsFrame(disk, currentOffset, batch)

TypeInv == TypeOK /\ CursorInv
IInv == TypeInv /\ QueueInv /\ (Settled /\ taint = {} => IndexInv /\ FrameInv)

-----------------------------------------------------------------------------
(* Settling logs keeps every log's fate a fate.                              *)
LEMMA SettleType ==
  ASSUME QueueType, NEW S, NEW x \in Fates
  PROVE  Settle(S, x) \in [Logs -> Fates]
  BY DEF Settle, QueueType

(* The part of the channel a drain takes, and the part it leaves.            *)
LEMMA DrainSplits ==
  ASSUME chan \in Seq(Logs), chan # <<>>
  PROVE  /\ DrainCount \in Nat /\ DrainCount >= 1
         /\ DrainCount <= BatchCap /\ DrainCount <= Len(chan)
         /\ NextBatch \in Seq(Logs) /\ Len(NextBatch) = DrainCount
         /\ \A rest : rest = [i \in 1..(Len(chan) - DrainCount) |-> chan[i + DrainCount]]
              => rest \in Seq(Logs) /\ Len(rest) = Len(chan) - DrainCount
  <1>1. Len(chan) \in Nat /\ Len(chan) >= 1
    BY LenProperties, EmptySeq
  <1>2. DrainCount \in Nat /\ DrainCount >= 1 /\ DrainCount <= BatchCap /\ DrainCount <= Len(chan)
    BY <1>1, CapAssumption DEF DrainCount
  <1>3. NextBatch \in [1..DrainCount -> Logs]
    <2>1. \A i \in 1..DrainCount : i \in 1..Len(chan)
      BY <1>1, <1>2
    <2> QED
      BY <2>1, ElementOfSeq DEF NextBatch
  <1>4. ASSUME NEW rest,
               rest = [i \in 1..(Len(chan) - DrainCount) |-> chan[i + DrainCount]]
        PROVE  rest \in Seq(Logs) /\ Len(rest) = Len(chan) - DrainCount
    <2>1. Len(chan) - DrainCount \in Nat
      BY <1>1, <1>2
    <2>2. \A i \in 1..(Len(chan) - DrainCount) : i + DrainCount \in 1..Len(chan)
      BY <1>1, <1>2
    <2>3. rest \in [1..(Len(chan) - DrainCount) -> Logs]
      BY <1>4, <2>2, ElementOfSeq
    <2> QED
      BY <2>1, <2>3, FcnIsSeq
  <1> QED
    BY <1>2, <1>3, <1>4, FcnIsSeq

(* What recovery indexes is typed as an index.                               *)
LEMMA IndexOfType ==
  ASSUME NEW f \in Seq(Cell), NEW S \in SUBSET Nat,
         \A o \in S : ValidAt(f, o)
  PROVE  /\ DOMAIN IndexOf(f, S) \in SUBSET Logs
         /\ IndexOf(f, S) \in [DOMAIN IndexOf(f, S) -> Nat]
  <1>1. ASSUME NEW o \in S PROVE BatchAt(f, o)[1] \in Logs
    <2>1. o + 1 \in 1..Len(f)
      BY LenProperties DEF ValidAt
    <2>2. f[o + 1] \in Cell
      BY <2>1, ElementOfSeq
    <2>3. BatchAt(f, o) \in Seq(Logs) /\ BatchAt(f, o) # <<>>
      BY <2>2 DEF BatchAt, Cell, Batch, ValidAt
    <2> QED
      BY <2>3, EmptySeq, LenProperties, ElementOfSeq
  <1>2. DOMAIN IndexOf(f, S) = {BatchAt(f, o)[1] : o \in S}
    BY DEF IndexOf
  <1>3. ASSUME NEW t \in DOMAIN IndexOf(f, S) PROVE IndexOf(f, S)[t] \in Nat
    <2>1. \E o \in S : BatchAt(f, o)[1] = t
      BY <1>2
    <2>2. IndexOf(f, S)[t] = CHOOSE o \in S : BatchAt(f, o)[1] = t
      BY <1>2 DEF IndexOf
    <2>3. (CHOOSE o \in S : BatchAt(f, o)[1] = t) \in S
      BY <2>1
    <2> QED
      BY <2>2, <2>3
  <1>4. IndexOf(f, S) = [t \in DOMAIN IndexOf(f, S) |-> IndexOf(f, S)[t]]
    BY DEF IndexOf
  <1> QED
    BY <1>1, <1>2, <1>3, <1>4

(* Recovery visits offsets of the file and indexes the valid ones.           *)
LEMMA ScanTypes ==
  ASSUME NEW f \in Seq(Cell)
  PROVE  /\ ScanPositions(f) \subseteq 0..Len(f)
         /\ ScannedFrames(f) \subseteq Nat
         /\ \A o \in ScannedFrames(f) : ValidAt(f, o)
  <1>1. ScanPositions(f) \subseteq 0..Len(f)
    BY DEF ScanPositions
  <1> QED
    BY <1>1, LenProperties DEF ScannedFrames

-----------------------------------------------------------------------------
(* The types hold at the start.                                              *)
LEMMA TypeInit == Init => TypeInv
  <1> SUFFICES ASSUME Init PROVE TypeInv
    OBVIOUS
  <1>e. /\ <<>> \in Seq(Logs) /\ <<>> \in Seq(Cell)
        /\ <<>> \in Seq(Seq(Cell)) /\ Len(<<>>) = 0
    BY EmptySeq
  <1>1. QueueType
    <2>1. fate \in [Logs -> Fates]
      BY DEF Init, Fates
    <2> QED
      BY <1>e, <2>1, CapAssumption DEF Init, QueueType
  <1>2. FileType
    BY <1>e DEF Init, FileType
  <1>3. IndexType
    BY DEF Init, NoIndex, IndexType
  <1>4. ControlType
    <2>1. 0 \in 0..MaxFaults /\ 0 \in 0..MaxCrashes
      BY BoundAssumption
    <2>2. {} \in SUBSET Taints
      OBVIOUS
    <2> QED
      BY <2>1, <2>2 DEF Init, ControlType, WorkerStates
  <1>5. CursorInv
    BY <1>e DEF Init, CursorInv
  <1> QED
    BY <1>1, <1>2, <1>3, <1>4, <1>5 DEF TypeInv, TypeOK

(* Every step keeps the types and the descriptor inside the file.            *)
LEMMA TypeStep == TypeInv /\ [Next]_vars => TypeInv'
  <1> SUFFICES ASSUME QueueType, FileType, IndexType, ControlType, CursorInv, [Next]_vars
               PROVE  /\ QueueType' /\ FileType' /\ IndexType' /\ ControlType'
                      /\ CursorInv'
    BY DEF TypeInv, TypeOK
  <1> USE DEF data, seen, past
  <1>0. /\ Len(chan) \in Nat /\ Len(batch) \in Nat /\ Len(file) \in Nat
        /\ FrameLen(batch) \in Nat /\ FrameLen(batch) >= 2
        /\ Frame(batch) \in Seq(Cell) /\ Len(Frame(batch)) = FrameLen(batch)
    BY LenProperties, FrameIsSeq DEF QueueType, FileType, Batch
  <1>e. /\ <<>> \in Seq(Logs) /\ <<>> \in Seq(Cell)
        /\ Len(<<>>) = 0 /\ <<>> \in Seq(Seq(Cell))
    BY EmptySeq
  <1>f. ASSUME NEW S, NEW x \in Fates PROVE Settle(S, x) \in [Logs -> Fates]
    BY SettleType
  <1>q. UNCHANGED <<chan, batch, sent, fate>> => QueueType'
    BY DEF QueueType
  <1>d. UNCHANGED <<file, disk, cursor, segments>> => FileType'
    BY DEF FileType
  <1>i. UNCHANGED <<currentOffset, index>> => IndexType'
    BY DEF IndexType
  <1>c. /\ worker' \in WorkerStates
        /\ rotateAsked' \in BOOLEAN /\ held' \in BOOLEAN
        /\ UNCHANGED faults \/ (faults < MaxFaults /\ faults' = faults + 1)
        /\ UNCHANGED crashes \/ (crashes < MaxCrashes /\ crashes' = crashes + 1)
        /\ taint' \in SUBSET Taints
        => ControlType'
    BY BoundAssumption DEF ControlType
  <1>s. taint \in SUBSET Taints /\ taint \cup {"io"} \in SUBSET Taints
        /\ taint \cup {"restart"} \in SUBSET Taints /\ {} \in SUBSET Taints
    BY DEF ControlType, Taints
  <1> USE DEF WorkerStates
  <1>w. worker \in WorkerStates /\ rotateAsked \in BOOLEAN /\ held \in BOOLEAN
    BY DEF ControlType
  <1>1. ASSUME NEW l \in Logs, Append_(l)
        PROVE  QueueType' /\ FileType' /\ IndexType' /\ ControlType' /\ CursorInv'
    <2>1. fate' \in [Logs -> Fates]
      BY <1>1, <1>f DEF Append_, Fates
    <2>2. \A s \in Seq(Logs) : Append(s, l) \in Seq(Logs) /\ Len(Append(s, l)) = Len(s) + 1
      BY AppendProperties
    <2>3. /\ chan \in Seq(Logs) /\ sent \in Seq(Logs) /\ Len(chan) <= ChanCap
          /\ batch \in Seq(Logs) /\ Len(batch) <= BatchCap
      BY DEF QueueType
    <2>4. /\ \/ chan' = Append(chan, l) /\ Len(chan) < ChanCap /\ sent' = Append(sent, l)
             \/ UNCHANGED <<chan, sent>>
          /\ UNCHANGED batch
      BY <1>1 DEF Append_, HasRoom
    <2>5. chan' \in Seq(Logs) /\ Len(chan') <= ChanCap /\ sent' \in Seq(Logs)
      <3>1. CASE chan' = Append(chan, l) /\ Len(chan) < ChanCap /\ sent' = Append(sent, l)
        <4>1. Append(chan, l) \in Seq(Logs) /\ Append(sent, l) \in Seq(Logs)
              /\ Len(Append(chan, l)) = Len(chan) + 1
          BY <2>2, <2>3
        <4> QED
          BY <1>0, <3>1, <4>1, CapAssumption
      <3> QED
        BY <2>3, <2>4, <3>1
    <2>6. QueueType'
      BY <2>1, <2>3, <2>4, <2>5 DEF QueueType
    <2> QED
      BY <1>1, <1>d, <1>i, <2>6 DEF Append_, ControlType, CursorInv
  <1>2. CASE Drain
    <2>1. QueueType'
      <3>1. /\ batch' = NextBatch
            /\ chan' = [i \in 1..(Len(chan) - DrainCount) |-> chan[i + DrainCount]]
            /\ chan # <<>> /\ UNCHANGED <<fate, sent>>
        BY <1>2 DEF Drain, WorthDraining
      <3>2. chan \in Seq(Logs) /\ Len(chan) <= ChanCap
        BY DEF QueueType
      <3>3. /\ batch' \in Seq(Logs) /\ Len(batch') = DrainCount
            /\ chan' \in Seq(Logs) /\ Len(chan') = Len(chan) - DrainCount
            /\ DrainCount \in Nat /\ DrainCount <= BatchCap
        BY <3>1, <3>2, DrainSplits
      <3>4. Len(batch') <= BatchCap /\ Len(chan') <= ChanCap
        BY <1>0, <3>2, <3>3, CapAssumption
      <3> QED
        BY <3>1, <3>3, <3>4 DEF QueueType
    <2>2. batch' # <<>>
      BY <1>2, <1>e, DrainSplits DEF Drain, WorthDraining, QueueType
    <2> QED
      BY <1>2, <1>c, <1>d, <1>i, <1>s, <1>w, <2>1, <2>2 DEF Drain, CursorInv
  <1>3. CASE WriteFrame
    <2>1. file' \in Seq(Cell) /\ Len(file') >= cursor + FrameLen(batch)
      BY <1>0, <1>3, OverlayIsSeq DEF WriteFrame, FileType, CursorInv
    <2>2. FileType'
      BY <1>0, <1>3, <2>1 DEF WriteFrame, FileType
    <2> QED
      BY <1>3, <1>c, <1>i, <1>q, <1>s, <1>w, <2>1, <2>2 DEF WriteFrame, CursorInv
  <1>4. ASSUME NEW k \in 0..(FrameLen(batch) - 1), NEW torn \in BOOLEAN, WriteFails(k, torn)
        PROVE  QueueType' /\ FileType' /\ IndexType' /\ ControlType' /\ CursorInv'
    <2> DEFINE part == TornFrame(batch, k, torn)
    <2>1. part \in Seq(Cell) /\ Len(part) \in Nat
      BY <1>0, TornFrameIsSeq, LenProperties DEF QueueType, Batch
    <2> HIDE DEF part
    <2>2. file' = Overlay(file, cursor, part) /\ cursor' = cursor + Len(part)
      BY <1>4 DEF WriteFails, part
    <2>3. file' \in Seq(Cell) /\ Len(file') >= cursor + Len(part)
      BY <1>4, <2>1, <2>2, OverlayIsSeq DEF WriteFails, FileType, CursorInv
    <2>4. FileType'
      BY <1>4, <2>1, <2>2, <2>3 DEF WriteFails, FileType
    <2>5. fate' \in [Logs -> Fates]
      BY <1>4, <1>f DEF WriteFails, Fates
    <2>6. QueueType'
      BY <1>4, <1>e, <2>5, CapAssumption DEF WriteFails, QueueType
    <2>7. taint' \in SUBSET Taints
      BY <1>4, <1>s DEF WriteFails
    <2> QED
      BY <1>4, <1>c, <1>i, <1>w, <2>2, <2>3, <2>4, <2>6, <2>7 DEF WriteFails, CursorInv
  <1>5. CASE Sync
    <2>1. FileType'
      BY <1>5 DEF Sync, Barrier, FileType
    <2> QED
      BY <1>5, <1>c, <1>i, <1>q, <1>s, <1>w, <2>1 DEF Sync, Barrier, CursorInv
  <1>6. CASE SyncFails
    <2>1. fate' \in [Logs -> Fates]
      BY <1>6, <1>f DEF SyncFails, Fates
    <2>2. QueueType'
      BY <1>6, <1>e, <2>1, CapAssumption DEF SyncFails, QueueType
    <2> QED
      BY <1>6, <1>c, <1>d, <1>i, <1>s, <1>w, <2>2 DEF SyncFails, CursorInv
  <1>7. CASE Publish
    <2>1. fate' \in [Logs -> Fates]
      BY <1>7, <1>f DEF Publish, Fates
    <2>2. QueueType'
      BY <1>7, <1>e, <2>1, CapAssumption DEF Publish, QueueType
    <2>3. IndexType'
      <3>1. batch[1] \in Logs
        <4>1. 1 \in 1..Len(batch)
          BY <1>7, <1>0 DEF Publish, CursorInv
        <4> QED
          BY <4>1, ElementOfSeq DEF QueueType
      <3> QED
        BY <1>0, <1>7, <3>1 DEF Publish, Advance, IndexType
    <2> QED
      BY <1>7, <1>c, <1>d, <1>s, <1>w, <2>2, <2>3 DEF Publish, CursorInv
  <1>8. CASE FlushTick
    <2>1. FileType'
      BY <1>8 DEF FlushTick, FileType
    <2> QED
      BY <1>8, <1>c, <1>i, <1>q, <1>s, <1>w, <2>1 DEF FlushTick, CursorInv
  <1>9. CASE AskRotate
    BY <1>9, <1>c, <1>d, <1>i, <1>q, <1>s, <1>w DEF AskRotate, CursorInv
  <1>10. CASE RotateRename
    <2>1. fate' \in [Logs -> Fates]
      BY <1>10, <1>f DEF RotateRename, Fates
    <2>2. QueueType'
      BY <1>10, <2>1 DEF RotateRename, QueueType
    <2>3. segments' \in Seq(Seq(Cell))
      <3>1. segments \in Seq(Seq(Cell)) /\ file \in Seq(Cell)
        BY DEF FileType
      <3>2. Append(segments, file) \in Seq(Seq(Cell))
        BY <3>1, AppendProperties
      <3> QED
        BY <1>10, <3>2 DEF RotateRename
    <2>4. FileType'
      BY <1>10, <1>e, <2>3 DEF RotateRename, RenameAway, FileType
    <2> QED
      BY <1>10, <1>c, <1>i, <1>s, <1>w, <2>2, <2>4 DEF RotateRename, RenameAway, CursorInv
  <1>11. CASE RenameFails
    <2>1. FileType'
      BY <1>11 DEF RenameFails, FileType
    <2> QED
      BY <1>11, <1>c, <1>i, <1>q, <1>s, <1>w, <2>1 DEF RenameFails, CursorInv
  <1>12. CASE Reopen
    <2>1. FileType' /\ IndexType'
      BY <1>12 DEF Reopen, FileType, IndexType
    <2>2. held' \in BOOLEAN
      BY <1>12, Zenon DEF Reopen
    <2>3. ControlType'
      BY <1>12, <1>c, <1>s, <1>w, <2>2 DEF Reopen
    <2> QED
      BY <1>12, <1>0, <1>q, <2>1, <2>3 DEF Reopen, CursorInv
  <1>13. CASE OpenPanics
    <2>1. fate' \in [Logs -> Fates]
      BY <1>13, <1>f DEF OpenPanics, Fates
    <2>2. QueueType'
      BY <1>13, <1>e, <2>1, CapAssumption DEF OpenPanics, QueueType
    <2> QED
      BY <1>13, <1>c, <1>d, <1>i, <1>s, <1>w, <2>2 DEF OpenPanics, CursorInv
  <1>14. CASE ClearIndex
    <2>1. IndexType'
      BY <1>14 DEF ClearIndex, NoIndex, IndexType
    <2> QED
      BY <1>14, <1>c, <1>d, <1>q, <1>s, <1>w, <2>1 DEF ClearIndex, CursorInv
  <1>15. CASE Crash
    <2>1. fate' \in [Logs -> Fates]
      BY <1>15, <1>f DEF Crash, Fates
    <2>2. QueueType'
      <3>1. chan' = <<>> /\ batch' = <<>> /\ UNCHANGED sent
        BY <1>15 DEF Crash
      <3> QED
        BY <3>1, <1>e, <2>1, CapAssumption DEF QueueType
    <2>3. FileType'
      BY <1>15, CrashImageIsSeq DEF Crash, FileType
    <2> QED
      BY <1>15, <1>c, <1>i, <1>s, <1>w, <2>2, <2>3 DEF Crash, CursorInv
  <1>16. CASE Restart
    <2>1. fate' \in [Logs -> Fates]
      BY <1>16, <1>f DEF Restart, Fates
    <2>2. PICK end \in ScanPositions(file) :
            /\ currentOffset' = end
            /\ index' = IndexOf(file, {o \in ScannedFrames(file) : o < end})
            /\ \/ /\ file' = [i \in 1..end |-> file[i]]
                  /\ disk' = file'
                  /\ UNCHANGED faults
               \/ /\ end < Len(file)
                  /\ faults < MaxFaults
                  /\ faults' = faults + 1
                  /\ UNCHANGED <<file, disk>>
      BY <1>16 DEF Restart
    <2>3. end \in 0..Len(file)
      BY ScanTypes DEF FileType
    <2>4. IndexType'
      <3>1. ScannedFrames(file) \subseteq Nat /\ \A o \in ScannedFrames(file) : ValidAt(file, o)
        BY ScanTypes DEF FileType
      <3>2. {o \in ScannedFrames(file) : o < end} \in SUBSET Nat
        BY <3>1
      <3> DEFINE S == {o \in ScannedFrames(file) : o < end}
      <3>3. /\ DOMAIN IndexOf(file, S) \in SUBSET Logs
            /\ IndexOf(file, S) \in [DOMAIN IndexOf(file, S) -> Nat]
        BY <3>1, <3>2, IndexOfType DEF FileType
      <3>4. currentOffset' \in Nat
        BY <1>0, <2>2, <2>3
      <3> QED
        BY <2>2, <3>3, <3>4 DEF IndexType
    <2>5. file' \in Seq(Cell) /\ disk' \in Seq(Cell)
      <3>1. CASE file' = [i \in 1..end |-> file[i]] /\ disk' = file'
        <4>1. \A i \in 1..end : i \in 1..Len(file)
          BY <1>0, <2>3
        <4>2. file' \in [1..end -> Cell]
          BY <3>1, <4>1, ElementOfSeq DEF FileType
        <4> QED
          BY <2>3, <3>1, <4>2, FcnIsSeq
      <3>2. CASE UNCHANGED <<file, disk>>
        BY <3>2 DEF FileType
      <3> QED
        BY <2>2, <3>1, <3>2
    <2>6. Len(file') \in Nat
      BY <2>5, LenProperties
    <2>7. QueueType'
      BY <1>16, <2>1 DEF Restart, QueueType
    <2>8. FileType'
      BY <1>16, <2>5 DEF Restart, FileType
    <2>9. ControlType'
      <3>1. taint' \in SUBSET Taints
        BY <1>16, <1>s DEF Restart
      <3> QED
        BY <1>16, <1>c, <1>w, <2>2, <3>1 DEF Restart
    <2>10. CursorInv'
      BY <1>16, <2>6 DEF Restart, CursorInv
    <2> QED
      BY <2>4, <2>7, <2>8, <2>9, <2>10
  <1>17. ASSUME NEW k \in 0..(FrameLen(batch) - 1), NEW torn \in BOOLEAN,
                WriteFailsLate(k, torn)
         PROVE  QueueType' /\ FileType' /\ IndexType' /\ ControlType' /\ CursorInv'
    <2> DEFINE part == TornFrame(batch, k, torn)
    <2>1. part \in Seq(Cell) /\ Len(part) \in Nat
      BY <1>0, TornFrameIsSeq, LenProperties DEF QueueType, Batch
    <2> HIDE DEF part
    <2>2. file' = Overlay(file, cursor, part) /\ cursor' = cursor + Len(part)
      BY <1>17 DEF WriteFailsLate, part
    <2>3. file' \in Seq(Cell) /\ Len(file') >= cursor + Len(part)
      BY <1>17, <2>1, <2>2, OverlayIsSeq DEF WriteFailsLate, FileType, CursorInv
    <2>4. FileType'
      BY <1>17, <2>1, <2>2, <2>3 DEF WriteFailsLate, FileType
    <2> QED
      BY <1>17, <1>c, <1>i, <1>q, <1>s, <1>w, <2>2, <2>3, <2>4 DEF WriteFailsLate, CursorInv
  <1>18. CASE ReportHeld
    <2>1. fate' \in [Logs -> Fates]
      BY <1>18, <1>f DEF ReportHeld, Fates
    <2>2. QueueType'
      BY <1>18, <1>e, <2>1, CapAssumption DEF ReportHeld, QueueType
    <2> QED
      BY <1>18, <1>c, <1>d, <1>i, <1>s, <1>w, <2>2 DEF ReportHeld, CursorInv
  <1>19. CASE Open
    <2>1. FileType'
      BY <1>19 DEF Open, FileType
    <2>2. held' \in BOOLEAN
      BY <1>19, Zenon DEF Open
    <2>3. ControlType'
      BY <1>19, <1>c, <1>s, <1>w, <2>2 DEF Open
    <2> QED
      BY <1>19, <1>0, <1>i, <1>q, <2>1, <2>3 DEF Open, CursorInv
  <1>20. CASE UNCHANGED vars
    BY <1>20, <1>q, <1>d, <1>i DEF vars, ControlType, CursorInv
  <1> QED
    BY <1>1, <1>2, <1>3, <1>4, <1>5, <1>6, <1>7, <1>8, <1>9, <1>10, <1>11,
       <1>12, <1>13, <1>14, <1>15, <1>16, <1>17, <1>18, <1>19, <1>20
       DEF Next, Rotate, WriteBatchToDisk

(* The channel and the batch stay within their capacities, and every part of *)
(* the engine's state keeps its type, whatever fails or crashes.             *)
THEOREM TypeCorrect == Spec => []TypeOK
  <1>1. TypeInv => TypeOK
    BY DEF TypeInv
  <1> QED
    BY <1>1, TypeInit, TypeStep, PTL DEF Spec

-----------------------------------------------------------------------------
(* What settling does to one log.                                            *)
LEMMA SettleValue ==
  ASSUME QueueType, NEW S, NEW x, NEW l \in Logs
  PROVE  Settle(S, x)[l] = IF l \in S THEN x ELSE fate[l]
  BY DEF Settle

(* The elements of the channel and of the batch are logs.                    *)
LEMMA QueueElements ==
  ASSUME QueueType
  PROVE  /\ Len(chan) \in Nat /\ Len(batch) \in Nat
         /\ \A i \in 1..Len(chan) : chan[i] \in Logs
         /\ \A i \in 1..Len(batch) : batch[i] \in Logs
  BY LenProperties, ElementOfSeq DEF QueueType

(* A log that waits is neither published nor waiting a second time.          *)
LEMMA QueueStep == TypeInv /\ QueueInv /\ [Next]_vars => QueueInv'
  <1> SUFFICES ASSUME QueueType, CursorInv, QueueInv, [Next]_vars PROVE QueueInv'
    BY DEF TypeInv, TypeOK
  <1> USE DEF data, seen, past
  <1>0. /\ Len(chan) \in Nat /\ Len(batch) \in Nat /\ chan \in Seq(Logs)
        /\ \A i \in 1..Len(chan) : chan[i] \in Logs
        /\ \A i \in 1..Len(batch) : batch[i] \in Logs
    BY QueueElements DEF QueueType
  <1>e. Len(<<>>) = 0
    BY EmptySeq
  <1>u. UNCHANGED <<chan, batch, fate>> /\ worker' \notin {"down", "dead"} => QueueInv'
    BY DEF QueueInv
  \* The batch is given up or published; what is in the channel still waits.
  <1>b. ASSUME UNCHANGED chan, batch' = <<>>, NEW x, fate' = Settle(Set(batch), x),
               worker' \notin {"down", "dead"}
        PROVE  QueueInv'
    <2>1. ASSUME NEW i \in 1..Len(chan) PROVE fate'[chan[i]] = "sent"
      <3>1. chan[i] \notin Set(batch)
        BY DEF Set, QueueInv
      <3> QED
        BY <1>0, <1>b, <3>1, SettleValue DEF QueueInv
    <2> QED
      BY <1>b, <1>e, <2>1 DEF QueueInv
  <1>n. chan' = <<>> /\ batch' = <<>> => QueueInv'
    BY <1>e DEF QueueInv
  <1>1. ASSUME NEW l \in Logs, Append_(l) PROVE QueueInv'
    <2>1. CASE worker = "dead"
      <3>1. chan = <<>> /\ batch = <<>>
        BY <2>1 DEF QueueInv, CursorInv
      <3> QED
        BY <1>1, <1>n, <2>1, <3>1 DEF Append_
    <2>2. CASE worker # "dead"
      <3>1. /\ fate[l] = "new" /\ chan' = Append(chan, l) /\ fate' = Settle({l}, "sent")
            /\ UNCHANGED <<batch, worker>> /\ worker # "down"
        BY <1>1, <2>2 DEF Append_
      <3>2. /\ Len(chan') = Len(chan) + 1
            /\ \A i \in 1..Len(chan) : chan'[i] = chan[i]
            /\ chan'[Len(chan) + 1] = l
        BY <1>0, <3>1, AppendProperties
      <3>3. \A x \in Logs : fate'[x] = IF x = l THEN "sent" ELSE fate[x]
        BY <3>1, SettleValue
      <3>4. \A i \in 1..Len(chan') : i \in 1..Len(chan) \/ i = Len(chan) + 1
        BY <1>0, <3>2
      <3>5. \A i \in 1..Len(chan) : chan[i] # l
        BY <3>1 DEF QueueInv
      <3>6. \A i \in 1..Len(batch) : batch[i] # l
        BY <3>1 DEF QueueInv
      <3>7. \A i \in 1..Len(chan') : fate'[chan'[i]] = "sent"
        BY <1>0, <3>2, <3>3, <3>4 DEF QueueInv
      <3>8. \A i \in 1..Len(batch) : fate'[batch[i]] = "sent"
        BY <1>0, <3>3, <3>6 DEF QueueInv
      <3>9. \A i, j \in 1..Len(chan') : i # j => chan'[i] # chan'[j]
        BY <3>2, <3>4, <3>5 DEF QueueInv
      <3>10. \A i \in 1..Len(chan'), j \in 1..Len(batch) : chan'[i] # batch[j]
        BY <3>2, <3>4, <3>6 DEF QueueInv
      <3> QED
        BY <2>2, <3>1, <3>7, <3>8, <3>9, <3>10 DEF QueueInv
    <2> QED
      BY <2>1, <2>2
  <1>2. CASE Drain
    <2>1. /\ batch' = NextBatch
          /\ chan' = [i \in 1..(Len(chan) - DrainCount) |-> chan[i + DrainCount]]
          /\ chan # <<>> /\ UNCHANGED fate /\ worker' = "drained"
      BY <1>2 DEF Drain, WorthDraining
    <2>2. /\ DrainCount \in Nat /\ DrainCount <= Len(chan)
          /\ Len(batch') = DrainCount /\ Len(chan') = Len(chan) - DrainCount
      BY <1>0, <2>1, DrainSplits
    <2>3. /\ \A i \in 1..Len(batch') : i \in 1..Len(chan) /\ batch'[i] = chan[i]
          /\ \A i \in 1..Len(chan') : i + DrainCount \in 1..Len(chan)
                                      /\ chan'[i] = chan[i + DrainCount]
      <3>1. \A i \in 1..DrainCount : i \in 1..Len(chan)
        BY <1>0, <2>2
      <3>2. \A i \in 1..(Len(chan) - DrainCount) : i + DrainCount \in 1..Len(chan)
        BY <1>0, <2>2
      <3> QED
        BY <2>1, <2>2, <3>1, <3>2 DEF NextBatch
    <2>4. \A i \in 1..Len(chan'), j \in 1..Len(batch') : chan'[i] # batch'[j]
      <3>1. \A i \in 1..Len(chan'), j \in 1..Len(batch') : i + DrainCount # j
        BY <1>0, <2>2
      <3> QED
        BY <2>3, <3>1 DEF QueueInv
    <2>5. \A i, j \in 1..Len(chan') : i # j => chan'[i] # chan'[j]
      <3>1. \A i, j \in 1..Len(chan') : i # j => i + DrainCount # j + DrainCount
        BY <1>0, <2>2
      <3> QED
        BY <2>3, <3>1 DEF QueueInv
    <2>6. /\ \A i \in 1..Len(chan') : fate'[chan'[i]] = "sent"
          /\ \A i \in 1..Len(batch') : fate'[batch'[i]] = "sent"
      <3>1. fate' = fate
        BY <2>1
      <3> QED
        BY <2>3, <3>1 DEF QueueInv
    <2>7. worker' \notin {"down", "dead"}
      BY <2>1
    <2> QED
      BY <2>4, <2>5, <2>6, <2>7 DEF QueueInv
  <1>3. CASE \/ WriteFrame \/ Sync \/ FlushTick \/ AskRotate \/ RenameFails
             \/ Reopen \/ ClearIndex \/ Open
    BY <1>3, <1>u DEF WriteFrame, Sync, FlushTick, AskRotate, RenameFails, Reopen,
                      ClearIndex, Open
  <1>4. ASSUME NEW k \in 0..(FrameLen(batch) - 1), NEW torn \in BOOLEAN, WriteFails(k, torn)
        PROVE  QueueInv'
    BY <1>4, <1>b DEF WriteFails
  <1>5. CASE SyncFails
    BY <1>5, <1>b DEF SyncFails
  <1>6. CASE Publish
    BY <1>6, <1>b DEF Publish
  <1>7. CASE RotateRename
    <2>1. \A x \in Logs : fate[x] = "sent" => fate'[x] = "sent"
      BY <1>7, SettleValue DEF RotateRename
    <2> QED
      BY <1>0, <1>7, <2>1 DEF RotateRename, QueueInv
  <1>8. CASE OpenPanics
    BY <1>8, <1>n DEF OpenPanics, CursorInv
  <1>9. CASE Crash
    BY <1>9, <1>n DEF Crash
  <1>10. CASE Restart
    BY <1>10, <1>n DEF Restart, CursorInv, QueueInv
  <1>11. ASSUME NEW k \in 0..(FrameLen(batch) - 1), NEW torn \in BOOLEAN,
                WriteFailsLate(k, torn)
         PROVE  QueueInv'
    BY <1>11, <1>u DEF WriteFailsLate
  <1>12. CASE ReportHeld
    BY <1>12, <1>b DEF ReportHeld
  <1>13. CASE UNCHANGED vars
    BY <1>13 DEF vars, QueueInv
  <1> QED
    BY <1>1, <1>2, <1>3, <1>4, <1>5, <1>6, <1>7, <1>8, <1>9, <1>10, <1>11, <1>12, <1>13
       DEF Next, Rotate, WriteBatchToDisk

-----------------------------------------------------------------------------
(* Each step keeps the index, the file and the device in agreement, as long  *)
(* as it leaves the file untainted.                                          *)
LEMMA IndexStep ==
  IInv /\ [Next]_vars /\ Settled' /\ taint' = {} => IndexInv' /\ FrameInv'
  <1> SUFFICES ASSUME QueueType, FileType, IndexType, TypeInv', CursorInv, QueueInv,
                      Settled /\ taint = {} => IndexInv /\ FrameInv,
                      [Next]_vars, Settled', taint' = {}
               PROVE  IndexInv' /\ FrameInv'
    BY TypeStep DEF IInv, TypeInv, TypeOK
  <1> USE DEF data, seen, past
  <1>0. /\ file \in Seq(Cell) /\ disk \in Seq(Cell) /\ file' \in Seq(Cell)
        /\ cursor \in Nat /\ currentOffset \in Nat /\ batch \in Batch
        /\ \A t \in DOMAIN index : t \in Logs /\ index[t] \in Nat
    BY DEF FileType, IndexType, QueueType, Batch, TypeInv, TypeOK
  <1>1. /\ Frame(batch) \in Seq(Cell)
        /\ FrameLen(batch) \in Nat /\ FrameLen(batch) >= 2
    BY <1>0, FrameIsSeq
  \* Frames kept on both sides are entries kept.
  <1>k. ASSUME IndexInv, UNCHANGED <<index, currentOffset>>,
               \A t \in DOMAIN index :
                 /\ HoldsFrame(file', index[t], BatchAt(file, index[t]))
                 /\ HoldsFrame(disk', index[t], BatchAt(file, index[t]))
                 /\ fate'[t] = "published"
        PROVE  IndexInv'
    <2>1. ASSUME NEW t \in DOMAIN index
          PROVE  /\ HoldsEntry(file, t)' /\ HoldsEntry(disk, t)'
                 /\ (NextFrame(file, index[t]) <= currentOffset)'
                 /\ ChainAt(t)' /\ fate'[t] = "published"
      <3> DEFINE b == BatchAt(file, index[t])
      <3>1. b \in Batch /\ b # <<>> /\ b[1] = t
        BY <1>k DEF IndexInv, HoldsEntry
      <3>2. BatchAt(file', index[t]) = b
        BY <1>0, <1>k, <3>1, HeldFrameIsValid
      <3>3. NextFrame(file', index[t]) = NextFrame(file, index[t])
        BY <3>2 DEF NextFrame
      <3>4. NextFrame(file, index[t]) <= currentOffset /\ ChainAt(t)
        BY <1>k DEF IndexInv
      <3>5. HoldsEntry(file, t)' /\ HoldsEntry(disk, t)'
        BY <1>k, <3>1, <3>2 DEF HoldsEntry
      <3>6. ChainAt(t)'
        BY <1>k, <3>3, <3>4 DEF ChainAt
      <3> QED
        BY <1>k, <3>3, <3>4, <3>5, <3>6
    <2> QED
      BY <1>k, <2>1 DEF IndexInv
  \* The device catches up with the page cache.
  <1>d. ASSUME IndexInv, UNCHANGED <<file, index, currentOffset, fate>>, disk' = file
        PROVE  IndexInv'
    BY <1>d, <1>k DEF IndexInv, HoldsEntry
  \* Cells overlaid at current_offset touch no entry.
  <1>o. ASSUME IndexInv, UNCHANGED <<disk, index, currentOffset>>,
               cursor = currentOffset, cursor <= Len(file),
               NEW part \in Seq(Cell), file' = Overlay(file, cursor, part),
               \A t \in DOMAIN index : fate'[t] = "published"
        PROVE  IndexInv'
    <2>1. ASSUME NEW t \in DOMAIN index
          PROVE  /\ HoldsFrame(file', index[t], BatchAt(file, index[t]))
                 /\ HoldsFrame(disk', index[t], BatchAt(file, index[t]))
      <3>1. /\ BatchAt(file, index[t]) \in Batch
            /\ HoldsFrame(file, index[t], BatchAt(file, index[t]))
            /\ HoldsFrame(disk, index[t], BatchAt(file, index[t]))
        BY <1>o DEF IndexInv, HoldsEntry
      <3>2. index[t] + FrameLen(BatchAt(file, index[t])) <= cursor
        BY <1>o DEF IndexInv, NextFrame
      <3> QED
        BY <1>0, <1>o, <3>1, <3>2, OverlayKeepsFrame
    <2> QED
      BY <1>k, <1>o, <2>1
  \* The logs of the batch and of the channel are not in the index.
  <1>p. ASSUME IndexInv, NEW t \in DOMAIN index
        PROVE  t \notin Set(batch) /\ \A x : Settle(Set(batch), x)[t] = "published"
    <2>1. t \in Logs /\ fate[t] = "published"
      BY <1>0, <1>p DEF IndexInv
    <2>2. t \notin Set(batch)
      BY <2>1 DEF Set, QueueInv
    <2> QED
      BY <2>1, <2>2, SettleValue
  <1>2. ASSUME NEW l \in Logs, Append_(l) PROVE IndexInv' /\ FrameInv'
    <2>1. /\ UNCHANGED <<worker, batch, file, disk, cursor, currentOffset, index, taint>>
          /\ worker \notin {"down", "dead"}
      BY <1>2 DEF Append_, Settled
    <2>2. IndexInv /\ FrameInv
      BY <2>1 DEF Settled
    <2>3. \A t \in DOMAIN index : fate'[t] = "published"
      <3>1. \A t \in DOMAIN index : t \in Logs /\ fate[t] = "published"
        BY <1>0, <2>2 DEF IndexInv
      <3>2. fate[l] = "new" /\ \E x : fate' = Settle({l}, x)
        BY <1>2 DEF Append_
      <3> QED
        BY <3>1, <3>2, SettleValue
    <2>4. IndexInv'
      BY <1>k, <2>1, <2>2, <2>3 DEF IndexInv, HoldsEntry
    <2> QED
      BY <2>1, <2>2, <2>4 DEF FrameInv
  <1>3. CASE Drain
    <2>1. /\ UNCHANGED <<file, disk, cursor, currentOffset, index, taint, fate>>
          /\ worker = "idle" /\ worker' = "drained"
      BY <1>3 DEF Drain
    <2>2. IndexInv /\ FrameInv
      BY <2>1 DEF Settled
    <2>3. IndexInv'
      BY <1>k, <2>1, <2>2 DEF IndexInv, HoldsEntry
    <2> QED
      BY <2>1, <2>2, <2>3 DEF FrameInv
  <1>4. CASE WriteFrame
    <2>1. /\ file' = Overlay(file, cursor, Frame(batch))
          /\ cursor' = cursor + FrameLen(batch)
          /\ UNCHANGED <<disk, currentOffset, index, taint, fate, batch>>
          /\ worker = "drained" /\ worker' = "written"
      BY <1>4 DEF WriteFrame
    <2>2. IndexInv /\ FrameInv
      BY <2>1 DEF Settled
    <2>3. cursor = currentOffset /\ cursor <= Len(file)
      BY <2>1, <2>2 DEF FrameInv, CursorInv
    <2>4. IndexInv'
      BY <1>1, <1>o, <2>1, <2>2, <2>3 DEF IndexInv
    <2>5. HoldsFrame(file', currentOffset, batch)
      BY <1>0, <2>1, <2>3, OverlayPutsFrame
    <2> QED
      BY <2>1, <2>3, <2>4, <2>5 DEF FrameInv
  <1>5. ASSUME NEW k \in 0..(FrameLen(batch) - 1), NEW torn \in BOOLEAN, WriteFails(k, torn)
        PROVE  IndexInv' /\ FrameInv'
    <2> DEFINE part == TornFrame(batch, k, torn)
    <2>0. part \in Seq(Cell)
      BY <1>0, <1>1, TornFrameIsSeq
    <2>1. /\ file' = Overlay(file, cursor, part) /\ cursor' = cursor + Len(part)
          /\ fate' = Settle(Set(batch), "dropped")
          /\ UNCHANGED <<disk, currentOffset, index>>
          /\ worker = "drained" /\ worker' = "idle"
          /\ taint = {} /\ Len(part) = 0
      BY <1>5 DEF WriteFails
    <2> HIDE DEF part
    <2>2. IndexInv /\ FrameInv
      BY <2>1 DEF Settled
    <2>3. cursor = currentOffset /\ cursor <= Len(file)
      BY <2>1, <2>2 DEF FrameInv, CursorInv
    <2>4. IndexInv'
      BY <1>o, <1>p, <2>0, <2>1, <2>2, <2>3
    <2>5. cursor' = currentOffset'
      BY <1>0, <2>1, <2>3
    <2> QED
      BY <2>1, <2>4, <2>5 DEF FrameInv
  <1>6. CASE Sync
    <2>1. /\ disk' = file /\ UNCHANGED <<file, cursor, currentOffset, index, taint, fate, batch>>
          /\ worker = "written" /\ worker' = "synced"
      BY <1>6 DEF Sync, Barrier
    <2>2. IndexInv /\ FrameInv
      BY <2>1 DEF Settled
    <2>3. IndexInv'
      BY <1>d, <2>1, <2>2
    <2> QED
      BY <2>1, <2>2, <2>3 DEF FrameInv
  <1>7. CASE SyncFails
    BY <1>7 DEF SyncFails
  <1>8. CASE Publish
    <2> DEFINE first == batch[1]
    <2>1. /\ index' = [t \in DOMAIN index \cup {first} |->
                         IF t = first THEN currentOffset ELSE index[t]]
          /\ currentOffset' = currentOffset + FrameLen(batch)
          /\ fate' = Settle(Set(batch), "published")
          /\ UNCHANGED <<file, disk, cursor, taint>>
          /\ worker = "synced" /\ worker' = "idle"
      BY <1>8 DEF Publish, Advance
    <2>2. IndexInv /\ FrameInv
      BY <2>1 DEF Settled
    <2>3. batch # <<>> /\ first \in Set(batch) /\ first \in Logs
      <3>1. batch # <<>>
        BY <2>1 DEF CursorInv
      <3>2. 1 \in 1..Len(batch)
        BY <1>0, <3>1, EmptySeq, LenProperties DEF Batch
      <3> QED
        BY <1>0, <3>1, <3>2, ElementOfSeq DEF Set, Batch
    <2>4. /\ HoldsFrame(file, currentOffset, batch)
          /\ HoldsFrame(disk, currentOffset, batch)
          /\ cursor = currentOffset + FrameLen(batch)
      BY <2>1, <2>2 DEF FrameInv
    <2>5. /\ BatchAt(file, currentOffset) = batch
          /\ NextFrame(file, currentOffset) = currentOffset + FrameLen(batch)
      BY <1>0, <2>3, <2>4, HeldFrameIsValid
    <2>6. \A t \in DOMAIN index : t # first /\ index'[t] = index[t]
      <3>1. \A t \in DOMAIN index : t # first
        BY <1>p, <2>2, <2>3
      <3> QED
        BY <2>1, <3>1
    <2>7. /\ DOMAIN index' = DOMAIN index \cup {first}
          /\ index'[first] = currentOffset
      BY <2>1
    <2> HIDE DEF first
    <2>8. (currentOffset = 0 \/ \E t \in DOMAIN index : index[t] = 0)'
      BY <2>2, <2>6, <2>7 DEF IndexInv
    <2>9. ASSUME NEW t \in DOMAIN index'
          PROVE  /\ HoldsEntry(file, t)' /\ HoldsEntry(disk, t)'
                 /\ (NextFrame(file, index[t]) <= currentOffset)'
                 /\ ChainAt(t)' /\ fate'[t] = "published"
      <3>1. CASE t = first
        <4>1. HoldsEntry(file, t)' /\ HoldsEntry(disk, t)'
          BY <1>0, <2>1, <2>3, <2>4, <2>5, <2>7, <3>1 DEF HoldsEntry, first
        <4>2. NextFrame(file', index'[t]) = currentOffset'
          BY <2>1, <2>5, <2>7, <3>1
        <4>3. currentOffset' \in Nat
          BY <1>0, <1>1, <2>1
        <4>4. fate'[t] = "published"
          BY <2>1, <2>3, <3>1, SettleValue
        <4> QED
          BY <4>1, <4>2, <4>3, <4>4 DEF ChainAt
      <3>2. CASE t # first
        <4>1. t \in DOMAIN index /\ index'[t] = index[t]
          BY <2>6, <2>7, <3>2
        <4>2. /\ HoldsEntry(file, t) /\ HoldsEntry(disk, t)
              /\ NextFrame(file, index[t]) <= currentOffset
              /\ ChainAt(t)
          BY <2>2, <4>1 DEF IndexInv
        <4>3. HoldsEntry(file, t)' /\ HoldsEntry(disk, t)'
          BY <2>1, <4>1, <4>2 DEF HoldsEntry
        <4>4. NextFrame(file', index'[t]) = NextFrame(file, index[t])
          BY <2>1, <4>1
        <4>5. NextFrame(file, index[t]) \in Nat
          BY <1>0, <4>1, <4>2, FrameIsSeq DEF NextFrame, HoldsEntry
        <4>6. (NextFrame(file, index[t]) <= currentOffset)'
          BY <1>0, <1>1, <2>1, <4>2, <4>4, <4>5
        <4>7. ChainAt(t)'
          BY <2>6, <2>7, <4>2, <4>4 DEF ChainAt
        <4>8. fate'[t] = "published"
          BY <1>p, <2>1, <2>2, <4>1
        <4> QED
          BY <4>3, <4>6, <4>7, <4>8
      <3> QED
        BY <3>1, <3>2
    <2>10. IndexInv'
      BY <2>8, <2>9 DEF IndexInv
    <2> QED
      BY <2>1, <2>4, <2>10 DEF FrameInv
  <1>9. CASE FlushTick
    <2>1. /\ disk' = file /\ UNCHANGED <<file, cursor, currentOffset, index, taint, fate>>
          /\ worker = "idle" /\ worker' = "idle"
      BY <1>9 DEF FlushTick
    <2>2. IndexInv /\ FrameInv
      BY <2>1 DEF Settled
    <2>3. IndexInv'
      BY <1>d, <2>1, <2>2
    <2> QED
      BY <2>1, <2>2, <2>3 DEF FrameInv
  <1>10. CASE AskRotate
    <2>1. UNCHANGED <<worker, batch, file, disk, cursor, currentOffset, index, taint, fate>>
      BY <1>10 DEF AskRotate
    <2>2. IndexInv /\ FrameInv
      BY <2>1 DEF Settled
    <2>3. IndexInv'
      BY <1>k, <2>1, <2>2 DEF IndexInv, HoldsEntry
    <2> QED
      BY <2>1, <2>2, <2>3 DEF FrameInv
  <1>11. CASE RotateRename \/ OpenPanics \/ Reopen \/ Crash
    BY <1>11 DEF RotateRename, Reopen, OpenPanics, Crash, Settled
  <1>12. CASE RenameFails
    <2>1. /\ disk' = file /\ UNCHANGED <<file, cursor, currentOffset, index, taint, fate>>
          /\ worker = "idle" /\ worker' = "idle"
      BY <1>12 DEF RenameFails
    <2>2. IndexInv /\ FrameInv
      BY <2>1 DEF Settled
    <2>3. IndexInv'
      BY <1>d, <2>1, <2>2
    <2> QED
      BY <2>1, <2>2, <2>3 DEF FrameInv
  <1>13. CASE ClearIndex
    <2>1. /\ DOMAIN index' = {} /\ worker' = "idle"
          /\ cursor' = 0 /\ currentOffset' = 0
      BY <1>13 DEF ClearIndex, NoIndex, CursorInv
    <2> QED
      BY <2>1 DEF IndexInv, FrameInv
  <1>14. CASE Restart
    <2>1. PICK end \in ScanPositions(file) :
            /\ currentOffset' = end
            /\ index' = IndexOf(file, {o \in ScannedFrames(file) : o < end})
            /\ \/ file' = [i \in 1..end |-> file[i]]
               \/ end < Len(file) /\ UNCHANGED file
      BY <1>14 DEF Restart
    <2>2. file' = <<>> /\ worker' = "opening"
      <3>1. taint \cup {"restart"} # {}
        OBVIOUS
      <3> QED
        BY <1>14, <3>1 DEF Restart
    <2>3. end \in 0..Len(file) /\ Len(file) \in Nat /\ Len(file') = 0
      BY <1>0, <2>2, ScanTypes, EmptySeq, LenProperties
    <2>4. end = 0
      <3>1. CASE file' = [i \in 1..end |-> file[i]]
        <4>1. DOMAIN file' = 1..end /\ DOMAIN file' = 1..Len(file')
          BY <1>0, <3>1, LenProperties
        <4> QED
          BY <2>3, <4>1
      <3>2. CASE end < Len(file) /\ UNCHANGED file
        BY <2>3, <3>2
      <3> QED
        BY <2>1, <3>1, <3>2
    <2>5. DOMAIN index' = {}
      <3>1. ScannedFrames(file) \subseteq Nat
        BY <1>0, ScanTypes
      <3>2. {o \in ScannedFrames(file) : o < end} = {}
        BY <2>4, <3>1
      <3> QED
        BY <2>1, <3>2 DEF IndexOf
    <2> QED
      BY <2>1, <2>2, <2>4, <2>5 DEF IndexInv, FrameInv
  <1>15. ASSUME NEW k \in 0..(FrameLen(batch) - 1), NEW torn \in BOOLEAN,
                WriteFailsLate(k, torn)
         PROVE  IndexInv' /\ FrameInv'
    BY <1>15 DEF WriteFailsLate
  <1>16. CASE ReportHeld
    <2>1. /\ UNCHANGED <<file, disk, cursor, currentOffset, index, taint>>
          /\ fate' = Settle(Set(batch), "dropped")
          /\ worker = "drained" /\ worker' = "idle"
      BY <1>16 DEF ReportHeld
    <2>2. IndexInv /\ FrameInv
      BY <2>1 DEF Settled
    <2>3. \A t \in DOMAIN index : fate'[t] = "published"
      BY <1>p, <2>1, <2>2
    <2>4. IndexInv'
      BY <1>k, <2>1, <2>2, <2>3 DEF IndexInv, HoldsEntry
    <2> QED
      BY <2>1, <2>2, <2>4 DEF FrameInv
  <1>17. CASE Open
    <2>1. /\ UNCHANGED <<file, disk, currentOffset, index, taint, fate>>
          /\ worker = "opening" /\ worker' = "idle" /\ cursor' = 0
      BY <1>17 DEF Open
    <2>2. IndexInv /\ FrameInv
      BY <2>1 DEF Settled
    <2>3. IndexInv'
      BY <1>k, <2>1, <2>2 DEF IndexInv, HoldsEntry
    <2> QED
      BY <2>1, <2>2, <2>3 DEF FrameInv
  <1>18. CASE UNCHANGED vars
    <2>1. UNCHANGED <<worker, batch, file, disk, cursor, currentOffset, index, taint, fate>>
      BY <1>18 DEF vars
    <2>2. IndexInv /\ FrameInv
      BY <2>1 DEF Settled
    <2>3. IndexInv'
      BY <1>k, <2>1, <2>2 DEF IndexInv, HoldsEntry
    <2> QED
      BY <2>1, <2>2, <2>3 DEF FrameInv
  <1> QED
    BY <1>2, <1>3, <1>4, <1>5, <1>6, <1>7, <1>8, <1>9, <1>10, <1>11, <1>12,
       <1>13, <1>14, <1>15, <1>16, <1>17, <1>18
       DEF Next, Rotate, WriteBatchToDisk

-----------------------------------------------------------------------------
(* The invariant holds at the start and is kept by every step.               *)
LEMMA InvInit == Init => IInv
  <1> SUFFICES ASSUME Init PROVE IInv
    OBVIOUS
  <1>1. TypeInv
    BY TypeInit
  <1>2. QueueInv
    BY EmptySeq DEF Init, QueueInv
  <1>3. IndexInv /\ FrameInv
    BY DEF Init, NoIndex, IndexInv, FrameInv
  <1> QED
    BY <1>1, <1>2, <1>3 DEF IInv

LEMMA InvStep == IInv /\ [Next]_vars => IInv'
  BY TypeStep, QueueStep, IndexStep DEF IInv

(* What the invariant says of the files a crash may leave.                   *)
LEMMA InvSurvivesCrash == IInv => IndexSurvivesCrash
  <1> SUFFICES ASSUME TypeInv, IndexInv, NEW image \in CrashImages(file, disk)
               PROVE  IndexScans(image)
    BY DEF IInv, IndexSurvivesCrash
  <1>0. /\ file \in Seq(Cell) /\ disk \in Seq(Cell) /\ image \in Seq(Cell)
        /\ \A t \in DOMAIN index : index[t] \in Nat
    BY CrashImageIsSeq DEF TypeInv, TypeOK, FileType, IndexType
  <1>1. ASSUME NEW t \in DOMAIN index
        PROVE  /\ ValidAt(image, index[t])
               /\ BatchAt(image, index[t])[1] = t
               /\ \/ NextFrame(image, index[t]) = currentOffset
                  \/ \E u \in DOMAIN index : index[u] = NextFrame(image, index[t])
    <2> DEFINE b == BatchAt(file, index[t])
    <2>1. /\ b \in Batch /\ b # <<>> /\ b[1] = t
          /\ HoldsFrame(file, index[t], b) /\ HoldsFrame(disk, index[t], b)
          /\ ChainAt(t)
      BY DEF IndexInv, HoldsEntry
    <2>2. HoldsFrame(image, index[t], b)
      BY <1>0, <2>1, CrashImageKeepsFrame
    <2>3. /\ BatchAt(image, index[t]) = b /\ ValidAt(image, index[t])
          /\ NextFrame(image, index[t]) = index[t] + FrameLen(b)
      BY <1>0, <2>1, <2>2, HeldFrameIsValid
    <2>4. NextFrame(image, index[t]) = NextFrame(file, index[t])
      BY <2>3 DEF NextFrame
    <2> QED
      BY <2>1, <2>3, <2>4 DEF ChainAt
  <1> QED
    BY <1>1 DEF IndexInv, IndexScans

(* Until an I/O error or a restart over a log that is not empty, a crash at  *)
(* any moment leaves a file whose recovery scan visits exactly the frames    *)
(* the index knows, up to current_offset: nothing published is torn.         *)
THEOREM CrashSafety == Spec => []IndexSurvivesCrash
  BY InvInit, InvStep, InvSurvivesCrash, PTL DEF Spec

-----------------------------------------------------------------------------
(* The engine implements the log its callers rely on.                        *)

\* What may still be found on the device: logs that are durable or given up, and
\* those of the batch at hand.
Found(l) == fate[l] \in {"published", "dropped"} \/ l \in Set(batch)

FoundInv == \A c \in Set(file) \cup Set(disk) : \A l \in Set(c.batch) : Found(l)

(* Whatever a crash leaves is made of cells of the file and of the device,   *)
(* each where it stood, and of zeros.                                        *)
LEMMA CrashImageCellAt ==
  ASSUME NEW f \in Seq(Cell), NEW d \in Seq(Cell), NEW g \in CrashImages(f, d),
         NEW x \in 1..Len(g)
  PROVE  \/ x \in 1..Len(f) /\ g[x] = f[x]
         \/ x \in 1..Len(d) /\ g[x] = d[x]
         \/ g[x] = Zeros
  <1>1. Len(f) \in Nat /\ Len(d) \in Nat
    BY LenProperties
  <1>2. PICK n \in Shorter(f, d)..Longer(f, d), lost \in SUBSET Dirty(f, d) :
          g = CrashImage(f, d, n, lost)
    BY DEF CrashImages
  <1>3. n \in Nat
    BY <1>1 DEF Shorter, Longer
  <1>4. g \in Seq(Cell)
    BY CrashImageIsSeq
  <1>5. x \in 1..n
    BY <1>2, <1>4, LenProperties DEF CrashImage
  <1>6. g[x] = IF x > Len(f) \/ x \in lost THEN OnDevice(d, x) ELSE f[x]
    BY <1>2, <1>5 DEF CrashImage
  <1>7. CASE x > Len(f) \/ x \in lost
    BY <1>1, <1>3, <1>5, <1>6, <1>7 DEF OnDevice
  <1>8. CASE ~(x > Len(f) \/ x \in lost)
    BY <1>1, <1>3, <1>5, <1>6, <1>8
  <1> QED
    BY <1>7, <1>8

LEMMA CrashImageCells ==
  ASSUME NEW f \in Seq(Cell), NEW d \in Seq(Cell), NEW g \in CrashImages(f, d)
  PROVE  Set(g) \subseteq Set(f) \cup Set(d) \cup {Zeros}
  BY CrashImageCellAt DEF Set

(* A write leaves the cells that were there, each where it stood, and those  *)
(* of what was written, right behind the descriptor.                         *)
LEMMA OverlayCellAt ==
  ASSUME NEW f \in Seq(Cell), NEW part \in Seq(Cell),
         NEW c \in Nat, c <= Len(f), NEW x \in 1..Len(Overlay(f, c, part))
  PROVE  \/ x \in 1..Len(f) /\ Overlay(f, c, part)[x] = f[x]
         \/ x - c \in 1..Len(part) /\ Overlay(f, c, part)[x] = part[x - c]
  <1> DEFINE n == IF c + Len(part) > Len(f) THEN c + Len(part) ELSE Len(f)
             g == Overlay(f, c, part)
  <1>1. Len(f) \in Nat /\ Len(part) \in Nat
    BY LenProperties
  <1>2. g \in Seq(Cell)
    BY OverlayIsSeq
  <1>3. x \in 1..n
    BY <1>2, LenProperties DEF Overlay
  <1>4. g[x] = IF c < x /\ x <= c + Len(part) THEN part[x - c] ELSE f[x]
    BY <1>3 DEF Overlay
  <1>5. CASE c < x /\ x <= c + Len(part)
    BY <1>1, <1>4, <1>5
  <1>6. CASE ~(c < x /\ x <= c + Len(part))
    BY <1>1, <1>3, <1>4, <1>6
  <1> QED
    BY <1>5, <1>6

LEMMA OverlayCells ==
  ASSUME NEW f \in Seq(Cell), NEW part \in Seq(Cell),
         NEW c \in Nat, c <= Len(f)
  PROVE  Set(Overlay(f, c, part)) \subseteq Set(f) \cup Set(part)
  BY OverlayCellAt DEF Set

(* The cells of a torn frame are numbered from 1, or announce nothing.       *)
LEMMA TornCellAt ==
  ASSUME NEW b \in Batch, NEW k \in Nat, NEW torn \in BOOLEAN,
         NEW i \in 1..Len(TornFrame(b, k, torn))
  PROVE  \/ TornFrame(b, k, torn)[i] = [batch |-> b, part |-> i]
         \/ TornFrame(b, k, torn)[i] = Junk
  <1> DEFINE n == IF torn THEN k + 1 ELSE k
  <1>1. TornFrame(b, k, torn) \in Seq(Cell)
    BY TornFrameIsSeq
  <1>2. i \in 1..n
    BY <1>1, LenProperties DEF TornFrame
  <1> QED
    BY <1>2 DEF TornFrame

(* The cells of a frame, whole or torn, announce its batch or nothing.       *)
LEMMA FrameCells ==
  ASSUME NEW b \in Batch, NEW k \in Nat, NEW torn \in BOOLEAN
  PROVE  /\ \A c \in Set(Frame(b)) : c.batch = b
         /\ \A c \in Set(TornFrame(b, k, torn)) : c.batch \in {b, <<>>}
  <1>1. ASSUME NEW c \in Set(Frame(b)) PROVE c.batch = b
    <2>1. PICK i \in 1..Len(Frame(b)) : c = Frame(b)[i]
      BY DEF Set
    <2>2. c = [batch |-> b, part |-> i]
      BY <2>1, FrameIsSeq
    <2> QED
      BY <2>2
  <1>2. ASSUME NEW c \in Set(TornFrame(b, k, torn)) PROVE c.batch \in {b, <<>>}
    <2>1. PICK i \in 1..Len(TornFrame(b, k, torn)) : c = TornFrame(b, k, torn)[i]
      BY DEF Set
    <2>2. c = [batch |-> b, part |-> i] \/ c = Junk
      BY <2>1, TornCellAt
    <2> QED
      BY <2>2 DEF Junk
  <1> QED
    BY <1>1, <1>2

(* Nothing that may be found on the device is ever new or waiting again, and *)
(* nothing comes to the device that is not of the batch at hand.             *)
LEMMA FoundStep == TypeInv /\ FoundInv /\ [Next]_vars => FoundInv'
  <1> SUFFICES ASSUME QueueType, FileType, CursorInv, FoundInv, [Next]_vars
               PROVE  FoundInv'
    BY DEF TypeInv, TypeOK
  <1> USE DEF data, seen, past
  <1>0. /\ batch \in Batch /\ file \in Seq(Cell) /\ disk \in Seq(Cell)
        /\ Set(<<>>) = {}
    BY EmptySeq DEF QueueType, FileType, Batch, Set
  <1>c. ASSUME NEW c \in Set(file) \cup Set(disk) \cup Set(Frame(batch)), NEW l \in Set(c.batch)
        PROVE  l \in Logs
    <2>1. c \in Cell
      BY <1>0, FrameIsSeq, ElementOfSeq DEF Set
    <2>2. c.batch \in Seq(Logs)
      BY <2>1 DEF Cell, Batch
    <2> QED
      BY <2>2, ElementOfSeq DEF Set
  \* The cells of the new file and device are old ones, of the batch, or of none.
  <1>s. ASSUME \A c \in Set(file') \cup Set(disk') :
                 c \in Set(file) \cup Set(disk) \/ c.batch \in {batch, <<>>},
               \A l \in Logs : Found(l) => Found(l)'
        PROVE  FoundInv'
    <2> SUFFICES ASSUME NEW c \in Set(file') \cup Set(disk'), NEW l \in Set(c.batch)
                 PROVE  Found(l)'
      BY DEF FoundInv
    <2>1. CASE c \in Set(file) \cup Set(disk)
      BY <1>c, <1>s, <2>1 DEF FoundInv
    <2>2. CASE c.batch = batch
      <3>1. l \in Logs
        BY <1>0, <2>2, ElementOfSeq DEF Set, Batch
      <3> QED
        BY <1>s, <2>2, <3>1 DEF Found
    <2>3. CASE c.batch = <<>>
      BY <1>0, <2>3
    <2> QED
      BY <1>s, <2>1, <2>2, <2>3
  <1>k. UNCHANGED <<file, disk>> => \A c \in Set(file') \cup Set(disk') :
                                       c \in Set(file) \cup Set(disk)
    OBVIOUS
  <1>u. UNCHANGED <<file, disk, batch, fate>> => FoundInv'
    BY DEF FoundInv, Found
  \* The batch at hand is settled.
  <1>b. ASSUME NEW x \in {"published", "dropped"}, NEW S,
               fate' = Settle(S, x), Set(batch) \subseteq S
        PROVE  \A l \in Logs : Found(l) => Found(l)'
    BY <1>b, SettleValue DEF Found
  <1>1. ASSUME NEW l \in Logs, Append_(l) PROVE FoundInv'
    <2>1. fate[l] = "new" /\ UNCHANGED <<file, disk, batch>>
      BY <1>1 DEF Append_
    <2>2. PICK x \in {"sent", "dropped"} : fate' = Settle({l}, x)
      BY <1>1 DEF Append_
    <2>3. \A m \in Logs : Found(m) => Found(m)'
      BY <2>1, <2>2, SettleValue DEF Found
    <2> QED
      BY <1>k, <1>s, <2>1, <2>3
  <1>2. CASE Drain
    <2>1. batch = <<>> /\ UNCHANGED <<file, disk, fate>>
      BY <1>2 DEF Drain, CursorInv
    <2> QED
      BY <1>0, <2>1 DEF FoundInv, Found
  <1>3. CASE WriteFrame
    <2>1. Set(file') \subseteq Set(file) \cup Set(Frame(batch))
      BY <1>0, <1>3, FrameIsSeq, OverlayCells DEF WriteFrame, FileType, CursorInv
    <2>2. \A c \in Set(Frame(batch)) : c.batch = batch
      BY <1>0, FrameCells
    <2> QED
      BY <1>3, <1>s, <2>1, <2>2 DEF WriteFrame, Found
  <1>4. ASSUME NEW k \in 0..(FrameLen(batch) - 1), NEW torn \in BOOLEAN,
               WriteFails(k, torn) \/ WriteFailsLate(k, torn)
        PROVE  FoundInv'
    <2>1. /\ k \in Nat /\ TornFrame(batch, k, torn) \in Seq(Cell)
      BY <1>0, TornFrameIsSeq
    <2>2. /\ file' = Overlay(file, cursor, TornFrame(batch, k, torn))
          /\ worker = "drained" /\ UNCHANGED disk
      BY <1>4 DEF WriteFails, WriteFailsLate
    <2>3. Set(file') \subseteq Set(file) \cup Set(TornFrame(batch, k, torn))
      BY <1>0, <2>1, <2>2, OverlayCells DEF FileType, CursorInv
    <2>4. \A c \in Set(TornFrame(batch, k, torn)) : c.batch \in {batch, <<>>}
      BY <1>0, <2>1, FrameCells
    <2>5. CASE WriteFails(k, torn)
      <3>1. fate' = Settle(Set(batch), "dropped")
        BY <2>5 DEF WriteFails
      <3> QED
        BY <1>b, <1>s, <2>2, <2>3, <2>4, <3>1
    <2>6. CASE WriteFailsLate(k, torn)
      <3>1. UNCHANGED <<fate, batch>>
        BY <2>6 DEF WriteFailsLate
      <3>2. \A l \in Logs : Found(l) => Found(l)'
        BY <3>1 DEF Found
      <3> QED
        BY <1>s, <2>2, <2>3, <2>4, <3>2
    <2> QED
      BY <1>4, <2>5, <2>6
  <1>5. CASE ReportHeld \/ SyncFails \/ Publish
    <2>1. UNCHANGED <<file, disk>>
      BY <1>5 DEF ReportHeld, SyncFails, Publish
    <2>2. PICK x \in {"published", "dropped"} : fate' = Settle(Set(batch), x)
      BY <1>5 DEF ReportHeld, SyncFails, Publish
    <2> QED
      BY <1>b, <1>k, <1>s, <2>1, <2>2
  <1>6. CASE Sync \/ FlushTick \/ RenameFails
    <2>1. UNCHANGED <<file, batch, fate>> /\ disk' = file
      BY <1>6 DEF Sync, Barrier, FlushTick, RenameFails
    <2> QED
      BY <2>1 DEF FoundInv, Found
  <1>7. CASE RotateRename
    <2>1. file' = <<>> /\ disk' = <<>>
      BY <1>7 DEF RotateRename, RenameAway
    <2> QED
      BY <1>0, <2>1 DEF FoundInv
  <1>8. CASE OpenPanics
    <2>1. batch = <<>> /\ UNCHANGED <<file, disk>> /\ fate' = Settle(Set(chan), "dropped")
      BY <1>8 DEF OpenPanics, CursorInv
    <2>2. Set(batch) \subseteq Set(chan)
      BY <1>0, <2>1
    <2> QED
      BY <1>b, <1>k, <1>s, <2>1, <2>2
  <1>9. CASE Crash
    <2>1. PICK image \in CrashImages(file, disk) : file' = image /\ disk' = image
      BY <1>9 DEF Crash
    <2>2. Set(image) \subseteq Set(file) \cup Set(disk) \cup {Zeros}
      BY <1>0, CrashImageCells
    <2>3. Zeros.batch = <<>>
      BY DEF Zeros
    <2>4. fate' = Settle(Set(chan) \cup Set(batch), "dropped")
      BY <1>9 DEF Crash
    <2> QED
      BY <1>b, <1>s, <2>1, <2>2, <2>3, <2>4
  <1>10. CASE Restart
    <2>1. batch = <<>> /\ fate' = Settle(ScannedLogs(file), "published")
      BY <1>10 DEF Restart, CursorInv
    <2>2. Set(batch) \subseteq ScannedLogs(file)
      BY <1>0, <2>1
    <2>3. \A c \in Set(file') \cup Set(disk') : c \in Set(file) \cup Set(disk)
      <3>1. PICK end \in ScanPositions(file) :
              \/ file' = [i \in 1..end |-> file[i]] /\ disk' = file'
              \/ UNCHANGED <<file, disk>>
        BY <1>10 DEF Restart
      <3>2. end \in 0..Len(file) /\ Len(file) \in Nat
        BY <1>0, ScanTypes, LenProperties
      <3>3. CASE file' = [i \in 1..end |-> file[i]] /\ disk' = file'
        <4>1. \A i \in 1..end : i \in 1..Len(file) /\ file[i] \in Cell
          BY <1>0, <3>2, ElementOfSeq
        <4>2. file' \in [1..end -> Cell]
          BY <3>3, <4>1
        <4>3. Len(file') = end
          BY <3>2, <4>2, FcnIsSeq
        <4> QED
          BY <3>3, <4>1, <4>3 DEF Set
      <3> QED
        BY <3>1, <3>3
    <2> QED
      BY <1>b, <1>s, <2>1, <2>2, <2>3
  <1>11. CASE AskRotate \/ Reopen \/ ClearIndex \/ Open \/ UNCHANGED vars
    BY <1>11, <1>u DEF AskRotate, Reopen, ClearIndex, Open, vars
  <1> QED
    BY <1>1, <1>2, <1>3, <1>4, <1>5, <1>6, <1>7, <1>8, <1>9, <1>10, <1>11
       DEF Next, Rotate, WriteBatchToDisk

(* What recovery returns was durable or given up.                            *)
LEMMA ScannedAreFound ==
  ASSUME TypeInv, FoundInv, NEW l \in ScannedLogs(file)
  PROVE  Found(l)
  <1>1. file \in Seq(Cell)
    BY DEF TypeInv, TypeOK, FileType
  <1>2. PICK o \in ScannedFrames(file) : l \in LogsAt(file, o)
    BY DEF ScannedLogs
  <1>3. o \in Nat /\ o < Len(file) /\ Len(file) \in Nat
    BY <1>1, <1>2, ScanTypes, LenProperties DEF ValidAt
  <1>4. o + 1 \in 1..Len(file)
    BY <1>3
  <1>5. file[o + 1] \in Set(file) /\ l \in Set(file[o + 1].batch)
    BY <1>2, <1>4 DEF Set, LogsAt, BatchAt
  <1> QED
    BY <1>5 DEF FoundInv

(* The queue of the refinement: the batch at hand, then the channel.         *)
LEMMA QueueSplits ==
  ASSUME QueueType
  PROVE  /\ Len(batch \o chan) = Len(batch) + Len(chan)
         /\ Log!First(Len(batch)) = batch
         /\ Log!Rest(Len(batch)) = chan
         /\ Log!In(batch \o chan) = Set(batch) \cup Set(chan)
  <1>0. /\ batch \in Seq(Logs) /\ chan \in Seq(Logs)
        /\ Len(batch) \in Nat /\ Len(chan) \in Nat
    BY QueueElements DEF QueueType
  <1>1. /\ Len(batch \o chan) = Len(batch) + Len(chan)
        /\ \A i \in 1..Len(batch) : (batch \o chan)[i] = batch[i]
        /\ \A i \in 1..Len(chan) : (batch \o chan)[i + Len(batch)] = chan[i]
    BY <1>0, SMT
  <1>2. /\ batch = [i \in 1..Len(batch) |-> batch[i]]
        /\ chan = [i \in 1..Len(chan) |-> chan[i]]
    BY <1>0, LenProperties
  <1>3. Log!First(Len(batch)) = batch
    BY <1>1, <1>2 DEF Log!First
  <1>4. Log!Rest(Len(batch)) = chan
    <2>1. Len(batch \o chan) - Len(batch) = Len(chan)
      BY <1>0, <1>1
    <2> QED
      BY <1>1, <1>2, <2>1 DEF Log!Rest
  <1>5. Log!In(batch \o chan) = Set(batch) \cup Set(chan)
    <2>1. ASSUME NEW i \in 1..(Len(batch) + Len(chan))
          PROVE  (batch \o chan)[i] \in Set(batch) \cup Set(chan)
      <3>1. CASE i <= Len(batch)
        BY <1>0, <1>1, <3>1 DEF Set
      <3>2. CASE ~(i <= Len(batch))
        <4>1. i - Len(batch) \in 1..Len(chan) /\ (i - Len(batch)) + Len(batch) = i
          BY <1>0, <3>2
        <4> QED
          BY <1>1, <4>1 DEF Set
      <3> QED
        BY <3>1, <3>2
    <2>2. /\ \A i \in 1..Len(batch) : i \in 1..(Len(batch) + Len(chan))
          /\ \A i \in 1..Len(chan) : i + Len(batch) \in 1..(Len(batch) + Len(chan))
      BY <1>0
    <2>3. Set(batch) \cup Set(chan) \subseteq {(batch \o chan)[i] : i \in 1..(Len(batch) + Len(chan))}
      BY <1>1, <2>2 DEF Set
    <2> QED
      BY <1>1, <2>1, <2>3 DEF Log!In
  <1> QED
    BY <1>1, <1>3, <1>4, <1>5

(* A drain moves the line between batch and channel, not the queue.          *)
LEMMA DrainKeepsQueue ==
  ASSUME QueueType, CursorInv, Drain
  PROVE  batch' \o chan' = batch \o chan
  <1>1. /\ worker = "idle" /\ batch' = NextBatch /\ chan # <<>>
        /\ chan' = [i \in 1..(Len(chan) - DrainCount) |-> chan[i + DrainCount]]
    BY DEF Drain, WorthDraining
  <1>2. batch = <<>> /\ chan \in Seq(Logs) /\ Len(chan) \in Nat
    BY <1>1, LenProperties DEF CursorInv, QueueType
  <1>3. /\ DrainCount \in Nat /\ DrainCount <= Len(chan)
        /\ batch' \in Seq(Logs) /\ Len(batch') = DrainCount
        /\ chan' \in Seq(Logs) /\ Len(chan') = Len(chan) - DrainCount
    BY <1>1, <1>2, DrainSplits
  <1>4. /\ \A i \in 1..DrainCount : batch'[i] = chan[i]
        /\ \A i \in 1..(Len(chan) - DrainCount) : chan'[i] = chan[i + DrainCount]
    BY <1>1 DEF NextBatch
  <1>5. batch' \o chan' \in Seq(Logs) /\ Len(batch' \o chan') = Len(chan)
    BY <1>2, <1>3, SMT
  <1>6. ASSUME NEW i \in 1..Len(chan) PROVE (batch' \o chan')[i] = chan[i]
    <2>1. CASE i <= DrainCount
      <3>1. (batch' \o chan')[i] = batch'[i]
        BY <1>2, <1>3, <2>1, SMT
      <3> QED
        BY <1>2, <1>4, <2>1, <3>1
    <2>2. CASE ~(i <= DrainCount)
      <3>1. i - DrainCount \in 1..(Len(chan) - DrainCount)
            /\ (i - DrainCount) + DrainCount = i
        BY <1>2, <1>3, <2>2
      <3>2. (batch' \o chan')[i] = chan'[i - DrainCount]
        BY <1>2, <1>3, <2>2, SMT
      <3> QED
        BY <1>4, <3>1, <3>2
    <2> QED
      BY <2>1, <2>2
  <1>7. batch' \o chan' = chan
    BY <1>2, <1>5, <1>6, SeqEqual
  <1> QED
    BY <1>2, <1>7, ConcatEmptySeq

\* What the refinement needs of a state.
LogInv == IInv /\ FoundInv

LEMMA LogInvInit == Init => LogInv
  <1> SUFFICES ASSUME Init PROVE LogInv
    OBVIOUS
  <1>1. Set(file) \cup Set(disk) = {}
    BY EmptySeq DEF Init, Set
  <1>2. FoundInv
    BY <1>1 DEF FoundInv
  <1> QED
    BY <1>2, InvInit DEF LogInv

LEMMA LogInvStep == LogInv /\ [Next]_vars => LogInv'
  BY InvStep, FoundStep DEF LogInv, IInv

LEMMA LogInit == Init => Log!Init
  <1> SUFFICES ASSUME Init PROVE Log!Init
    OBVIOUS
  <1>1. <<>> \o <<>> = <<>>
    BY ConcatEmptySeq, EmptySeq
  <1> QED
    BY <1>1 DEF Init, Log!Init

(* Each step of the engine is a step of the log, or changes nothing of it.   *)
LEMMA LogStep == LogInv /\ [Next]_vars => [Log!Next]_(Log!vars)
  <1> SUFFICES ASSUME TypeInv, QueueType, CursorInv, QueueInv, FoundInv, [Next]_vars
               PROVE  Log!Next \/ UNCHANGED <<batch \o chan, fate>>
    BY DEF LogInv, IInv, TypeInv, TypeOK, Log!vars
  <1> USE DEF data, seen, past
  <1>0. /\ batch \in Seq(Logs) /\ chan \in Seq(Logs) /\ <<>> \in Seq(Logs)
        /\ Len(batch) \in Nat /\ Len(chan) \in Nat
        /\ <<>> \o chan = chan /\ <<>> \o <<>> = <<>>
    BY QueueElements, EmptySeq, ConcatEmptySeq DEF QueueType
  <1>w. ASSUME NEW S, NEW x PROVE Settle(S, x) = Log!With(S, x)
    BY DEF Settle, Log!With
  <1>u. UNCHANGED <<batch, chan, fate>> => UNCHANGED <<batch \o chan, fate>>
    OBVIOUS
  \* The batch at hand is settled whole.
  <1>b. ASSUME worker \in {"drained", "written", "synced"},
               NEW x \in {"published", "dropped"}, fate' = Settle(Set(batch), x),
               batch' = <<>>, UNCHANGED chan
        PROVE  Log!Next
    <2>1. Len(batch) >= 1
      BY <1>0, <1>b, EmptySeq DEF CursorInv
    <2>2. Len(batch) \in 1..Len(batch \o chan)
      BY <1>0, <2>1, QueueSplits
    <2>3. /\ fate' = Log!With(Log!In(Log!First(Len(batch))), x)
          /\ batch' \o chan' = Log!Rest(Len(batch))
      <3>1. Log!In(batch) = Set(batch)
        BY DEF Log!In, Set
      <3> QED
        BY <1>0, <1>b, <1>w, <3>1, QueueSplits
    <2>4. Log!Commit(Len(batch)) \/ Log!GiveUp(Len(batch))
      BY <1>b, <2>3 DEF Log!Commit, Log!GiveUp
    <2>5. Log!Settle
      BY <2>2, <2>4 DEF Log!Settle
    <2> QED
      BY <2>5 DEF Log!Next
  \* The engine dies with all it has.
  <1>d. ASSUME fate' = Settle(Set(batch) \cup Set(chan), "dropped"),
               batch' = <<>>, chan' = <<>>
        PROVE  Log!Next
    <2>1. Log!Lose
      BY <1>0, <1>d, <1>w, QueueSplits DEF Log!Lose
    <2> QED
      BY <2>1 DEF Log!Next
  <1>1. ASSUME NEW l \in Logs, Append_(l) PROVE Log!Next
    <2>1. CASE chan' = Append(chan, l) /\ fate' = Settle({l}, "sent")
      <3>1. batch \o Append(chan, l) = Append(batch \o chan, l)
        BY <1>0, SMT
      <3>2. fate[l] = "new" /\ UNCHANGED batch
        BY <1>1 DEF Append_
      <3>3. Log!Accept(l)
        BY <1>w, <2>1, <3>1, <3>2 DEF Log!Accept
      <3> QED
        BY <3>3 DEF Log!Next
    <2>2. CASE UNCHANGED chan /\ fate' = Settle({l}, "dropped")
      <3>1. fate[l] = "new" /\ UNCHANGED batch
        BY <1>1 DEF Append_
      <3>2. Log!Refuse(l)
        BY <1>w, <2>2, <3>1 DEF Log!Refuse
      <3> QED
        BY <3>2 DEF Log!Next
    <2> QED
      BY <1>1, <2>1, <2>2 DEF Append_
  <1>2. CASE Drain
    BY <1>2, DrainKeepsQueue DEF Drain
  <1>3. ASSUME NEW k \in 0..(FrameLen(batch) - 1), NEW torn \in BOOLEAN, WriteFails(k, torn)
        PROVE  Log!Next
    <2>1. /\ worker = "drained" /\ fate' = Settle(Set(batch), "dropped")
          /\ batch' = <<>> /\ UNCHANGED chan
      BY <1>3 DEF WriteFails
    <2> QED
      BY <1>b, <2>1
  <1>4. CASE ReportHeld
    BY <1>4, <1>b DEF ReportHeld
  <1>5. CASE SyncFails
    BY <1>5, <1>b DEF SyncFails
  <1>6. CASE Publish
    BY <1>6, <1>b DEF Publish
  <1>7. CASE RotateRename
    <2>1. Log!Archive
      BY <1>7, <1>w DEF RotateRename, Log!Archive
    <2> QED
      BY <2>1 DEF Log!Next
  <1>8. CASE OpenPanics
    <2>1. batch = <<>> /\ batch' = <<>> /\ chan' = <<>>
          /\ fate' = Settle(Set(chan), "dropped")
      BY <1>8 DEF OpenPanics, CursorInv
    <2>2. Set(batch) \cup Set(chan) = Set(chan)
      BY <2>1, EmptySeq DEF Set
    <2> QED
      BY <1>d, <2>1, <2>2
  <1>9. CASE Crash
    <2>1. Set(chan) \cup Set(batch) = Set(batch) \cup Set(chan)
      OBVIOUS
    <2>2. batch' = <<>> /\ chan' = <<>> /\ fate' = Settle(Set(chan) \cup Set(batch), "dropped")
      BY <1>9 DEF Crash
    <2> QED
      BY <1>d, <2>1, <2>2
  <1>10. CASE Restart
    <2> DEFINE S == ScannedLogs(file) \cap Logs
    <2>1. batch = <<>> /\ fate' = Settle(ScannedLogs(file), "published")
          /\ UNCHANGED <<batch, chan>>
      BY <1>10 DEF Restart, CursorInv
    <2>2. fate' = Log!With(S, "published")
      BY <2>1 DEF Settle, Log!With
    <2>3. \A l \in S : fate[l] \in {"dropped", "published"}
      BY <2>1, ScannedAreFound, EmptySeq DEF Found, Set
    <2> HIDE DEF S
    <2>4. Log!Recover(S)
      BY <2>1, <2>2, <2>3 DEF Log!Recover
    <2>5. S \in SUBSET Logs
      BY DEF S
    <2> QED
      BY <2>4, <2>5 DEF Log!Next
  <1>11. ASSUME NEW k \in 0..(FrameLen(batch) - 1), NEW torn \in BOOLEAN,
                WriteFailsLate(k, torn)
         PROVE  UNCHANGED <<batch, chan, fate>>
    BY <1>11 DEF WriteFailsLate
  <1>12. CASE \/ WriteFrame \/ Sync \/ FlushTick \/ AskRotate \/ RenameFails
              \/ Reopen \/ ClearIndex \/ Open \/ UNCHANGED vars
    BY <1>12, <1>u DEF WriteFrame, Sync, FlushTick, AskRotate, RenameFails, Reopen,
                       ClearIndex, Open, vars
  <1> QED
    BY <1>1, <1>2, <1>3, <1>4, <1>5, <1>6, <1>7, <1>8, <1>9, <1>10, <1>11, <1>12, <1>u
       DEF Next, Rotate, WriteBatchToDisk

(* Whatever fails or crashes, the engine makes no step the log does not      *)
(* promise: batches settle whole and in the order append accepted their      *)
(* logs, and a restart brings back only what was durable or given up.        *)
THEOREM ImplementsLogSteps == Spec => Log!Init /\ [][Log!Next]_(Log!vars)
  BY LogInvInit, LogInvStep, LogInit, LogStep, PTL DEF Spec

-----------------------------------------------------------------------------
(* Where the cells of a batch are: in one place, in the order of the queue.  *)

\* The cell c is at position x of the active file, as a reader or as the device
\* has it.
HereCell(x, c) ==
  \/ x \in 1..Len(file) /\ c = file[x]
  \/ x \in 1..Len(disk) /\ c = disk[x]

\* The cell c is at position x of the i-th file of the engine's life.
Stands(i, x, c) ==
  \/ i \in 1..Len(segments) /\ x \in 1..Len(segments[i]) /\ c = segments[i][x]
  \/ i = Len(segments) + 1 /\ HereCell(x, c)

\* What a step may put at position x of the active file: what was there, nothing
\* that announces a log, or a cell of the batch at hand.
NewCell(x, c) ==
  /\ worker = "drained"
  /\ c.batch = batch /\ c.part \in Nat /\ c.part >= 1
  /\ x = cursor + c.part
Wrote ==
  \/ worker' = "written" /\ UNCHANGED <<batch, fate>>
  \/ fate' = Settle(Set(batch), "dropped")
MayCome(x, c) == HereCell(x, c) \/ c.batch = <<>> \/ (NewCell(x, c) /\ Wrote)

(* Only a rotation touches the segments, and whatever stands in the active   *)
(* file after a step may come there.                                         *)
LEMMA CellsCome ==
  TypeInv /\ [Next]_vars /\ ~RotateRename =>
    UNCHANGED segments /\ \A x, c : HereCell(x, c)' => MayCome(x, c)
  <1> SUFFICES ASSUME QueueType, FileType, CursorInv, [Next]_vars, ~RotateRename
               PROVE  UNCHANGED segments /\ \A x, c : HereCell(x, c)' => MayCome(x, c)
    BY DEF TypeInv, TypeOK
  <1> USE DEF data, seen, past
  <1>0. /\ batch \in Batch /\ file \in Seq(Cell) /\ disk \in Seq(Cell)
        /\ cursor \in Nat
    BY DEF QueueType, FileType, Batch
  <1>u. UNCHANGED <<file, disk, segments>> =>
          UNCHANGED segments /\ \A x, c : HereCell(x, c)' => MayCome(x, c)
    BY DEF HereCell, MayCome
  \* The file is written over.
  <1>o. ASSUME NEW part \in Seq(Cell), worker = "drained",
               file' = Overlay(file, cursor, part), UNCHANGED <<disk, segments>>,
               Wrote,
               \A i \in 1..Len(part) :
                 part[i].batch = <<>> \/ part[i] = [batch |-> batch, part |-> i]
        PROVE  UNCHANGED segments /\ \A x, c : HereCell(x, c)' => MayCome(x, c)
    <2> SUFFICES ASSUME NEW x, NEW c, HereCell(x, c)' PROVE MayCome(x, c)
      BY <1>o
    <2>1. CASE x \in 1..Len(disk') /\ c = disk'[x]
      BY <1>o, <2>1 DEF MayCome, HereCell
    <2>2. CASE x \in 1..Len(file') /\ c = file'[x]
      <3>1. cursor <= Len(file)
        BY <1>o DEF CursorInv
      <3>2. \/ x \in 1..Len(file) /\ c = file[x]
            \/ x - cursor \in 1..Len(part) /\ c = part[x - cursor]
        BY <1>0, <1>o, <2>2, <3>1, OverlayCellAt
      <3>3. CASE x - cursor \in 1..Len(part) /\ c = part[x - cursor]
        <4>1. c.batch = <<>> \/ c = [batch |-> batch, part |-> x - cursor]
          BY <1>o, <3>3
        <4>2. x \in Nat /\ Len(part) \in Nat /\ Len(file') \in Nat
          <5>1. file' \in Seq(Cell)
            BY <1>0, <1>o, <3>1, OverlayIsSeq
          <5> QED
            BY <1>o, <2>2, <5>1, LenProperties
        <4>3. x - cursor \in Nat /\ x - cursor >= 1 /\ x = cursor + (x - cursor)
          BY <1>0, <3>3, <4>2
        <4> QED
          BY <1>o, <4>1, <4>3 DEF MayCome, NewCell
      <3> QED
        BY <3>2, <3>3 DEF MayCome, HereCell
    <2> QED
      BY <2>1, <2>2 DEF HereCell
  <1>1. CASE WriteFrame
    <2>1. Frame(batch) \in Seq(Cell)
          /\ \A i \in 1..Len(Frame(batch)) : Frame(batch)[i] = [batch |-> batch, part |-> i]
      BY <1>0, FrameIsSeq
    <2>2. /\ worker = "drained" /\ file' = Overlay(file, cursor, Frame(batch))
          /\ UNCHANGED <<disk, segments>> /\ Wrote
      BY <1>1 DEF WriteFrame, Wrote
    <2> HIDE DEF data, seen, past
    <2> QED
      BY <1>o, <2>1, <2>2
  <1>2. ASSUME NEW k \in 0..(FrameLen(batch) - 1), NEW torn \in BOOLEAN,
               WriteFails(k, torn) \/ WriteFailsLate(k, torn)
        PROVE  UNCHANGED segments /\ \A x, c : HereCell(x, c)' => MayCome(x, c)
    <2> DEFINE part == TornFrame(batch, k, torn)
    <2>1. k \in Nat
      OBVIOUS
    <2>2. part \in Seq(Cell)
      BY <1>0, <2>1, TornFrameIsSeq
    <2>3. \A i \in 1..Len(part) :
            part[i].batch = <<>> \/ part[i] = [batch |-> batch, part |-> i]
      BY <1>0, <2>1, TornCellAt DEF Junk
    <2>4. /\ worker = "drained" /\ file' = Overlay(file, cursor, part)
          /\ UNCHANGED <<disk, segments>> /\ Wrote
      BY <1>2 DEF WriteFails, WriteFailsLate, Wrote
    <2> HIDE DEF part
    <2> QED
      BY <1>o, <2>2, <2>3, <2>4
  <1>3. CASE Sync \/ FlushTick \/ RenameFails
    <2>1. UNCHANGED <<file, segments>> /\ disk' = file
      BY <1>3 DEF Sync, Barrier, FlushTick, RenameFails
    <2> QED
      BY <2>1 DEF HereCell, MayCome
  <1>4. CASE Crash
    <2>1. PICK image \in CrashImages(file, disk) : file' = image /\ disk' = image
      BY <1>4 DEF Crash
    <2>2. \A x \in 1..Len(image) : HereCell(x, image[x]) \/ image[x] = Zeros
      BY <1>0, CrashImageCellAt DEF HereCell
    <2>3. Zeros.batch = <<>>
      BY DEF Zeros
    <2>4. UNCHANGED segments
      BY <1>4 DEF Crash
    <2>5. ASSUME NEW x, NEW c, HereCell(x, c)' PROVE MayCome(x, c)
      <3>1. x \in 1..Len(image) /\ c = image[x]
        BY <2>1, <2>5 DEF HereCell
      <3> QED
        BY <2>2, <2>3, <3>1 DEF MayCome
    <2> QED
      BY <2>4, <2>5
  <1>5. CASE Restart
    <2>1. PICK end \in ScanPositions(file) :
            \/ file' = [i \in 1..end |-> file[i]] /\ disk' = file'
            \/ UNCHANGED <<file, disk>>
      BY <1>5 DEF Restart
    <2>2. UNCHANGED segments
      BY <1>5 DEF Restart
    <2>3. end \in 0..Len(file) /\ Len(file) \in Nat
      BY <1>0, ScanTypes, LenProperties
    <2>4. CASE file' = [i \in 1..end |-> file[i]] /\ disk' = file'
      <3>1. \A i \in 1..end : i \in 1..Len(file) /\ file[i] \in Cell
        BY <1>0, <2>3, ElementOfSeq
      <3>2. file' \in [1..end -> Cell]
        BY <2>4, <3>1
      <3>3. Len(file') = end
        BY <2>3, <3>2, FcnIsSeq
      <3>4. \A x \in 1..Len(file') : HereCell(x, file'[x])
        BY <2>4, <3>1, <3>3 DEF HereCell
      <3> QED
        BY <2>2, <2>4, <3>4 DEF MayCome, HereCell
    <2> QED
      BY <1>u, <2>1, <2>2, <2>4
  <1>6. CASE \/ \E l \in Logs : Append_(l)
             \/ Drain \/ ReportHeld \/ SyncFails \/ Publish
             \/ AskRotate \/ Reopen \/ OpenPanics \/ ClearIndex \/ Open
             \/ UNCHANGED vars
    BY <1>6, <1>u DEF Append_, Drain, ReportHeld, SyncFails, Publish, AskRotate, Reopen,
                      OpenPanics, ClearIndex, Open, vars
  <1> QED
    BY <1>1, <1>2, <1>3, <1>4, <1>5, <1>6 DEF Next, Rotate, WriteBatchToDisk

\* Settled for good, or in the batch that is written and not yet settled.
AtRest(l) ==
  \/ fate[l] \in {"published", "archived", "dropped"}
  \/ worker \in {"written", "synced"} /\ l \in Set(batch)

\* The cells of a log are at rest, in one file, and of one frame there.
PlaceInv ==
  /\ \A i, x, c : Stands(i, x, c) => \A l \in Set(c.batch) : AtRest(l)
  /\ \A i, x, c, j, y, d :
       Stands(i, x, c) /\ Stands(j, y, d) /\ Set(c.batch) \cap Set(d.batch) # {} =>
         i = j /\ c.batch = d.batch /\ x + d.part = y + c.part

LEMMA RestStep == TypeInv /\ [Next]_vars => \A l \in Logs : AtRest(l) => AtRest(l)'
  <1> SUFFICES ASSUME QueueType, CursorInv, [Next]_vars, NEW l \in Logs, AtRest(l)
               PROVE  AtRest(l)'
    BY DEF TypeInv, TypeOK
  <1> USE DEF data, seen, past
  <1>u. UNCHANGED <<batch, fate>> /\ (worker \in {"written", "synced"} => worker' \in {"written", "synced"})
          => AtRest(l)'
    BY DEF AtRest
  <1>s. ASSUME NEW S, NEW x \in {"published", "archived", "dropped"}, fate' = Settle(S, x),
               worker \in {"written", "synced"} => Set(batch) \subseteq S
        PROVE  AtRest(l)'
    BY <1>s, SettleValue DEF AtRest
  <1>1. ASSUME NEW m \in Logs, Append_(m) PROVE AtRest(l)'
    <2>1. PICK x \in {"sent", "dropped"} : fate' = Settle({m}, x)
      BY <1>1 DEF Append_
    <2>2. fate[m] = "new" /\ UNCHANGED <<worker, batch>>
      BY <1>1 DEF Append_
    <2> QED
      BY <2>1, <2>2, SettleValue DEF AtRest
  <1>2. CASE Drain \/ WriteFrame \/ Sync \/ FlushTick \/ AskRotate \/ RenameFails
             \/ Reopen \/ ClearIndex \/ Open \/ UNCHANGED vars
    <2>1. CASE Drain
      BY <2>1 DEF Drain, AtRest
    <2>2. CASE ~Drain
      BY <1>2, <1>u, <2>2 DEF WriteFrame, Sync, FlushTick, AskRotate, RenameFails, Reopen,
                              ClearIndex, Open, vars
    <2> QED
      BY <2>1, <2>2
  <1>3. ASSUME NEW k \in 0..(FrameLen(batch) - 1), NEW torn \in BOOLEAN,
               WriteFails(k, torn) \/ WriteFailsLate(k, torn)
        PROVE  AtRest(l)'
    <2>1. CASE WriteFails(k, torn)
      BY <1>s, <2>1 DEF WriteFails
    <2>2. CASE WriteFailsLate(k, torn)
      BY <1>u, <2>2 DEF WriteFailsLate
    <2> QED
      BY <1>3, <2>1, <2>2
  <1>4. CASE ReportHeld
    BY <1>4, <1>s DEF ReportHeld
  <1>5. CASE SyncFails
    BY <1>5, <1>s DEF SyncFails
  <1>6. CASE Publish
    BY <1>6, <1>s DEF Publish
  <1>7. CASE RotateRename
    BY <1>7, <1>s DEF RotateRename
  <1>8. CASE OpenPanics
    BY <1>8, <1>s DEF OpenPanics
  <1>9. CASE Crash
    BY <1>9, <1>s DEF Crash
  <1>10. CASE Restart
    BY <1>10, <1>s DEF Restart
  <1> QED
    BY <1>1, <1>2, <1>3, <1>4, <1>5, <1>6, <1>7, <1>8, <1>9, <1>10
       DEF Next, Rotate, WriteBatchToDisk

LEMMA StandsType ==
  ASSUME TypeInv, NEW i, NEW x, NEW c, Stands(i, x, c)
  PROVE  /\ x \in Nat /\ c \in Cell /\ c.part \in Nat
         /\ \A l \in Set(c.batch) : l \in Logs
  <1>1. file \in Seq(Cell) /\ disk \in Seq(Cell) /\ segments \in Seq(Seq(Cell))
    BY DEF TypeInv, TypeOK, FileType
  <1>2. x \in Nat /\ c \in Cell
    <2>1. CASE i \in 1..Len(segments) /\ x \in 1..Len(segments[i]) /\ c = segments[i][x]
      <3>1. segments[i] \in Seq(Cell)
        BY <1>1, <2>1, ElementOfSeq
      <3> QED
        BY <2>1, <3>1, ElementOfSeq
    <2>2. CASE HereCell(x, c)
      BY <1>1, <2>2, ElementOfSeq DEF HereCell
    <2> QED
      BY <2>1, <2>2 DEF Stands
  <1>3. c.batch \in Seq(Logs) /\ c.part \in Nat
    BY <1>2 DEF Cell, Batch
  <1>4. \A l \in Set(c.batch) : l \in Logs
    BY <1>3, ElementOfSeq DEF Set
  <1> QED
    BY <1>2, <1>3, <1>4

(* What stands after a step stood where it stands, or is of the batch.       *)
LEMMA StandsCome ==
  TypeInv /\ [Next]_vars =>
    \A i, x, c : Stands(i, x, c)' =>
      \/ Stands(i, x, c)
      \/ c.batch = <<>>
      \/ i = Len(segments) + 1 /\ NewCell(x, c) /\ Wrote
  <1> SUFFICES ASSUME TypeInv, [Next]_vars, NEW i, NEW x, NEW c, Stands(i, x, c)'
               PROVE  \/ Stands(i, x, c)
                      \/ c.batch = <<>>
                      \/ i = Len(segments) + 1 /\ NewCell(x, c) /\ Wrote
    OBVIOUS
  <1>1. CASE ~RotateRename
    <2>1. UNCHANGED segments /\ (HereCell(x, c)' => MayCome(x, c))
      BY <1>1, CellsCome
    <2>2. CASE i \in 1..Len(segments) /\ x \in 1..Len(segments[i]) /\ c = segments[i][x]
      BY <2>2 DEF Stands
    <2>3. CASE i = Len(segments) + 1 /\ HereCell(x, c)'
      BY <2>1, <2>3 DEF MayCome, Stands
    <2> QED
      BY <2>1, <2>2, <2>3 DEF Stands
  <1>2. CASE RotateRename
    <2>1. segments' = Append(segments, file) /\ file' = <<>> /\ disk' = <<>>
      BY <1>2 DEF RotateRename, RenameAway
    <2>2. segments \in Seq(Seq(Cell)) /\ file \in Seq(Cell) /\ Len(segments) \in Nat
      BY LenProperties DEF TypeInv, TypeOK, FileType
    <2>3. /\ Len(segments') = Len(segments) + 1
          /\ \A k \in 1..Len(segments) : segments'[k] = segments[k]
          /\ segments'[Len(segments) + 1] = file
      BY <2>1, <2>2, AppendProperties
    <2>4. ~HereCell(x, c)'
      BY <2>1, EmptySeq DEF HereCell
    <2>5. i \in 1..Len(segments') /\ x \in 1..Len(segments'[i]) /\ c = segments'[i][x]
      BY <2>4 DEF Stands
    <2>6. CASE i \in 1..Len(segments)
      BY <2>3, <2>5, <2>6 DEF Stands
    <2>7. CASE i = Len(segments) + 1
      BY <2>3, <2>5, <2>7 DEF Stands, HereCell
    <2> QED
      BY <2>2, <2>3, <2>5, <2>6, <2>7
  <1> QED
    BY <1>1, <1>2

LEMMA PlaceInit == Init => PlaceInv
  <1> SUFFICES ASSUME Init PROVE PlaceInv
    OBVIOUS
  <1>1. \A i, x, c : ~Stands(i, x, c)
    BY EmptySeq DEF Init, Stands, HereCell
  <1> QED
    BY <1>1 DEF PlaceInv

LEMMA PlaceStep == TypeInv /\ QueueInv /\ PlaceInv /\ [Next]_vars => PlaceInv'
  <1> SUFFICES ASSUME TypeInv, QueueInv, PlaceInv, [Next]_vars PROVE PlaceInv'
    OBVIOUS
  <1>t. QueueType /\ Set(<<>>) = {}
    BY EmptySeq DEF TypeInv, TypeOK, Set
  \* While the batch is not written, its logs wait and no cell is theirs.
  <1>w. worker = "drained" => \A l \in Set(batch) : l \in Logs /\ ~AtRest(l)
    BY <1>t, QueueElements DEF QueueInv, AtRest, Set
  <1>1. ASSUME NEW i, NEW x, NEW c, Stands(i, x, c)', NEW l \in Set(c.batch)
        PROVE  AtRest(l)'
    <2>1. CASE Stands(i, x, c)
      <3>1. l \in Logs /\ AtRest(l)
        BY <1>1, <2>1, StandsType DEF PlaceInv
      <3> QED
        BY <3>1, RestStep
    <2>2. CASE NewCell(x, c) /\ Wrote
      <3>1. l \in Set(batch) /\ l \in Logs
        BY <1>1, <1>w, <2>2 DEF NewCell
      <3>2. CASE worker' = "written" /\ UNCHANGED <<batch, fate>>
        BY <3>1, <3>2 DEF AtRest
      <3>3. CASE fate' = Settle(Set(batch), "dropped")
        BY <1>t, <3>1, <3>3, SettleValue DEF AtRest
      <3> QED
        BY <2>2, <3>2, <3>3 DEF Wrote
    <2> QED
      BY <1>1, <1>t, <2>1, <2>2, StandsCome
  <1>2. ASSUME NEW i, NEW x, NEW c, NEW j, NEW y, NEW d, Stands(i, x, c)', Stands(j, y, d)',
               NEW l \in Set(c.batch), l \in Set(d.batch)
        PROVE  i = j /\ c.batch = d.batch /\ x + d.part = y + c.part
    <2>1. \/ Stands(i, x, c)
          \/ i = Len(segments) + 1 /\ NewCell(x, c)
      BY <1>2, <1>t, StandsCome
    <2>2. \/ Stands(j, y, d)
          \/ j = Len(segments) + 1 /\ NewCell(y, d)
      BY <1>2, <1>t, StandsCome
    <2>3. CASE Stands(i, x, c) /\ Stands(j, y, d)
      <3>1. Set(c.batch) \cap Set(d.batch) # {}
        BY <1>2
      <3> QED
        BY <2>3, <3>1 DEF PlaceInv
    <2>4. CASE Stands(i, x, c) /\ NewCell(y, d)
      BY <1>2, <1>w, <2>4 DEF NewCell, PlaceInv
    <2>5. CASE NewCell(x, c) /\ Stands(j, y, d)
      BY <1>2, <1>w, <2>5 DEF NewCell, PlaceInv
    <2>6. CASE i = Len(segments) + 1 /\ NewCell(x, c) /\ j = Len(segments) + 1 /\ NewCell(y, d)
      <3>1. cursor \in Nat
        BY DEF TypeInv, TypeOK, FileType
      <3> QED
        BY <2>6, <3>1 DEF NewCell
    <2> QED
      BY <2>1, <2>2, <2>3, <2>4, <2>5, <2>6
  <1> QED
    BY <1>1, <1>2 DEF PlaceInv

\* The queue of the engine and the place of its cells.
StoreInv == TypeInv /\ QueueInv /\ PlaceInv

LEMMA StoreInit == Init => StoreInv
  BY InvInit, PlaceInit DEF StoreInv, IInv

LEMMA StoreStep == StoreInv /\ [Next]_vars => StoreInv'
  BY TypeStep, QueueStep, PlaceStep DEF StoreInv

(* A frame a scan accepts stands whole in its file.                          *)
LEMMA ScannedStands ==
  ASSUME TypeInv, NEW i \in 1..Len(Append(segments, file)),
         NEW o \in ScannedFrames(Append(segments, file)[i])
  PROVE  LET b == BatchAt(Append(segments, file)[i], o)
         IN  o \in Nat /\ Stands(i, o + 1, [batch |-> b, part |-> 1])
  <1> DEFINE f == Append(segments, file)[i]
             b == BatchAt(f, o)
  <1>1. segments \in Seq(Seq(Cell)) /\ file \in Seq(Cell) /\ Len(segments) \in Nat
    BY LenProperties DEF TypeInv, TypeOK, FileType
  <1>2. /\ Len(Append(segments, file)) = Len(segments) + 1
        /\ \A k \in 1..Len(segments) : Append(segments, file)[k] = segments[k]
        /\ Append(segments, file)[Len(segments) + 1] = file
    BY <1>1, AppendProperties
  <1>3. /\ f \in Seq(Cell)
        /\ \/ i \in 1..Len(segments) /\ f = segments[i]
           \/ i = Len(segments) + 1 /\ f = file
    <2>1. CASE i \in 1..Len(segments)
      BY <1>1, <1>2, <2>1, ElementOfSeq
    <2>2. CASE i = Len(segments) + 1
      BY <1>1, <1>2, <2>2
    <2> QED
      BY <1>1, <1>2, <2>1, <2>2
  <1> HIDE DEF f
  <1>4. o \in Nat /\ ValidAt(f, o) /\ Len(f) \in Nat
    BY <1>3, ScanTypes, LenProperties DEF f
  <1>5. o + 1 \in 1..Len(f) /\ f[o + 1] \in Cell
    BY <1>3, <1>4, ElementOfSeq DEF ValidAt
  <1>6. b \in Batch /\ HoldsFrame(f, o, b)
    BY <1>4, <1>5 DEF ValidAt, BatchAt, Cell
  <1>7. f[o + 1] = [batch |-> b, part |-> 1]
    <2>1. 1 \in 1..FrameLen(b)
      BY <1>6, FrameIsSeq
    <2> QED
      BY <1>6, <2>1 DEF HoldsFrame
  <1>8. Stands(i, o + 1, [batch |-> b, part |-> 1])
    BY <1>3, <1>5, <1>7 DEF Stands, HereCell
  <1> QED
    BY <1>4, <1>8 DEF f

CommonLog(c, d) == Set(c.batch) \cap Set(d.batch) # {}
OneFrame(i, x, c, j, y, d) == i = j /\ c.batch = d.batch /\ x + d.part = y + c.part

LEMMA CellsOfOneFrame ==
  ASSUME StoreInv
  PROVE  \A i, x, c, j, y, d :
           Stands(i, x, c) /\ Stands(j, y, d) /\ CommonLog(c, d) => OneFrame(i, x, c, j, y, d)
  BY DEF StoreInv, PlaceInv, CommonLog, OneFrame

LEMMA StoreOneFrame == StoreInv => AtMostOneFrame
  <1> SUFFICES ASSUME StoreInv PROVE AtMostOneFrame
    OBVIOUS
  <1> DEFINE files  == Append(segments, file)
             frames == UNION {{<<i, o>> : o \in ScannedFrames(files[i])} : i \in 1..Len(files)}
  <1>1. ASSUME NEW i \in 1..Len(files), NEW o \in ScannedFrames(files[i]),
               NEW j \in 1..Len(files), NEW q \in ScannedFrames(files[j]),
               NEW l \in LogsAt(files[i], o), l \in LogsAt(files[j], q)
        PROVE  i = j /\ o = q
    <2> DEFINE c == [batch |-> BatchAt(files[i], o), part |-> 1]
               d == [batch |-> BatchAt(files[j], q), part |-> 1]
               x == o + 1
               y == q + 1
    <2>1. /\ Stands(i, x, c) /\ o \in Nat
          /\ Stands(j, y, d) /\ q \in Nat
      BY ScannedStands DEF StoreInv
    <2>2. l \in Set(c.batch) /\ l \in Set(d.batch) /\ c.part = 1 /\ d.part = 1
      BY <1>1 DEF LogsAt, Set
    <2>3. x = o + 1 /\ y = q + 1
      OBVIOUS
    <2> HIDE DEF c, d, x, y
    <2>4. Set(c.batch) \cap Set(d.batch) # {}
      BY <2>2
    <2>5. OneFrame(i, x, c, j, y, d)
      BY <2>1, <2>4, CellsOfOneFrame DEF CommonLog
    <2> QED
      BY <2>1, <2>2, <2>3, <2>5 DEF OneFrame
  <1>2. ASSUME NEW p \in frames
        PROVE  \E i \in 1..Len(files) : \E o \in ScannedFrames(files[i]) : p = <<i, o>>
    OBVIOUS
  <1> HIDE DEF files
  <1>3. ASSUME NEW p \in frames, NEW r \in frames,
               NEW l \in LogsAt(files[p[1]], p[2]), l \in LogsAt(files[r[1]], r[2])
        PROVE  p = r
    <2>1. PICK i \in 1..Len(files) : \E o \in ScannedFrames(files[i]) : p = <<i, o>>
      BY <1>2
    <2>2. PICK o \in ScannedFrames(files[i]) : p = <<i, o>>
      BY <2>1
    <2>3. PICK j \in 1..Len(files) : \E q \in ScannedFrames(files[j]) : r = <<j, q>>
      BY <1>2
    <2>4. PICK q \in ScannedFrames(files[j]) : r = <<j, q>>
      BY <2>3
    <2> QED
      BY <1>1, <1>3, <2>2, <2>4
  <1> HIDE DEF frames
  <1>4. \A p, r \in frames : p # r => LogsAt(files[p[1]], p[2]) \cap LogsAt(files[r[1]], r[2]) = {}
    BY <1>3
  <1> QED
    BY <1>4 DEF AtMostOneFrame, files, frames

(* Whatever fails, crashes or is overwritten after a restart, no log is in   *)
(* two frames that a scan of the active file and of the segments accepts:    *)
(* nothing is archived or replayed twice.                                    *)
THEOREM OneFramePerLog == Spec => []AtMostOneFrame
  BY StoreInit, StoreStep, StoreOneFrame, PTL DEF Spec

-----------------------------------------------------------------------------
(* The order in which the channel accepted the logs is kept all the way to   *)
(* the file.                                                                 *)

\* The channel accepted l before m.
Before(l, m) == \E i, j \in 1..Len(sent) : i < j /\ sent[i] = l /\ sent[j] = m

InOrder(s)  == \A i, j \in 1..Len(s) : i < j => Before(s[i], s[j])
Ahead(s, t) == \A l \in Set(s), m \in Set(t) : Before(l, m)

\* The logs that wait are in order, those of the batch first.
SentInv ==
  /\ InOrder(chan) /\ InOrder(batch) /\ Ahead(batch, chan)
  /\ Set(chan) \subseteq Set(sent) /\ Set(batch) \subseteq Set(sent)

\* The descriptor is at the end of the file, which reaches as far as the device.
EndInv ==
  /\ worker \in {"idle", "drained", "written", "synced"} =>
       cursor = Len(file) /\ Len(disk) <= Len(file)
  /\ worker = "opening" => file = <<>> /\ disk = <<>>

\* What is in the file came before what waits, and is in order itself.
OrderInv ==
  /\ \A x, c : HereCell(x, c) =>
       /\ Set(c.batch) \subseteq Set(sent)
       /\ InOrder(c.batch)
       /\ Ahead(c.batch, chan)
       /\ worker = "drained" => Ahead(c.batch, batch)
  /\ \A x, c, y, d :
       HereCell(x, c) /\ HereCell(y, d) /\ x < y /\ c.batch # d.batch =>
         Ahead(c.batch, d.batch)

\* The queue's order and, unless the engine restarts over it, the file's.
FileOrderInv == SentInv /\ ("restart" \notin taint => EndInv /\ OrderInv)

(* What has been accepted stays accepted, and a log that is new in the       *)
(* channel comes after all that was accepted.                                *)
LEMMA SentGrows ==
  TypeInv /\ [Next]_vars =>
    /\ \A l, m : Before(l, m) => Before(l, m)'
    /\ Set(sent) \subseteq Set(sent')
    /\ \/ Set(chan') \subseteq Set(chan) /\ (InOrder(chan) => InOrder(chan)')
       \/ /\ UNCHANGED <<worker, batch>>
          /\ \E m \in Logs : /\ chan' = Append(chan, m)
                             /\ \A l \in Set(sent) : Before(l, m)'
                             /\ m \in Set(sent')
  <1> SUFFICES ASSUME QueueType, [Next]_vars
               PROVE  /\ \A l, m : Before(l, m) => Before(l, m)'
                      /\ Set(sent) \subseteq Set(sent')
                      /\ \/ Set(chan') \subseteq Set(chan) /\ (InOrder(chan) => InOrder(chan)')
                         \/ /\ UNCHANGED <<worker, batch>>
                            /\ \E m \in Logs : /\ chan' = Append(chan, m)
                                               /\ \A l \in Set(sent) : Before(l, m)'
                                               /\ m \in Set(sent')
    BY DEF TypeInv, TypeOK
  <1> USE DEF data, seen, past
  <1>0. sent \in Seq(Logs) /\ chan \in Seq(Logs) /\ Len(sent) \in Nat /\ Len(chan) \in Nat
    BY LenProperties DEF QueueType
  <1>s. UNCHANGED sent => /\ \A l, m : Before(l, m) => Before(l, m)'
                          /\ Set(sent) \subseteq Set(sent')
    BY DEF Before
  <1>c. UNCHANGED <<chan, sent>> => Set(chan') \subseteq Set(chan) /\ (InOrder(chan) => InOrder(chan)')
    BY DEF InOrder, Before
  <1>n. chan' = <<>> => Set(chan') \subseteq Set(chan) /\ (InOrder(chan) => InOrder(chan)')
    BY EmptySeq DEF Set, InOrder
  <1>1. ASSUME NEW m \in Logs, Append_(m), UNCHANGED <<chan, sent>> \/ chan' = Append(chan, m)
        PROVE  /\ \A l, n : Before(l, n) => Before(l, n)'
               /\ Set(sent) \subseteq Set(sent')
               /\ \/ UNCHANGED <<chan, sent>>
                  \/ /\ UNCHANGED <<worker, batch>> /\ chan' = Append(chan, m)
                     /\ \A l \in Set(sent) : Before(l, m)'
                     /\ m \in Set(sent')
    <2>1. \/ UNCHANGED <<chan, sent>>
          \/ chan' = Append(chan, m) /\ sent' = Append(sent, m)
      BY <1>1 DEF Append_
    <2>2. CASE UNCHANGED <<chan, sent>>
      BY <1>s, <2>2
    <2>3. CASE chan' = Append(chan, m) /\ sent' = Append(sent, m)
      <3>1. /\ Len(sent') = Len(sent) + 1
            /\ \A i \in 1..Len(sent) : i \in 1..Len(sent') /\ sent'[i] = sent[i]
            /\ Len(sent') \in 1..Len(sent') /\ sent'[Len(sent')] = m
        BY <1>0, <2>3, AppendProperties
      <3>2. \A l, n : Before(l, n) => Before(l, n)'
        BY <3>1 DEF Before
      <3>3. Set(sent) \subseteq Set(sent') /\ m \in Set(sent')
        BY <3>1 DEF Set
      <3>4. ASSUME NEW l \in Set(sent) PROVE Before(l, m)'
        <4>1. PICK i \in 1..Len(sent) : l = sent[i]
          BY DEF Set
        <4>2. i < Len(sent') /\ sent'[i] = l
          BY <1>0, <3>1, <4>1
        <4> QED
          BY <3>1, <4>2 DEF Before
      <3>5. UNCHANGED <<worker, batch>>
        BY <1>1 DEF Append_
      <3> QED
        BY <2>3, <3>2, <3>3, <3>4, <3>5
    <2> QED
      BY <2>1, <2>2, <2>3
  <1>2. ASSUME NEW m \in Logs, Append_(m) PROVE UNCHANGED <<chan, sent>> \/ chan' = Append(chan, m)
    BY <1>2 DEF Append_
  <1>3. CASE Drain
    <2>1. /\ chan' = [i \in 1..(Len(chan) - DrainCount) |-> chan[i + DrainCount]]
          /\ chan # <<>> /\ UNCHANGED sent
      BY <1>3 DEF Drain, WorthDraining
    <2>2. /\ DrainCount \in Nat /\ DrainCount <= Len(chan)
          /\ Len(chan') = Len(chan) - DrainCount
      BY <1>0, <2>1, DrainSplits
    <2>3. \A i \in 1..Len(chan') : i + DrainCount \in 1..Len(chan) /\ chan'[i] = chan[i + DrainCount]
      <3>1. \A i \in 1..(Len(chan) - DrainCount) : i + DrainCount \in 1..Len(chan)
        BY <1>0, <2>2
      <3> QED
        BY <2>1, <2>2, <3>1
    <2>4. Set(chan') \subseteq Set(chan)
      BY <2>3 DEF Set
    <2>5. InOrder(chan) => InOrder(chan)'
      <3>1. \A i, j \in 1..Len(chan') : i < j => i + DrainCount < j + DrainCount
        BY <1>0, <2>2
      <3>2. \A l, n : Before(l, n) => Before(l, n)'
        BY <1>s, <2>1
      <3> QED
        BY <2>3, <3>1, <3>2 DEF InOrder
    <2> QED
      BY <1>s, <2>1, <2>4, <2>5
  <1>4. ASSUME NEW k \in 0..(FrameLen(batch) - 1), NEW torn \in BOOLEAN,
               WriteFails(k, torn) \/ WriteFailsLate(k, torn)
        PROVE  UNCHANGED <<chan, sent>>
    BY <1>4 DEF WriteFails, WriteFailsLate
  <1>5. CASE \/ WriteFrame \/ ReportHeld \/ Sync \/ SyncFails \/ Publish \/ FlushTick
             \/ AskRotate \/ RotateRename \/ RenameFails \/ Reopen \/ ClearIndex
             \/ Restart \/ Open \/ UNCHANGED vars
    <2>1. UNCHANGED <<chan, sent>>
      BY <1>5 DEF WriteFrame, ReportHeld, Sync, SyncFails, Publish, FlushTick, AskRotate,
                  RotateRename, RenameFails, Reopen, ClearIndex, Restart, Open, vars
    <2> QED
      BY <1>s, <1>c, <2>1
  <1>6. CASE Crash \/ OpenPanics
    <2>1. chan' = <<>> /\ UNCHANGED sent
      BY <1>6 DEF Crash, OpenPanics
    <2> QED
      BY <1>s, <1>n, <2>1
  <1> QED
    <2>1. CASE \E m \in Logs : Append_(m)
      BY <1>1, <1>2, <1>c, <2>1
    <2>2. CASE \E k \in 0..(FrameLen(batch) - 1), torn \in BOOLEAN :
                 WriteFails(k, torn) \/ WriteFailsLate(k, torn)
      BY <1>4, <1>s, <1>c, <2>2
    <2> QED
      BY <1>3, <1>5, <1>6, <2>1, <2>2 DEF Next, Rotate, WriteBatchToDisk

(* The batch stays, is emptied, or is drawn from the head of the channel.    *)
LEMMA BatchMoves ==
  TypeInv /\ [Next]_vars =>
    \/ UNCHANGED batch /\ (worker' = "drained" => worker = "drained")
    \/ batch' = <<>> /\ worker' # "drained"
    \/ /\ Drain
       /\ Set(batch') \subseteq Set(chan)
       /\ InOrder(chan) => InOrder(batch)' /\ Ahead(batch, chan)'
  <1> SUFFICES ASSUME QueueType, [Next]_vars
               PROVE  \/ UNCHANGED batch /\ (worker' = "drained" => worker = "drained")
                      \/ batch' = <<>> /\ worker' # "drained"
                      \/ /\ Drain
                         /\ Set(batch') \subseteq Set(chan)
                         /\ InOrder(chan) => InOrder(batch)' /\ Ahead(batch, chan)'
    BY DEF TypeInv, TypeOK
  <1> USE DEF data, seen, past
  <1>1. CASE Drain
    <2>0. chan \in Seq(Logs) /\ Len(chan) \in Nat
      BY LenProperties DEF QueueType
    <2>1. /\ batch' = NextBatch
          /\ chan' = [i \in 1..(Len(chan) - DrainCount) |-> chan[i + DrainCount]]
          /\ chan # <<>> /\ UNCHANGED sent
      BY <1>1 DEF Drain, WorthDraining
    <2>2. /\ DrainCount \in Nat /\ DrainCount <= Len(chan)
          /\ Len(batch') = DrainCount /\ Len(chan') = Len(chan) - DrainCount
      BY <2>0, <2>1, DrainSplits
    <2>3. /\ \A i \in 1..Len(batch') : i \in 1..Len(chan) /\ batch'[i] = chan[i]
          /\ \A i \in 1..Len(chan') : i + DrainCount \in 1..Len(chan)
                                      /\ chan'[i] = chan[i + DrainCount]
      <3>1. \A i \in 1..DrainCount : i \in 1..Len(chan)
        BY <2>0, <2>2
      <3>2. \A i \in 1..(Len(chan) - DrainCount) : i + DrainCount \in 1..Len(chan)
        BY <2>0, <2>2
      <3> QED
        BY <2>1, <2>2, <3>1, <3>2 DEF NextBatch
    <2>4. Set(batch') \subseteq Set(chan)
      BY <2>3 DEF Set
    <2>5. \A l, m : Before(l, m) => Before(l, m)'
      BY <2>1 DEF Before
    <2>6. InOrder(chan) => InOrder(batch)'
      BY <2>3, <2>5 DEF InOrder
    <2>7. ASSUME InOrder(chan), NEW l \in Set(batch'), NEW m \in Set(chan') PROVE Before(l, m)'
      <3>1. PICK i \in 1..Len(batch') : l = batch'[i]
        BY <2>7 DEF Set
      <3>2. PICK j \in 1..Len(chan') : m = chan'[j]
        BY <2>7 DEF Set
      <3>3. i < j + DrainCount
        BY <2>0, <2>2, <3>1, <3>2
      <3>4. Before(chan[i], chan[j + DrainCount])
        BY <2>3, <2>7, <3>1, <3>2, <3>3 DEF InOrder
      <3> QED
        BY <2>3, <2>5, <3>1, <3>2, <3>4
    <2>8. InOrder(chan) => Ahead(batch, chan)'
      BY <2>7 DEF Ahead
    <2> QED
      BY <1>1, <2>4, <2>6, <2>8
  <1>2. ASSUME NEW k \in 0..(FrameLen(batch) - 1), NEW torn \in BOOLEAN,
               WriteFails(k, torn) \/ WriteFailsLate(k, torn)
        PROVE  \/ batch' = <<>> /\ worker' # "drained"
               \/ UNCHANGED batch /\ worker' # "drained"
    BY <1>2 DEF WriteFails, WriteFailsLate
  <1>3. CASE \/ \E l \in Logs : Append_(l)
             \/ WriteFrame \/ Sync \/ FlushTick \/ AskRotate \/ RotateRename \/ RenameFails
             \/ Reopen \/ OpenPanics \/ ClearIndex \/ Restart \/ Open \/ UNCHANGED vars
    BY <1>3 DEF Append_, WriteFrame, Sync, FlushTick, AskRotate, RotateRename, RenameFails,
                Reopen, OpenPanics, ClearIndex, Restart, Open, vars
  <1>4. CASE ReportHeld \/ SyncFails \/ Publish \/ Crash
    BY <1>4 DEF ReportHeld, SyncFails, Publish, Crash
  <1> QED
    BY <1>1, <1>2, <1>3, <1>4 DEF Next, Rotate, WriteBatchToDisk

LEMMA SentStep == TypeInv /\ SentInv /\ [Next]_vars => SentInv'
  <1> SUFFICES ASSUME TypeInv, SentInv, [Next]_vars PROVE SentInv'
    OBVIOUS
  <1>0. /\ chan \in Seq(Logs) /\ batch \in Seq(Logs)
        /\ Len(chan) \in Nat /\ Len(batch) \in Nat
    BY LenProperties DEF TypeInv, TypeOK, QueueType
  <1>g. /\ \A l, m : Before(l, m) => Before(l, m)'
        /\ Set(sent) \subseteq Set(sent')
    BY SentGrows
  <1>e. Set(<<>>) = {} /\ (batch' = <<>> => InOrder(batch)')
    BY EmptySeq DEF Set, InOrder
  <1>1. ASSUME UNCHANGED batch PROVE InOrder(batch)'
    BY <1>1, <1>g DEF InOrder, SentInv
  <1>2. CASE Set(chan') \subseteq Set(chan) /\ InOrder(chan)'
    <2>1. Set(chan') \subseteq Set(sent')
      BY <1>2, <1>g DEF SentInv
    <2>2. CASE UNCHANGED batch
      <3>1. Ahead(batch, chan)'
        BY <1>2, <1>g, <2>2 DEF Ahead, SentInv
      <3> QED
        BY <1>1, <1>2, <1>g, <2>1, <2>2, <3>1 DEF SentInv
    <2>3. CASE batch' = <<>>
      <3>1. Ahead(batch, chan)'
        BY <1>e, <2>3 DEF Ahead
      <3> QED
        BY <1>2, <1>e, <2>1, <2>3, <3>1 DEF SentInv
    <2>4. CASE Set(batch') \subseteq Set(chan) /\ InOrder(batch)' /\ Ahead(batch, chan)'
      BY <1>2, <1>g, <2>1, <2>4 DEF SentInv
    <2> QED
      BY <2>2, <2>3, <2>4, BatchMoves DEF SentInv
  <1>3. ASSUME UNCHANGED batch, NEW m \in Logs, chan' = Append(chan, m),
               \A l \in Set(sent) : Before(l, m)', m \in Set(sent')
        PROVE  SentInv'
    <2>1. /\ Len(chan') = Len(chan) + 1
          /\ \A i \in 1..Len(chan) : chan'[i] = chan[i]
          /\ chan'[Len(chan) + 1] = m
      BY <1>0, <1>3, AppendProperties
    <2>2. \A i \in 1..Len(chan') : i \in 1..Len(chan) \/ i = Len(chan) + 1
      BY <1>0, <2>1
    <2>3. \A n \in Set(chan') : n \in Set(chan) \/ n = m
      BY <2>1, <2>2 DEF Set
    <2>4. InOrder(chan)'
      <3>1. ASSUME NEW i \in 1..Len(chan'), NEW j \in 1..Len(chan'), i < j
            PROVE  Before(chan[i], chan[j])'
        <4>1. i \in 1..Len(chan)
          BY <1>0, <2>1, <3>1
        <4>2. chan'[i] = chan[i] /\ chan[i] \in Set(chan)
          BY <2>1, <4>1 DEF Set
        <4>3. CASE j \in 1..Len(chan)
          BY <1>g, <2>1, <3>1, <4>1, <4>2, <4>3 DEF SentInv, InOrder
        <4>4. CASE j = Len(chan) + 1
          BY <1>3, <2>1, <4>2, <4>4 DEF SentInv
        <4> QED
          BY <2>2, <4>3, <4>4
      <3> QED
        BY <3>1 DEF InOrder
    <2>5. Ahead(batch, chan)'
      BY <1>3, <1>g, <2>3 DEF Ahead, SentInv
    <2>6. Set(chan') \subseteq Set(sent') /\ Set(batch') \subseteq Set(sent')
      BY <1>3, <1>g, <2>3 DEF SentInv
    <2> QED
      BY <1>1, <1>3, <2>4, <2>5, <2>6 DEF SentInv
  <1> QED
    <2>1. InOrder(chan)
      BY DEF SentInv
    <2> QED
      BY <1>2, <1>3, <2>1, SentGrows

(* A write at the end of the file ends it.                                   *)
LEMMA OverlayEnds ==
  ASSUME NEW f \in Seq(Cell), NEW part \in Seq(Cell)
  PROVE  Len(Overlay(f, Len(f), part)) = Len(f) + Len(part)
  <1>1. Len(f) \in Nat /\ Len(part) \in Nat /\ Len(f) <= Len(f)
    BY LenProperties
  <1>2. Overlay(f, Len(f), part) \in Seq(Cell)
    BY <1>1, OverlayIsSeq
  <1>3. /\ DOMAIN Overlay(f, Len(f), part) = 1..Len(Overlay(f, Len(f), part))
        /\ Len(Overlay(f, Len(f), part)) \in Nat
    BY <1>2, LenProperties
  <1>4. (IF Len(f) + Len(part) > Len(f) THEN Len(f) + Len(part) ELSE Len(f)) = Len(f) + Len(part)
    BY <1>1
  <1>5. DOMAIN Overlay(f, Len(f), part) = 1..(Len(f) + Len(part))
    BY <1>4 DEF Overlay
  <1>6. Overlay(f, Len(f), part) \in [1..(Len(f) + Len(part)) -> Cell]
    <2> DEFINE g == Overlay(f, Len(f), part)
    <2>1. g \in Seq(Cell) /\ DOMAIN g = 1..(Len(f) + Len(part))
      BY <1>2, <1>5
    <2> HIDE DEF g
    <2>2. g \in [DOMAIN g -> Cell]
      BY <2>1, LenProperties
    <2> QED
      BY <2>1, <2>2 DEF g
  <1> QED
    BY <1>1, <1>6, FcnIsSeq

LEMMA EndStep ==
  TypeInv /\ ("restart" \notin taint => EndInv) /\ [Next]_vars /\ "restart" \notin taint'
    => EndInv'
  <1> SUFFICES ASSUME QueueType, FileType, CursorInv, "restart" \notin taint => EndInv,
                      [Next]_vars, "restart" \notin taint'
               PROVE  EndInv'
    BY DEF TypeInv, TypeOK
  <1> USE DEF data, seen, past
  <1>0. /\ batch \in Batch /\ file \in Seq(Cell) /\ disk \in Seq(Cell)
        /\ Len(file) \in Nat /\ Len(disk) \in Nat /\ Len(<<>>) = 0
    BY LenProperties, EmptySeq DEF QueueType, FileType, Batch
  <1>o. ASSUME NEW part \in Seq(Cell), worker = "drained", EndInv, worker' # "opening",
               file' = Overlay(file, cursor, part), cursor' = cursor + Len(part),
               UNCHANGED disk
        PROVE  EndInv'
    <2>1. cursor = Len(file) /\ Len(part) \in Nat
      BY <1>o, LenProperties DEF EndInv
    <2>2. Len(file') = Len(file) + Len(part)
      BY <1>0, <1>o, <2>1, OverlayEnds
    <2> QED
      BY <1>0, <1>o, <2>1, <2>2 DEF EndInv
  <1>1. CASE WriteFrame
    <2>1. /\ Frame(batch) \in Seq(Cell) /\ Len(Frame(batch)) = FrameLen(batch)
      BY <1>0, FrameIsSeq
    <2>2. /\ worker = "drained" /\ worker' # "opening" /\ UNCHANGED <<disk, taint>>
          /\ file' = Overlay(file, cursor, Frame(batch)) /\ cursor' = cursor + FrameLen(batch)
      BY <1>1 DEF WriteFrame
    <2> QED
      BY <1>o, <2>1, <2>2
  <1>2. ASSUME NEW k \in 0..(FrameLen(batch) - 1), NEW torn \in BOOLEAN,
               WriteFails(k, torn) \/ WriteFailsLate(k, torn)
        PROVE  EndInv'
    <2> DEFINE part == TornFrame(batch, k, torn)
    <2>1. part \in Seq(Cell)
      BY <1>0, TornFrameIsSeq
    <2>2. /\ worker = "drained" /\ worker' # "opening" /\ UNCHANGED disk
          /\ file' = Overlay(file, cursor, part) /\ cursor' = cursor + Len(part)
          /\ taint \subseteq taint'
      BY <1>2 DEF WriteFails, WriteFailsLate
    <2> HIDE DEF part
    <2> QED
      BY <1>o, <2>1, <2>2
  <1>3. CASE Sync \/ FlushTick \/ RenameFails
    <2>1. UNCHANGED <<file, cursor, taint>> /\ disk' = file
          /\ worker \in {"idle", "written"} /\ worker' # "opening"
      BY <1>3 DEF Sync, Barrier, FlushTick, RenameFails
    <2> QED
      BY <1>0, <2>1 DEF EndInv
  <1>4. CASE RotateRename
    BY <1>4 DEF RotateRename, EndInv
  <1>5. CASE Reopen
    BY <1>5 DEF Reopen, EndInv
  <1>6. CASE ClearIndex
    BY <1>0, <1>6 DEF ClearIndex, CursorInv, EndInv
  <1>7. CASE Open
    BY <1>0, <1>7 DEF Open, EndInv
  <1>8. CASE Crash
    BY <1>8 DEF Crash, EndInv
  <1>9. CASE Restart
    <2>1. file' = <<>> /\ worker' = "opening"
      BY <1>9 DEF Restart
    <2>2. PICK end \in ScanPositions(file) :
            \/ disk' = file'
            \/ end < Len(file) /\ UNCHANGED <<file, disk>>
      BY <1>9 DEF Restart
    <2>3. end \in 0..Len(file)
      BY <1>0, ScanTypes
    <2>4. ~(end < Len(file) /\ UNCHANGED file)
      BY <1>0, <2>1, <2>3
    <2> QED
      BY <2>1, <2>2, <2>4 DEF EndInv
  <1>10. CASE OpenPanics
    BY <1>10 DEF OpenPanics, EndInv
  <1>11. CASE SyncFails
    <2>1. worker = "written" /\ worker' = "idle" /\ UNCHANGED <<file, disk, cursor>>
          /\ taint \subseteq taint'
      BY <1>11 DEF SyncFails
    <2> QED
      BY <2>1 DEF EndInv
  <1>12. CASE \/ \E l \in Logs : Append_(l)
              \/ Drain \/ ReportHeld \/ Publish \/ AskRotate \/ UNCHANGED vars
    BY <1>12 DEF Append_, Drain, ReportHeld, Publish, AskRotate, vars, EndInv
  <1> QED
    BY <1>1, <1>2, <1>3, <1>4, <1>5, <1>6, <1>7, <1>8, <1>9, <1>10, <1>11, <1>12
       DEF Next, Rotate, WriteBatchToDisk

LEMMA OrderStep ==
  /\ StoreInv /\ FileOrderInv /\ [Next]_vars /\ QueueInv' /\ CursorInv'
  /\ "restart" \notin taint'
  => OrderInv'
  <1> SUFFICES ASSUME StoreInv, FileOrderInv, [Next]_vars, QueueInv', CursorInv',
                      "restart" \notin taint'
               PROVE  OrderInv'
    OBVIOUS
  <1>t. /\ TypeInv /\ QueueType /\ SentInv
        /\ Set(<<>>) = {} /\ Len(<<>>) = 0
    BY EmptySeq DEF StoreInv, FileOrderInv, TypeInv, TypeOK, Set
  <1>g. /\ \A l, m : Before(l, m) => Before(l, m)'
        /\ Set(sent) \subseteq Set(sent')
    BY <1>t, SentGrows
  \* A file without a cell is in order.
  <1>e. ASSUME \A x, c : ~HereCell(x, c)' PROVE OrderInv'
    BY <1>e DEF OrderInv
  <1>1. CASE RotateRename \/ Reopen
    <2>1. file' = <<>> /\ disk' = <<>>
      BY <1>1, <1>t DEF RotateRename, RenameAway, Reopen, TypeInv, CursorInv
    <2>2. \A x, c : ~HereCell(x, c)'
      BY <1>t, <2>1 DEF HereCell
    <2> QED
      BY <1>e, <2>2
  <1>2. CASE ~RotateRename /\ ~Reopen
    <2> USE DEF data, seen, past
    <2>1. "restart" \notin taint
      <3>1. taint \subseteq taint'
        BY <1>2 DEF Next, WriteBatchToDisk, Rotate, vars, Append_, Drain, WriteFrame,
                    WriteFails, WriteFailsLate, ReportHeld, Sync, SyncFails, Publish,
                    FlushTick, AskRotate, RenameFails, OpenPanics, ClearIndex, Crash,
                    Restart, Open
      <3> QED
        BY <3>1
    <2>2. EndInv /\ OrderInv
      BY <2>1 DEF FileOrderInv
    \* Every cell is an old one, or one of the batch that was just written.
    <2>3. \A x, c : HereCell(x, c)' =>
            HereCell(x, c) \/ Set(c.batch) = {} \/ (NewCell(x, c) /\ Wrote)
      BY <1>2, <1>t, CellsCome DEF MayCome
    \* What held of the logs of an old cell holds of the batch.
    <2>5. ASSUME NEW x, NEW c, HereCell(x, c)', c.batch # <<>>
          PROVE  Set(c.batch) \subseteq Set(sent) /\ InOrder(c.batch) /\ Ahead(c.batch, chan)
      <3>1. HereCell(x, c) \/ NewCell(x, c)
        BY <1>2, <1>t, <2>5, CellsCome DEF MayCome
      <3> QED
        BY <1>t, <2>2, <3>1 DEF OrderInv, SentInv, NewCell
    <2>6. ASSUME NEW x, NEW c, HereCell(x, c)'
          PROVE  Set(c.batch) \subseteq Set(sent') /\ InOrder(c.batch)' /\ Ahead(c.batch, chan)'
      <3>1. CASE c.batch = <<>>
        BY <1>t, <3>1 DEF InOrder, Ahead
      <3>2. CASE c.batch # <<>>
        <4>1. Set(c.batch) \subseteq Set(sent) /\ InOrder(c.batch) /\ Ahead(c.batch, chan)
          BY <2>5, <2>6, <3>2
        <4>2. Ahead(c.batch, chan)'
          <5>1. CASE Set(chan') \subseteq Set(chan)
            BY <1>g, <4>1, <5>1 DEF Ahead
          <5>2. ASSUME NEW m \in Logs, chan' = Append(chan, m),
                       \A l \in Set(sent) : Before(l, m)'
                PROVE  Ahead(c.batch, chan)'
            <6>1. /\ chan \in Seq(Logs) /\ Len(chan) \in Nat
                  /\ Len(chan') = Len(chan) + 1
                  /\ \A i \in 1..Len(chan) : chan'[i] = chan[i]
                  /\ chan'[Len(chan) + 1] = m
              BY <1>t, <5>2, AppendProperties, LenProperties DEF QueueType
            <6>2. \A n \in Set(chan') : n \in Set(chan) \/ n = m
              <7>1. \A i \in 1..Len(chan') : i \in 1..Len(chan) \/ i = Len(chan) + 1
                BY <6>1
              <7> QED
                BY <6>1, <7>1 DEF Set
            <6> QED
              BY <1>g, <4>1, <5>2, <6>2 DEF Ahead
          <5> QED
            BY <1>t, <5>1, <5>2, SentGrows
        <4>3. InOrder(c.batch)'
          BY <1>g, <4>1 DEF InOrder
        <4> QED
          BY <1>g, <4>1, <4>2, <4>3
      <3> QED
        BY <3>1, <3>2
    <2>7. ASSUME NEW x, NEW c, HereCell(x, c)', worker' = "drained"
          PROVE  Ahead(c.batch, batch)'
      <3>1. CASE c.batch = <<>>
        BY <1>t, <3>1 DEF Ahead
      <3>2. CASE c.batch # <<>> /\ NewCell(x, c) /\ Wrote
        <4>1. fate' = Settle(Set(batch), "dropped") /\ worker = "drained"
          BY <2>7, <3>2 DEF Wrote, NewCell
        <4>2. UNCHANGED batch
          BY <1>t, <2>7, <4>1, BatchMoves DEF Drain
        <4>3. batch # <<>> /\ batch \in Seq(Logs) /\ Len(batch) \in Nat
          BY <1>t, <4>1, LenProperties DEF TypeInv, CursorInv, QueueType
        <4>4. 1 \in 1..Len(batch) /\ batch[1] \in Logs
          BY <4>3, EmptySeq, ElementOfSeq
        <4>5. fate'[batch[1]] = "sent"
          BY <4>2, <4>4 DEF QueueInv
        <4>6. batch[1] \in Set(batch)
          BY <4>4 DEF Set
        <4>7. fate'[batch[1]] = "dropped"
          BY <1>t, <4>1, <4>4, <4>6, SettleValue
        <4> QED
          BY <4>5, <4>7
      <3>3. CASE c.batch # <<>> /\ HereCell(x, c)
        <4>1. CASE UNCHANGED batch /\ worker = "drained"
          BY <1>g, <2>2, <3>3, <4>1 DEF OrderInv, Ahead
        <4>2. CASE Set(batch') \subseteq Set(chan)
          BY <1>g, <2>2, <3>3, <4>2 DEF OrderInv, Ahead
        <4> QED
          BY <1>t, <2>7, <4>1, <4>2, BatchMoves
      <3> QED
        BY <1>2, <1>t, <2>7, <3>1, <3>2, <3>3, CellsCome DEF MayCome
    <2>8. ASSUME NEW x, NEW c, NEW y, NEW d, HereCell(x, c)', HereCell(y, d)',
                 x < y, c.batch # d.batch
          PROVE  Ahead(c.batch, d.batch)'
      <3>0. /\ file \in Seq(Cell) /\ disk \in Seq(Cell) /\ cursor \in Nat
            /\ Len(file) \in Nat /\ Len(disk) \in Nat
        BY <1>t, LenProperties DEF TypeInv, TypeOK, FileType
      <3>1. CASE c.batch = <<>> \/ d.batch = <<>>
        BY <1>t, <3>1 DEF Ahead
      <3>2. CASE HereCell(x, c) /\ HereCell(y, d)
        BY <1>g, <2>2, <2>8, <3>2 DEF OrderInv, Ahead
      <3>3. CASE HereCell(x, c) /\ NewCell(y, d)
        <4>1. Ahead(c.batch, batch) /\ d.batch = batch
          BY <2>2, <3>3 DEF OrderInv, NewCell
        <4> QED
          BY <1>g, <4>1 DEF Ahead
      <3>4. CASE NewCell(x, c) /\ HereCell(y, d)
        <4>1. cursor = Len(file) /\ Len(disk) <= Len(file)
          BY <2>2, <3>4 DEF EndInv, NewCell
        <4>2. x = cursor + c.part /\ c.part \in Nat /\ c.part >= 1
          BY <3>4 DEF NewCell
        <4>3. y \in Nat /\ y <= Len(file)
          BY <3>0, <3>4, <4>1 DEF HereCell
        <4> QED
          BY <2>8, <3>0, <4>1, <4>2, <4>3
      <3>5. CASE NewCell(x, c) /\ NewCell(y, d)
        BY <2>8, <3>5 DEF NewCell
      <3>6. /\ HereCell(x, c) \/ c.batch = <<>> \/ NewCell(x, c)
            /\ HereCell(y, d) \/ d.batch = <<>> \/ NewCell(y, d)
        BY <1>2, <1>t, <2>8, CellsCome DEF MayCome
      <3> QED
        BY <3>1, <3>2, <3>3, <3>4, <3>5, <3>6
    <2> QED
      BY <2>6, <2>7, <2>8 DEF OrderInv
  <1> QED
    BY <1>1, <1>2

LEMMA FileOrderInit == Init => FileOrderInv
  <1> SUFFICES ASSUME Init PROVE FileOrderInv
    OBVIOUS
  <1>1. Set(<<>>) = {} /\ Len(<<>>) = 0
    BY EmptySeq DEF Set
  <1>2. SentInv
    BY <1>1 DEF Init, SentInv, InOrder, Ahead
  <1>3. EndInv
    BY DEF Init, EndInv
  <1>4. \A x, c : ~HereCell(x, c)
    BY <1>1 DEF Init, HereCell
  <1> QED
    BY <1>2, <1>3, <1>4 DEF FileOrderInv, OrderInv

LEMMA FileOrderStep ==
  StoreInv /\ FileOrderInv /\ [Next]_vars => FileOrderInv'
  <1> SUFFICES ASSUME StoreInv, FileOrderInv, [Next]_vars PROVE FileOrderInv'
    OBVIOUS
  <1>1. QueueInv' /\ CursorInv'
    BY TypeStep, QueueStep DEF StoreInv, TypeInv
  <1>2. SentInv'
    BY SentStep DEF StoreInv, FileOrderInv
  <1>3. "restart" \notin taint' => EndInv' /\ OrderInv'
    BY <1>1, EndStep, OrderStep DEF StoreInv, FileOrderInv
  <1> QED
    BY <1>2, <1>3 DEF FileOrderInv

LEMMA FileOrderIsRecovered == StoreInv /\ FileOrderInv => RecoveryInOrder
  <1> SUFFICES ASSUME StoreInv, OrderInv,
                      NEW p \in ScannedFrames(file), NEW q \in ScannedFrames(file),
                      NEW i \in 1..Len(BatchAt(file, p)), NEW j \in 1..Len(BatchAt(file, q)),
                      p < q \/ (p = q /\ i < j)
               PROVE  Before(BatchAt(file, p)[i], BatchAt(file, q)[j])
    BY DEF FileOrderInv, RecoveryInOrder, Before
  <1> DEFINE n == Len(segments) + 1
             b == BatchAt(file, p)
             e == BatchAt(file, q)
             c == [batch |-> b, part |-> 1]
             d == [batch |-> e, part |-> 1]
             x == p + 1
             y == q + 1
  <1>1. /\ Append(segments, file)[n] = file /\ n \in 1..Len(Append(segments, file))
        /\ n \notin 1..Len(segments)
    <2>1. segments \in Seq(Seq(Cell)) /\ file \in Seq(Cell) /\ Len(segments) \in Nat
      BY LenProperties DEF StoreInv, TypeInv, TypeOK, FileType
    <2> QED
      BY <2>1, AppendProperties
  <1>2. /\ Stands(n, x, c) /\ p \in Nat
        /\ Stands(n, y, d) /\ q \in Nat
    BY <1>1, ScannedStands DEF StoreInv
  <1>3. c.batch = b /\ c.part = 1 /\ d.batch = e /\ d.part = 1 /\ x = p + 1 /\ y = q + 1
    OBVIOUS
  <1>4. b[i] \in Set(b) /\ e[j] \in Set(e)
    BY DEF Set
  <1> HIDE DEF n, b, e, c, d, x, y
  <1>5. HereCell(x, c) /\ HereCell(y, d)
    BY <1>1, <1>2 DEF Stands
  <1>6. CASE p = q /\ i < j
    <2>1. b = e
      BY <1>6 DEF b, e
    <2>2. InOrder(b)
      BY <1>3, <1>5 DEF OrderInv
    <2>3. Before(b[i], b[j])
      BY <1>6, <2>1, <2>2 DEF InOrder, b, e
    <2> QED
      BY <2>1, <2>3 DEF b, e
  <1>7. CASE p < q
    <2>1. b # e
      <3>1. ASSUME b = e PROVE FALSE
        <4>1. Set(c.batch) \cap Set(d.batch) # {}
          BY <1>3, <1>4, <3>1
        <4>2. OneFrame(n, x, c, n, y, d)
          BY <1>2, <4>1, CellsOfOneFrame DEF CommonLog
        <4> QED
          BY <1>2, <1>3, <1>7, <4>2 DEF OneFrame
      <3> QED
        BY <3>1
    <2>2. x < y
      BY <1>2, <1>3, <1>7
    <2>3. Ahead(c.batch, d.batch)
      BY <1>3, <1>5, <2>1, <2>2 DEF OrderInv
    <2>4. Before(b[i], e[j])
      BY <1>3, <1>4, <2>3 DEF Ahead
    <2> QED
      BY <2>4 DEF b, e
  <1> QED
    BY <1>6, <1>7

(* As long as the engine has not restarted over a log that is not empty,     *)
(* recovery returns the logs in the order the channel accepted them, across  *)
(* frames and within each, whatever writes and syncs failed before.          *)
THEOREM RecoveryKeepsOrder == Spec => []RecoveryInOrder
  <1>1. Init => StoreInv /\ FileOrderInv
    BY StoreInit, FileOrderInit
  <1>2. StoreInv /\ FileOrderInv /\ [Next]_vars => (StoreInv /\ FileOrderInv)'
    BY StoreStep, FileOrderStep
  <1> QED
    BY <1>1, <1>2, FileOrderIsRecovered, PTL DEF Spec

-----------------------------------------------------------------------------
(* A published log outlives a crash.                                         *)

(* Every non-empty set of numbers has a least element.                       *)
LEMMA LeastNumber ==
  ASSUME NEW T \in SUBSET Nat, T # {}
  PROVE  \E x \in T : \A y \in T : x <= y
  <1>1. PICK x \in T : \A y \in T : ~(<<y, x>> \in OpToRel(<, Nat))
    BY NatLessThanWellFounded, WFMin
  <1>2. \A y \in T : ~(y < x)
    BY <1>1 DEF OpToRel
  <1> QED
    BY <1>2

(* The recovery loop is at 0, and at the end of a frame or of an empty frame *)
(* it was at: the recursion that defines ScanPositions has a solution, the   *)
(* smallest set of offsets closed under a turn of the loop.                  *)
LEMMA ScanTurns ==
  ASSUME NEW f \in Seq(Cell), NEW o \in 0..Len(f)
  PROVE  o \in ScanPositions(f) <=>
           \/ o = 0
           \/ \E p \in 0..(o - 1) :
                /\ \/ ValidAt(f, p) /\ NextFrame(f, p) = o
                   \/ EmptyAt(f, p) /\ p + 2 = o
                /\ p \in ScanPositions(f)
  <1> DEFINE n == Len(f)
             Turn(p, x) == \/ ValidAt(f, p) /\ NextFrame(f, p) = x
                           \/ EmptyAt(f, p) /\ p + 2 = x
             From(x, S) == x = 0 \/ \E p \in 0..(x - 1) : Turn(p, x) /\ p \in S
             Closed(S) == \A x \in 0..n : From(x, S) => x \in S
             Least == {x \in 0..n : \A S \in SUBSET (0..n) : Closed(S) => x \in S}
             Defines(v) == v = [x \in 0..n |-> \/ x = 0
                                               \/ \E p \in 0..(x - 1) : Turn(p, x) /\ v[p]]
  <1>0. n \in Nat
    BY LenProperties
  <1> HIDE DEF Turn, n
  <1>1. Closed(Least)
    <2> SUFFICES ASSUME NEW x \in 0..n, From(x, Least),
                        NEW S \in SUBSET (0..n), Closed(S)
                 PROVE  x \in S
      OBVIOUS
    <2>1. From(x, S)
      OBVIOUS
    <2> QED
      BY <2>1
  <1>2. \A x \in Least : From(x, Least)
    <2> DEFINE S == {x \in 0..n : From(x, Least)}
    <2>1. Closed(S)
      <3> HIDE DEF Least
      <3>1. S \subseteq Least
        BY <1>1
      <3> QED
        BY <3>1
    <2>2. S \in SUBSET (0..n)
      OBVIOUS
    <2>3. Least \subseteq S
      <3> HIDE DEF S
      <3> QED
        BY <2>1, <2>2
    <2> QED
      BY <2>3
  <1>3. \E v : Defines(v)
    <2> DEFINE v == [x \in 0..n |-> x \in Least]
    <2>1. ASSUME NEW x \in 0..n
          PROVE  v[x] <=> \/ x = 0
                          \/ \E p \in 0..(x - 1) : Turn(p, x) /\ v[p]
      <3>1. \A p \in 0..(x - 1) : p \in 0..n
        BY <1>0
      <3> HIDE DEF Least
      <3>2. x \in Least <=> From(x, Least)
        BY <1>1, <1>2
      <3> QED
        BY <3>1, <3>2
    <2>2. Defines(v)
      <3>1. ASSUME NEW x \in 0..n
            PROVE  v[x] = (\/ x = 0
                           \/ \E p \in 0..(x - 1) : Turn(p, x) /\ v[p])
        <4>1. v[x] \in BOOLEAN
          OBVIOUS
        <4> HIDE DEF v
        <4> QED
          BY <2>1, <4>1, Zenon
      <3>2. v = [x \in 0..n |-> v[x]]
        OBVIOUS
      <3> HIDE DEF v
      <3> QED BY <3>1, <3>2, Zenon
    <2> QED
      BY <2>2
  <1> DEFINE visited == CHOOSE v : Defines(v)
  <1>4. Defines(visited)
    <2> HIDE DEF Defines
    <2> QED
      BY <1>3
  <1>5. ScanPositions(f) = {x \in 0..n : visited[x]}
    BY Zenon DEF ScanPositions, n, Turn
  <1> HIDE DEF visited
  <1>6. visited[o] <=> \/ o = 0
                       \/ \E p \in 0..(o - 1) : Turn(p, o) /\ visited[p]
    BY <1>4 DEF n
  <1>7. \A p \in 0..(o - 1) : p \in 0..n
    BY <1>0 DEF n
  <1> QED
    BY <1>5, <1>6, <1>7 DEF Turn, n

(* When the loop stops at once, it has visited nothing but the start.        *)
LEMMA ScanStopsAtOnce ==
  ASSUME NEW f \in Seq(Cell), StopsAt(f, 0)
  PROVE  ScannedLogs(f) = {}
  <1>1. ScanPositions(f) \subseteq 0..Len(f) /\ Len(f) \in Nat
    BY ScanTypes, LenProperties
  <1> DEFINE later == {o \in ScanPositions(f) : o # 0}
  <1>2. ASSUME later # {} PROVE FALSE
    <2>1. later \in SUBSET Nat
      BY <1>1
    <2>2. PICK o \in later : \A q \in later : o <= q
      BY <1>2, <2>1, LeastNumber
    <2>3. PICK p \in 0..(o - 1) :
            (ValidAt(f, p) \/ EmptyAt(f, p)) /\ p \in ScanPositions(f)
      BY <1>1, <2>2, ScanTurns
    <2>4. p # 0
      BY <2>3 DEF StopsAt
    <2> QED
      BY <1>1, <2>2, <2>3, <2>4
  <1>3. ScannedFrames(f) = {}
    BY <1>2 DEF ScannedFrames, StopsAt
  <1> QED
    BY <1>3 DEF ScannedLogs

\* The frames of the index lead from one to the next, from the start of the file
\* to current_offset, and hold every published log.
ReachInv ==
  /\ currentOffset = 0 \/ \E t \in DOMAIN index : NextFrame(file, index[t]) = currentOffset
  /\ \A t \in DOMAIN index :
       index[t] = 0 \/ \E u \in DOMAIN index : NextFrame(file, index[u]) = index[t]
  /\ \A l \in Logs : fate[l] = "published" =>
       \E t \in DOMAIN index : l \in LogsAt(file, index[t])

Unpublished == \A l \in Logs : fate[l] # "published"

\* Between the rename and the cleared index nothing is published, nor is it when
\* the worker could not open its file; a crash has lost nothing that was.
GoneInv ==
  /\ worker \in {"renamed", "reopened"} => Unpublished
  /\ worker = "dead" /\ taint = {} => Unpublished
  /\ worker = "down" /\ taint = {} =>
       \A l \in Logs : fate[l] = "published" => l \in ScannedLogs(file)

DurableInv == (Settled /\ taint = {} => ReachInv) /\ GoneInv

(* The scan of any image of the file reaches every frame of the index: the   *)
(* first it would miss has a frame before it that it reaches.                *)
LEMMA ImageIsScanned ==
  ASSUME TypeInv, IndexInv, ReachInv, NEW image \in CrashImages(file, disk)
  PROVE  \A t \in DOMAIN index :
           /\ index[t] \in ScannedFrames(image)
           /\ LogsAt(image, index[t]) = LogsAt(file, index[t])
  <1>0. /\ file \in Seq(Cell) /\ disk \in Seq(Cell) /\ image \in Seq(Cell)
        /\ \A t \in DOMAIN index : index[t] \in Nat
        /\ Len(image) \in Nat
    BY CrashImageIsSeq, LenProperties DEF TypeInv, TypeOK, FileType, IndexType
  <1>1. ASSUME NEW t \in DOMAIN index
        PROVE  /\ BatchAt(image, index[t]) = BatchAt(file, index[t])
               /\ ValidAt(image, index[t])
               /\ NextFrame(image, index[t]) = NextFrame(file, index[t])
               /\ NextFrame(file, index[t]) \in Nat
               /\ index[t] < NextFrame(file, index[t])
    <2> DEFINE b == BatchAt(file, index[t])
    <2>1. /\ b \in Batch /\ b # <<>>
          /\ HoldsFrame(file, index[t], b) /\ HoldsFrame(disk, index[t], b)
      BY DEF IndexInv, HoldsEntry
    <2>2. HoldsFrame(image, index[t], b)
      BY <1>0, <2>1, CrashImageKeepsFrame
    <2>3. BatchAt(image, index[t]) = b /\ ValidAt(image, index[t])
      BY <1>0, <2>1, <2>2, HeldFrameIsValid
    <2> QED
      BY <1>0, <2>1, <2>3, FrameIsSeq DEF NextFrame
  <1> DEFINE missed == {index[t] : t \in {t \in DOMAIN index : index[t] \notin ScanPositions(image)}}
  <1>2. ASSUME missed # {} PROVE FALSE
    <2>1. missed \in SUBSET Nat
      BY <1>0
    <2>2. PICK o \in missed : \A q \in missed : o <= q
      BY <1>2, <2>1, LeastNumber
    <2>3. PICK t \in DOMAIN index : o = index[t] /\ index[t] \notin ScanPositions(image)
      BY <2>2
    <2>4. index[t] \in 0..Len(image)
      BY <1>0, <1>1, <2>3 DEF ValidAt
    <2>5. index[t] # 0
      BY <1>0, <2>3, <2>4, ScanTurns
    <2>6. PICK u \in DOMAIN index : NextFrame(file, index[u]) = index[t]
      BY <2>3, <2>5 DEF ReachInv
    <2>7. index[u] \in ScanPositions(image)
      <3>1. index[u] < index[t]
        BY <1>1, <2>6
      <3>2. index[u] \in Nat /\ o \in Nat
        BY <1>0, <2>3
      <3>3. index[u] \notin missed
        BY <2>2, <2>3, <3>1, <3>2
      <3> QED
        BY <3>3
    <2>8. /\ index[u] \in 0..(index[t] - 1) /\ ValidAt(image, index[u])
          /\ NextFrame(image, index[u]) = index[t]
      BY <1>0, <1>1, <2>3, <2>6
    <2>9. index[t] \in ScanPositions(image)
      BY <1>0, <2>4, <2>7, <2>8, ScanTurns
    <2> QED
      BY <2>3, <2>9
  <1>3. ASSUME NEW t \in DOMAIN index PROVE index[t] \in ScanPositions(image)
    BY <1>2
  <1> QED
    BY <1>1, <1>3 DEF ScannedFrames, LogsAt

(* So while the worker runs over a clean file no crash loses a published log.*)
LEMMA SettledIsDurable ==
  ASSUME IInv, DurableInv, worker # "down", taint = {},
         NEW image \in CrashImages(file, disk), NEW l \in Logs, fate[l] = "published"
  PROVE  l \in ScannedLogs(image)
  <1>1. Settled
    BY DEF DurableInv, GoneInv, Unpublished, Settled
  <1>2. PICK t \in DOMAIN index : l \in LogsAt(file, index[t])
    BY <1>1 DEF DurableInv, ReachInv
  <1>3. /\ index[t] \in ScannedFrames(image)
        /\ LogsAt(image, index[t]) = LogsAt(file, index[t])
    BY <1>1, ImageIsScanned DEF IInv, DurableInv
  <1> QED
    BY <1>2, <1>3 DEF ScannedLogs

(* Every step keeps the frames of the index linked and the published logs in *)
(* them.                                                                     *)
LEMMA ReachStep ==
  IInv /\ DurableInv /\ [Next]_vars /\ Settled' /\ taint' = {} => ReachInv'
  <1> SUFFICES ASSUME IInv, DurableInv, [Next]_vars, Settled', taint' = {}
               PROVE  ReachInv'
    OBVIOUS
  <1> USE DEF data, seen, past
  <1>0. /\ file \in Seq(Cell) /\ cursor \in Nat /\ currentOffset \in Nat
        /\ batch \in Batch /\ FrameLen(batch) \in Nat
        /\ \A t \in DOMAIN index : index[t] \in Nat
        /\ QueueType /\ CursorInv
    BY FrameIsSeq DEF IInv, TypeInv, TypeOK, FileType, IndexType, QueueType, Batch
  <1>i. ASSUME Settled, taint = {} PROVE IndexInv /\ FrameInv /\ ReachInv
    BY <1>i DEF IInv, DurableInv
  \* Where the index is left alone, so are the frames it knows and no log is
  \* published, everything stands as it did.
  <1>k. ASSUME ReachInv, UNCHANGED <<index, currentOffset>>,
               \A t \in DOMAIN index : BatchAt(file', index[t]) = BatchAt(file, index[t]),
               \A l \in Logs : fate'[l] = "published" => fate[l] = "published"
        PROVE  ReachInv'
    <2>1. \A t \in DOMAIN index :
            /\ NextFrame(file', index[t]) = NextFrame(file, index[t])
            /\ LogsAt(file', index[t]) = LogsAt(file, index[t])
      BY <1>k DEF NextFrame, LogsAt
    <2> QED
      BY <1>k, <2>1 DEF ReachInv
  <1>u. ASSUME ReachInv, UNCHANGED <<file, index, currentOffset>>,
               \A l \in Logs : fate'[l] = "published" => fate[l] = "published"
        PROVE  ReachInv'
    BY <1>k, <1>u
  <1>s. ASSUME NEW S, NEW x \in Fates, x # "published", fate' = Settle(S, x)
        PROVE  \A l \in Logs : fate'[l] = "published" => fate[l] = "published"
    BY <1>0, <1>s DEF Settle
  \* Cells overlaid behind the index change no frame of it.
  <1>o. ASSUME IndexInv, ReachInv, UNCHANGED <<index, currentOffset>>,
               cursor = currentOffset, cursor <= Len(file),
               NEW part \in Seq(Cell), file' = Overlay(file, cursor, part),
               \A l \in Logs : fate'[l] = "published" => fate[l] = "published"
        PROVE  ReachInv'
    <2>1. ASSUME NEW t \in DOMAIN index
          PROVE  BatchAt(file', index[t]) = BatchAt(file, index[t])
      <3>1. /\ BatchAt(file, index[t]) \in Batch
            /\ index[t] + FrameLen(BatchAt(file, index[t])) <= cursor
        BY <1>o DEF IndexInv, HoldsEntry, NextFrame
      <3>2. index[t] + 1 \in 1..cursor
        BY <1>0, <3>1, FrameIsSeq
      <3> QED
        BY <1>0, <1>o, <3>2, OverlayIsSeq DEF BatchAt
    <2> QED
      BY <1>k, <1>o, <2>1
  <1>2. ASSUME NEW l \in Logs, Append_(l) PROVE ReachInv'
    <2>1. /\ UNCHANGED <<worker, file, currentOffset, index, taint>>
          /\ fate' = Settle({l}, "sent") \/ fate' = Settle({l}, "dropped")
      BY <1>2 DEF Append_
    <2> QED
      BY <1>i, <1>s, <1>u, <2>1 DEF Settled, Fates
  <1>3. CASE Drain \/ Sync \/ FlushTick \/ AskRotate \/ RenameFails \/ Open \/ UNCHANGED vars
    <2>1. /\ UNCHANGED <<file, currentOffset, index, taint, fate>>
          /\ Settled
      BY <1>3 DEF Drain, Sync, FlushTick, AskRotate, RenameFails, Open, vars, Settled
    <2> QED
      BY <1>i, <1>u, <2>1
  <1>4. CASE WriteFrame
    <2>1. /\ file' = Overlay(file, cursor, Frame(batch))
          /\ UNCHANGED <<currentOffset, index, taint, fate>>
          /\ worker = "drained"
      BY <1>4 DEF WriteFrame
    <2>2. IndexInv /\ ReachInv /\ cursor = currentOffset /\ cursor <= Len(file)
      BY <1>0, <1>i, <2>1 DEF Settled, FrameInv, CursorInv
    <2> QED
      BY <1>0, <1>o, <2>1, <2>2, FrameIsSeq
  <1>5. ASSUME NEW k \in 0..(FrameLen(batch) - 1), NEW torn \in BOOLEAN, WriteFails(k, torn)
        PROVE  ReachInv'
    <2> DEFINE part == TornFrame(batch, k, torn)
    <2>0. part \in Seq(Cell)
      BY <1>0, TornFrameIsSeq
    <2>1. /\ file' = Overlay(file, cursor, part)
          /\ fate' = Settle(Set(batch), "dropped")
          /\ UNCHANGED <<currentOffset, index>>
          /\ worker = "drained" /\ taint = {}
      BY <1>5 DEF WriteFails
    <2> HIDE DEF part
    <2>2. IndexInv /\ ReachInv /\ cursor = currentOffset /\ cursor <= Len(file)
      BY <1>0, <1>i, <2>1 DEF Settled, FrameInv, CursorInv
    <2>3. \A l \in Logs : fate'[l] = "published" => fate[l] = "published"
      BY <1>s, <2>1 DEF Fates
    <2> QED
      BY <1>o, <2>0, <2>1, <2>2, <2>3
  <1>6. ASSUME NEW k \in 0..(FrameLen(batch) - 1), NEW torn \in BOOLEAN,
               WriteFailsLate(k, torn)
        PROVE  ReachInv'
    BY <1>6 DEF WriteFailsLate
  <1>7. CASE ReportHeld
    <2>1. /\ UNCHANGED <<file, currentOffset, index, taint>>
          /\ fate' = Settle(Set(batch), "dropped") /\ Settled
      BY <1>7 DEF ReportHeld, Settled
    <2> QED
      BY <1>i, <1>s, <1>u, <2>1 DEF Fates
  <1>8. CASE Publish
    <2> DEFINE first == batch[1]
    <2>1. /\ index' = [t \in DOMAIN index \cup {first} |->
                         IF t = first THEN currentOffset ELSE index[t]]
          /\ currentOffset' = currentOffset + FrameLen(batch)
          /\ fate' = Settle(Set(batch), "published")
          /\ UNCHANGED <<file, taint>>
          /\ worker = "synced"
      BY <1>8 DEF Publish, Advance
    <2>2. IndexInv /\ FrameInv /\ ReachInv
      BY <1>i, <2>1 DEF Settled
    <2>3. batch # <<>> /\ fate[first] = "sent"
      <3>1. batch # <<>>
        BY <1>0, <2>1 DEF CursorInv
      <3>2. 1 \in 1..Len(batch)
        BY <1>0, <3>1, EmptySeq, LenProperties DEF Batch
      <3> QED
        BY <3>1, <3>2 DEF IInv, QueueInv
    <2>4. /\ BatchAt(file, currentOffset) = batch
          /\ NextFrame(file, currentOffset) = currentOffset + FrameLen(batch)
      BY <1>0, <2>1, <2>2, <2>3, HeldFrameIsValid DEF FrameInv
    <2>5. /\ DOMAIN index' = DOMAIN index \cup {first}
          /\ index'[first] = currentOffset
          /\ \A t \in DOMAIN index : t # first /\ index'[t] = index[t]
      <3>1. \A t \in DOMAIN index : t # first
        BY <2>2, <2>3 DEF IndexInv
      <3> QED
        BY <2>1, <3>1
    <2> HIDE DEF first
    <2>6. (\E t \in DOMAIN index : NextFrame(file, index[t]) = currentOffset)'
      BY <2>1, <2>4, <2>5
    <2>7. ASSUME NEW o \in {0, currentOffset},
                 o = 0 \/ \E u \in DOMAIN index : NextFrame(file, index[u]) = o
          PROVE  o = 0 \/ \E u \in DOMAIN index' : NextFrame(file', index'[u]) = o
      BY <2>1, <2>5, <2>7
    <2>8. ASSUME NEW t \in DOMAIN index'
          PROVE  index'[t] = 0 \/ \E u \in DOMAIN index' : NextFrame(file', index'[u]) = index'[t]
      <3>1. CASE t = first
        BY <2>2, <2>5, <2>7, <3>1 DEF ReachInv
      <3>2. CASE t # first
        <4>1. t \in DOMAIN index /\ index'[t] = index[t]
          BY <2>5, <3>2
        <4>2. index[t] = 0 \/ \E u \in DOMAIN index : NextFrame(file, index[u]) = index[t]
          BY <2>2, <4>1 DEF ReachInv
        <4> QED
          BY <2>1, <2>5, <4>1, <4>2
      <3> QED
        BY <3>1, <3>2
    <2>9. ASSUME NEW l \in Logs, fate'[l] = "published"
          PROVE  \E t \in DOMAIN index' : l \in LogsAt(file', index'[t])
      <3>1. CASE l \in Set(batch)
        <4>1. l \in LogsAt(file', index'[first])
          BY <2>1, <2>4, <2>5, <3>1 DEF LogsAt, Set
        <4> QED
          BY <2>5, <4>1
      <3>2. CASE l \notin Set(batch)
        <4>1. fate[l] = "published"
          BY <2>1, <2>9, <3>2 DEF Settle
        <4>2. PICK t \in DOMAIN index : l \in LogsAt(file, index[t])
          BY <2>2, <4>1 DEF ReachInv
        <4> QED
          BY <2>1, <2>5, <4>2
      <3> QED
        BY <3>1, <3>2
    <2> QED
      BY <2>6, <2>8, <2>9 DEF ReachInv
  <1>9. CASE SyncFails \/ RotateRename \/ OpenPanics \/ Reopen \/ Crash
    BY <1>9 DEF SyncFails, RotateRename, Reopen, OpenPanics, Crash, Settled
  <1>10. CASE ClearIndex
    <2>1. /\ DOMAIN index' = {} /\ currentOffset' = 0
          /\ worker = "reopened" /\ UNCHANGED fate
      BY <1>0, <1>10 DEF ClearIndex, NoIndex, CursorInv
    <2> QED
      BY <2>1 DEF ReachInv, DurableInv, GoneInv, Unpublished
  <1>11. CASE Restart
    <2>1. PICK end \in ScanPositions(file) :
            /\ StopsAt(file, end)
            /\ currentOffset' = end
            /\ index' = IndexOf(file, {o \in ScannedFrames(file) : o < end})
            /\ \/ file' = [i \in 1..end |-> file[i]]
               \/ end < Len(file) /\ UNCHANGED file
      BY <1>11 DEF Restart
    <2>2. file' = <<>> /\ taint = {} /\ worker = "down"
      <3>1. taint \cup {"restart"} # {}
        OBVIOUS
      <3> QED
        BY <1>11, <3>1 DEF Restart
    <2>3. end \in 0..Len(file) /\ Len(file) \in Nat /\ Len(file') = 0 /\ file' \in Seq(Cell)
      BY <1>0, <2>2, ScanTypes, EmptySeq, LenProperties
    <2>4. end = 0
      <3>1. CASE file' = [i \in 1..end |-> file[i]]
        <4>1. DOMAIN file' = 1..end /\ DOMAIN file' = 1..Len(file')
          BY <2>3, <3>1, LenProperties
        <4> QED
          BY <2>3, <4>1
      <3>2. CASE end < Len(file) /\ UNCHANGED file
        BY <2>3, <3>2
      <3> QED
        BY <2>1, <3>1, <3>2
    <2>5. ScannedLogs(file) = {}
      BY <1>0, <2>1, <2>4, ScanStopsAtOnce
    <2>6. DOMAIN index' = {}
      <3>1. ScannedFrames(file) \subseteq Nat
        BY <1>0, ScanTypes
      <3>2. {o \in ScannedFrames(file) : o < end} = {}
        BY <2>4, <3>1
      <3> QED
        BY <2>1, <3>2 DEF IndexOf
    <2>7. \A l \in Logs : fate'[l] # "published"
      <3>1. \A l \in Logs : fate[l] # "published"
        BY <2>2, <2>5 DEF DurableInv, GoneInv
      <3>2. fate' = Settle(ScannedLogs(file), "published")
        BY <1>11 DEF Restart
      <3> QED
        BY <2>5, <3>1, <3>2 DEF Settle
    <2> QED
      BY <2>1, <2>4, <2>6, <2>7 DEF ReachInv
  <1> QED
    BY <1>2, <1>3, <1>4, <1>5, <1>6, <1>7, <1>8, <1>9, <1>10, <1>11
       DEF Next, Rotate, WriteBatchToDisk

(* Nothing becomes published while the worker has no file.                   *)
LEMMA GoneStep == IInv /\ DurableInv /\ [Next]_vars => GoneInv'
  <1> SUFFICES ASSUME IInv, DurableInv, [Next]_vars PROVE GoneInv'
    OBVIOUS
  <1> USE DEF data, seen, past
  <1>0. /\ fate \in [Logs -> Fates] /\ worker \in WorkerStates /\ QueueType
    BY DEF IInv, TypeInv, TypeOK, QueueType, ControlType
  <1>s. ASSUME NEW S, NEW x, x # "published", fate' = Settle(S, x)
        PROVE  \A l \in Logs : fate'[l] = "published" => fate[l] = "published"
    BY <1>s DEF Settle
  <1>1. ASSUME NEW l \in Logs, Append_(l) PROVE GoneInv'
    <2>1. /\ UNCHANGED <<worker, file, taint>> /\ worker # "down"
          /\ fate' = Settle({l}, "sent") \/ fate' = Settle({l}, "dropped")
      BY <1>1 DEF Append_
    <2>2. \A m \in Logs : fate'[m] = "published" => fate[m] = "published"
      BY <1>s, <2>1
    <2> QED
      BY <2>1, <2>2 DEF DurableInv, GoneInv, Unpublished
  <1>2. CASE worker' \notin {"renamed", "reopened", "dead", "down"}
    BY <1>2 DEF GoneInv
  <1>3. CASE RotateRename
    <2>1. /\ worker' = "renamed"
          /\ fate' = Settle({l \in Logs : fate[l] = "published"}, "archived")
      BY <1>3 DEF RotateRename
    <2>2. \A l \in Logs : fate'[l] # "published"
      BY <2>1 DEF Settle
    <2> QED
      BY <2>1, <2>2 DEF GoneInv, Unpublished
  <1>4. CASE Reopen
    BY <1>4 DEF Reopen, DurableInv, GoneInv, Unpublished
  <1>5. CASE OpenPanics
    <2>1. /\ worker \in {"renamed", "opening"} /\ worker' = "dead"
          /\ UNCHANGED taint
          /\ fate' = Settle(Set(chan), "dropped")
      BY <1>5 DEF OpenPanics
    <2>2. \A l \in Logs : fate'[l] = "published" => fate[l] = "published"
      BY <1>s, <2>1
    <2>3. ASSUME worker = "opening", taint = {} PROVE Unpublished
      <3>1. IndexInv /\ FrameInv /\ ReachInv
        BY <2>3 DEF IInv, DurableInv, Settled
      <3>2. DOMAIN index = {}
        <4>1. ASSUME NEW t \in DOMAIN index PROVE FALSE
          <5>1. NextFrame(file, index[t]) <= 0 /\ BatchAt(file, index[t]) \in Batch
                /\ index[t] \in Nat
            BY <2>3, <3>1 DEF IndexInv, FrameInv, HoldsEntry, IInv, TypeInv, TypeOK, IndexType
          <5> QED
            BY <5>1, FrameIsSeq DEF NextFrame
        <4> QED
          BY <4>1
      <3> QED
        BY <3>1, <3>2 DEF ReachInv, Unpublished
    <2> QED
      BY <2>1, <2>2, <2>3 DEF DurableInv, GoneInv, Unpublished
  <1>6. CASE Crash
    <2>1. /\ worker # "down" /\ worker' = "down" /\ UNCHANGED taint
          /\ file' \in CrashImages(file, disk)
          /\ fate' = Settle(Set(chan) \cup Set(batch), "dropped")
      BY <1>6 DEF Crash
    <2>2. \A l \in Logs : fate'[l] = "published" => fate[l] = "published"
      BY <1>s, <2>1
    <2>3. ASSUME taint = {}, NEW l \in Logs, fate[l] = "published"
          PROVE  l \in ScannedLogs(file')
      BY <2>1, <2>3, SettledIsDurable
    <2> QED
      BY <2>1, <2>2, <2>3 DEF GoneInv
  <1>7. CASE UNCHANGED vars
    BY <1>7 DEF vars, DurableInv, GoneInv, Unpublished
  <1>8. CASE AskRotate
    BY <1>8 DEF AskRotate, DurableInv, GoneInv, Unpublished
  <1>9. CASE Drain \/ WriteBatchToDisk \/ FlushTick \/ RenameFails \/ ClearIndex \/ Restart \/ Open
    <2>1. worker' \in {"idle", "drained", "written", "synced", "opening"}
      BY <1>9 DEF Drain, WriteBatchToDisk, WriteFrame, WriteFails, WriteFailsLate,
                  ReportHeld, Sync, SyncFails, Publish, FlushTick, RenameFails,
                  ClearIndex, Restart, Open
    <2> QED
      BY <1>2, <2>1
  <1> QED
    BY <1>1, <1>3, <1>4, <1>5, <1>6, <1>7, <1>8, <1>9 DEF Next, Rotate

LEMMA DurableInit == Init => DurableInv
  BY DEF Init, NoIndex, DurableInv, ReachInv, GoneInv, Settled

(* As long as the file has seen no I/O error and no restart over a log that  *)
(* is not empty, a crash at any moment, whatever it leaves of the file,      *)
(* loses no published log: the recovery scan of the image finds it.          *)
THEOREM PublishedOutlivesCrash == Spec => []PublishedIsDurable
  <1>1. Init => IInv /\ DurableInv
    BY InvInit, DurableInit
  <1>2. IInv /\ DurableInv /\ [Next]_vars => (IInv /\ DurableInv)'
    BY InvStep, ReachStep, GoneStep DEF DurableInv
  <1>3. IInv /\ DurableInv => PublishedIsDurable
    BY SettledIsDurable DEF PublishedIsDurable
  <1> QED
    BY <1>1, <1>2, <1>3, PTL DEF Spec

=============================================================================
