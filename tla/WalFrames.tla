----------------------------- MODULE WalFrames -----------------------------
(***************************************************************************)
(* The on-disk format of the write-ahead log of raqim-core/src/nucleus.rs: *)
(* what write_batch_to_disk puts in a file and what                        *)
(* recover_and_truncate_torn_frames accepts of it.                         *)
(*                                                                         *)
(* A frame is [len u32][crc32 u32][payload], the payload one archived      *)
(* Vec<OpLog>.  A file is a sequence of cells: the length prefix is a      *)
(* cell, the checksum is a cell and every log of the payload is a cell, so *)
(* frames of different batches have different lengths, a frame can be torn *)
(* between any two cells, and one frame can be overwritten by part of      *)
(* another.  A cell knows which frame wrote it, which is what the checksum *)
(* establishes: CRC collisions are left out.  Junk is a cell of bytes that *)
(* belong to no frame; Zeros is a cell of zero bytes, which a file that    *)
(* grew before its data was written reads as.                              *)
(***************************************************************************)
EXTENDS Naturals, Sequences

CONSTANT Logs      \* the OpLogs that are ever appended

Batch == Seq(Logs)
Cell  == [batch : Batch, part : Nat]
Junk  == [batch |-> <<>>, part |-> 0]
Zeros == [batch |-> <<>>, part |-> 1]

\* 4 + 4 + payload_bytes.len()
FrameLen(b) == 2 + Len(b)

Frame(b) == [k \in 1..FrameLen(b) |-> [batch |-> b, part |-> k]]

\* The frame of b stands at offset o of f, whole.
HoldsFrame(f, o, b) ==
  /\ o + FrameLen(b) <= Len(f)
  /\ \A k \in 1..FrameLen(b) : f[o + k] = [batch |-> b, part |-> k]

\* The batch a length prefix at offset o would announce.
BatchAt(f, o) == f[o + 1].batch

\* One turn of the recovery loop indexes the frame at offset o: the length, the
\* checksum and the payload are all there and the checksum matches.
ValidAt(f, o) ==
  /\ o < Len(f)
  /\ BatchAt(f, o) # <<>>
  /\ HoldsFrame(f, o, BatchAt(f, o))

NextFrame(f, o) == o + FrameLen(BatchAt(f, o))

\* Or it takes zeros for the length and the checksum of an empty payload, which
\* match: it goes on behind them and indexes nothing.
EmptyAt(f, o) == o + 2 <= Len(f) /\ f[o + 1] = Zeros /\ f[o + 2] = Zeros

\* Or it stops.
StopsAt(f, o) == ~ValidAt(f, o) /\ ~EmptyAt(f, o)

\* The offsets the recovery loop visits: 0, and the end of every frame, valid or
\* empty, at an offset it visits.
ScanPositions(f) ==
  LET visited[o \in 0..Len(f)] ==
        \/ o = 0
        \/ \E p \in 0..(o - 1) :
             /\ \/ ValidAt(f, p) /\ NextFrame(f, p) = o
                \/ EmptyAt(f, p) /\ p + 2 = o
             /\ visited[p]
  IN  {o \in 0..Len(f) : visited[o]}

\* The offsets it indexes.
ScannedFrames(f) == {o \in ScanPositions(f) : ValidAt(f, o)}

LogsAt(f, o) == {BatchAt(f, o)[i] : i \in 1..Len(BatchAt(f, o))}

\* The logs of the frames it accepts.
ScannedLogs(f) == UNION {LogsAt(f, o) : o \in ScannedFrames(f)}

\* Writing the cells of part at offset c of f, over what stands there.
Overlay(f, c, part) ==
  [i \in 1..(IF c + Len(part) > Len(f) THEN c + Len(part) ELSE Len(f)) |->
     IF c < i /\ i <= c + Len(part) THEN part[i - c] ELSE f[i]]

\* What is left of b's frame when a write_all of it fails: its first k cells, and
\* a cell of junk when the failure falls inside the next one.
TornFrame(b, k, torn) ==
  [i \in 1..(IF torn THEN k + 1 ELSE k) |->
     IF i <= k THEN [batch |-> b, part |-> i] ELSE Junk]

\* The cells that the page cache and the device disagree about.
Dirty(f, d) ==
  {i \in 1..Len(f) : i > Len(d)} \cup
  {i \in 1..Len(f) : i <= Len(d) /\ f[i] # d[i]}

\* The cell a crash leaves where the page cache did not reach the device.
OnDevice(d, i) == IF i <= Len(d) THEN d[i] ELSE Zeros

\* A crash keeps n cells and loses the dirty cells of lost.
CrashImage(f, d, n, lost) ==
  [i \in 1..n |-> IF i > Len(f) \/ i \in lost THEN OnDevice(d, i) ELSE f[i]]

Shorter(f, d) == IF Len(f) < Len(d) THEN Len(f) ELSE Len(d)
Longer(f, d)  == IF Len(f) < Len(d) THEN Len(d) ELSE Len(f)

\* What a crash can leave of a file whose page cache is f and whose content at the
\* last sync was d: any of the dirty cells written back, any length in between.
CrashImages(f, d) ==
  {CrashImage(f, d, n, lost) :
     n \in Shorter(f, d)..Longer(f, d), lost \in SUBSET Dirty(f, d)}
=============================================================================
