--------------------------- MODULE PluginsProofs ---------------------------
(***************************************************************************)
(* Theorems about Plugins.tla, for any plugins, uploads and bounds: types, *)
(* what alone takes a listed plugin away from the orchestrator, and how     *)
(* often a deployment is started.                                          *)
(***************************************************************************)
EXTENDS Plugins, TLAPS

-----------------------------------------------------------------------------
(* Types.                                                                    *)

LEMMA InitTypes == Init => TypeOK
BY NameAssumption, BoundAssumption DEF Init, TypeOK

LEMMA UploadTypes ==
  ASSUME TypeOK, NEW u \in Uploads,
         FileDone(u) \/ WriteFails(u) \/ UploadEnds(u) \/ \E n \in Names : Create(u, n)
  PROVE  TypeOK'
<1> USE BoundAssumption DEF TypeOK, disk, scan, history, bounds, Fault
<1>1. CASE \E n \in Names : Create(u, n)
  BY <1>1 DEF Create
<1>2. CASE FileDone(u)
  BY <1>2 DEF FileDone
<1>3. CASE WriteFails(u)
  BY <1>3 DEF WriteFails
<1>4. CASE UploadEnds(u)
  BY <1>4 DEF UploadEnds
<1> QED
  BY <1>1, <1>2, <1>3, <1>4

LEMMA PlaceTypes ==
  ASSUME TypeOK, NEW n \in Names, Place(n)
  PROVE  TypeOK'
<1>1. keys' \in [Names -> {"none", "good", "corrupt"}] /\ certs' \in SUBSET Names
  BY DEF Place, TypeOK
<1>2. starts' \in [Names -> Nat] /\ placed' \in 0..MaxPlaced
  BY BoundAssumption DEF Place, TypeOK
<1> QED
  BY <1>1, <1>2 DEF Place, TypeOK, scan

LEMMA ModuleTypes ==
  ASSUME TypeOK, NEW n \in Names, PlaceModule(n)
  PROVE  TypeOK'
BY BoundAssumption DEF PlaceModule, TypeOK, scan, history

LEMMA LookTypes ==
  ASSUME TypeOK, NEW n \in Names, Look(n)
  PROVE  TypeOK'
<1> USE NameAssumption DEF TypeOK, Rest, Dies, disk, history, bounds
<1>1. CASE SkipIncomplete(n) \/ SkipCorrupt(n)
  BY <1>1 DEF SkipIncomplete, SkipCorrupt
<1>2. CASE NamePanics(n) \/ ReadPanics(n)
  BY <1>2 DEF NamePanics, ReadPanics
<1>3. CASE ReadFails(n)
  BY <1>3, BoundAssumption DEF ReadFails, Fault
<1>4. CASE Start(n)
  <2>1. starts' \in [Names -> Nat] /\ stayed' \in [Names -> SUBSET {"key", "cert"}]
    BY <1>4 DEF Start
  <2>2. listed' \in SUBSET (Names \ {hand'})
    BY <1>4 DEF Start
  <2> QED
    BY <1>4, <2>1, <2>2 DEF Start
<1> QED
  BY <1>1, <1>2, <1>3, <1>4 DEF Look

LEMMA ScanTypes ==
  ASSUME TypeOK, Tick \/ ArchiveKey \/ ArchiveCert \/ ArchiveModule \/ ScanEnds
  PROVE  TypeOK'
<1> USE NameAssumption, BoundAssumption DEF TypeOK, disk, history, bounds, Fault
<1>1. CASE Tick
  BY <1>1 DEF Tick
<1>2. CASE ArchiveKey
  <2>1. keys' \in [Names -> {"none", "good", "corrupt"}]
    BY <1>2 DEF ArchiveKey
  <2>2. stayed' \in [Names -> SUBSET {"key", "cert"}]
    BY <1>2 DEF ArchiveKey
  <2> QED
    BY <1>2, <2>1, <2>2 DEF ArchiveKey
<1>3. CASE ArchiveCert
  <2>1. stayed' \in [Names -> SUBSET {"key", "cert"}]
    BY <1>3 DEF ArchiveCert
  <2> QED
    BY <1>3, <2>1 DEF ArchiveCert
<1>4. CASE ArchiveModule
  BY <1>4 DEF ArchiveModule
<1>5. CASE ScanEnds
  BY <1>5 DEF ScanEnds
<1> QED
  BY <1>1, <1>2, <1>3, <1>4, <1>5

LEMMA LifeTypes ==
  ASSUME TypeOK, Crash \/ Boot
  PROVE  TypeOK'
<1>1. CASE Crash
  <2>1. upload' \in [Uploads -> {"new", "between", "over"} \cup Names]
    BY <1>1 DEF Crash
  <2>2. starts' \in [Names -> Nat] /\ crashes' \in 0..MaxCrashes
    BY <1>1, BoundAssumption DEF Crash, TypeOK
  <2> QED
    BY <1>1, <2>1, <2>2 DEF Crash, TypeOK, disk
<1>2. CASE Boot
  BY <1>2 DEF Boot, TypeOK, disk, scan, history, bounds
<1> QED
  BY <1>1, <1>2

LEMMA StepTypes == TypeOK /\ [Next]_vars => TypeOK'
<1> SUFFICES ASSUME TypeOK, [Next]_vars
             PROVE  TypeOK'
  OBVIOUS
<1>1. CASE \E u \in Uploads, n \in Names : Create(u, n)
  BY <1>1, UploadTypes
<1>2. CASE \E u \in Uploads : FileDone(u) \/ WriteFails(u) \/ UploadEnds(u)
  BY <1>2, UploadTypes
<1>3. CASE \E n \in Names : Place(n) \/ PlaceModule(n)
  BY <1>3, PlaceTypes, ModuleTypes
<1>4. CASE Orchestrator
  BY <1>4, LookTypes, ScanTypes DEF Orchestrator
<1>5. CASE Crash \/ Boot
  BY <1>5, LifeTypes
<1>6. CASE UNCHANGED vars
  BY <1>6 DEF vars, disk, scan, history, bounds, TypeOK
<1> QED
  BY <1>1, <1>2, <1>3, <1>4, <1>5, <1>6 DEF Next

\* Every reachable state is well typed: the orchestrator has a plugin in hand from
\* its start to the last rename and never lists it twice (main.rs 572-735).
THEOREM PluginTypes == Spec => []TypeOK
<1>1. Init => TypeOK
  BY InitTypes
<1>2. TypeOK /\ [Next]_vars => TypeOK'
  BY StepTypes
<1> QED
  BY <1>1, <1>2, PTL DEF Spec

-----------------------------------------------------------------------------
(* What is listed is in the directory, unless a failed upload withdrew it    *)
(* since the tick: the orchestrator moves only what it has in hand.  When it *)
(* finds a file gone, that plugin is kept in hand.                           *)

ListedInv == listed \subseteq modules \cup withdrawn

WithdrawalInv == ListedInv /\ OnlyUploadsWithdraw

LEMMA InitWithdrawn == Init => WithdrawalInv
BY DEF Init, WithdrawalInv, ListedInv, OnlyUploadsWithdraw

LEMMA StepWithdrawn == TypeOK /\ WithdrawalInv /\ [Next]_vars => WithdrawalInv'
<1> SUFFICES ASSUME TypeOK, WithdrawalInv, [Next]_vars
             PROVE  WithdrawalInv'
  OBVIOUS
<1> USE DEF WithdrawalInv, ListedInv, OnlyUploadsWithdraw, disk, scan, history, bounds
<1>1. CASE \E u \in Uploads, n \in Names : Create(u, n)
  BY <1>1 DEF Create
<1>2. CASE \E u \in Uploads : FileDone(u) \/ WriteFails(u) \/ UploadEnds(u)
  BY <1>2 DEF FileDone, WriteFails, UploadEnds
<1>3. CASE \E n \in Names : Place(n) \/ PlaceModule(n)
  BY <1>3 DEF Place, PlaceModule
<1>4. CASE Orchestrator
  <2>1. CASE Tick \/ ArchiveKey \/ ArchiveCert \/ ScanEnds
    BY <2>1 DEF Tick, ArchiveKey, ArchiveCert, ScanEnds, TypeOK
  <2>2. CASE ArchiveModule
    \* Only hand leaves the directory, and it is not listed.
    BY <2>2 DEF ArchiveModule, TypeOK
  <2>3. ASSUME NEW n \in Names, SkipIncomplete(n) \/ SkipCorrupt(n) \/ Start(n)
        PROVE  WithdrawalInv'
    BY <2>3 DEF SkipIncomplete, SkipCorrupt, Start, Rest, TypeOK
  <2>4. ASSUME NEW n \in Names, ReadPanics(n)
        PROVE  WithdrawalInv'
    \* Its credentials are there: what has vanished is the module.
    BY <2>4 DEF ReadPanics, HasCredentials, Dies
  <2>5. ASSUME NEW n \in Names, NamePanics(n) \/ ReadFails(n)
        PROVE  WithdrawalInv'
    BY <2>5 DEF NamePanics, ReadFails, Dies
  <2> QED
    BY <1>4, <2>1, <2>2, <2>3, <2>4, <2>5 DEF Orchestrator, Look
<1>5. CASE Crash \/ Boot
  BY <1>5 DEF Crash, Boot
<1>6. CASE UNCHANGED vars
  BY <1>6 DEF vars
<1> QED
  BY <1>1, <1>2, <1>3, <1>4, <1>5, <1>6 DEF Next

\* However uploads, operator, scans and renames interleave, a file is gone when the
\* orchestrator comes to read it only if it is a module that a failed upload removed
\* after the listing (api.rs 884): of the three ends of its loop (main.rs 583,
\* 603-605) the one that a race can bring about has this one cause.
THEOREM OnlyUploadsTakeAway == Spec => []OnlyUploadsWithdraw
<1>1. Init => WithdrawalInv
  BY InitWithdrawn
<1>2. TypeOK /\ WithdrawalInv /\ [Next]_vars => WithdrawalInv'
  BY StepWithdrawn
<1>3. WithdrawalInv => OnlyUploadsWithdraw
  BY DEF WithdrawalInv
<1> QED
  BY <1>1, <1>2, <1>3, PluginTypes, PTL DEF Spec

-----------------------------------------------------------------------------
(* A deployment that has been started has lost each of its credentials to    *)
(* the archive, or the rename failed, or is still to come.                   *)

KeyGone(n)  == keys[n] = "none" \/ "key" \in stayed[n] \/ (hand = n /\ place = "key")
CertGone(n) ==
  n \notin certs \/ "cert" \in stayed[n] \/ (hand = n /\ place \in {"key", "cert"})

StartedInv == \A n \in Names : starts[n] > 0 => KeyGone(n) /\ CertGone(n)

LEMMA InitStarted == Init => StartedInv
BY DEF Init, StartedInv

LEMMA StepStarted == TypeOK /\ StartedInv /\ [Next]_vars => StartedInv'
<1> SUFFICES ASSUME TypeOK, StartedInv, [Next]_vars, NEW m \in Names, starts'[m] > 0
             PROVE  KeyGone(m)' /\ CertGone(m)'
  BY DEF StartedInv
<1> USE DEF StartedInv, KeyGone, CertGone, disk, scan, history, bounds
<1>1. CASE \E u \in Uploads, n \in Names : Create(u, n)
  BY <1>1 DEF Create
<1>2. CASE \E u \in Uploads : FileDone(u) \/ WriteFails(u) \/ UploadEnds(u)
  BY <1>2 DEF FileDone, WriteFails, UploadEnds
<1>3. ASSUME NEW n \in Names, PlaceModule(n)
      PROVE  KeyGone(m)' /\ CertGone(m)'
  BY <1>3 DEF PlaceModule
<1>4. ASSUME NEW n \in Names, Place(n)
      PROVE  KeyGone(m)' /\ CertGone(m)'
  <2>1. m # n /\ starts'[m] = starts[m]
    BY <1>4 DEF Place, TypeOK
  <2>2. keys'[m] = keys[m] /\ (m \in certs' <=> m \in certs)
    BY <1>4, <2>1 DEF Place, TypeOK
  <2> QED
    BY <1>4, <2>1, <2>2 DEF Place
<1>5. CASE Orchestrator
  <2>1. CASE Tick \/ ScanEnds
    BY <2>1, NameAssumption DEF Tick, ScanEnds, TypeOK
  <2>2. CASE ArchiveKey
    BY <2>2 DEF ArchiveKey, TypeOK
  <2>3. CASE ArchiveCert
    BY <2>3 DEF ArchiveCert, TypeOK
  <2>4. CASE ArchiveModule
    BY <2>4 DEF ArchiveModule
  <2>5. ASSUME NEW n \in Names,
               SkipIncomplete(n) \/ SkipCorrupt(n) \/ NamePanics(n) \/ ReadPanics(n) \/ ReadFails(n)
        PROVE  KeyGone(m)' /\ CertGone(m)'
    BY <2>5, NameAssumption DEF SkipIncomplete, SkipCorrupt, NamePanics, ReadPanics, ReadFails,
       Dies, TypeOK
  <2>6. ASSUME NEW n \in Names, Start(n)
        PROVE  KeyGone(m)' /\ CertGone(m)'
    <3>1. CASE m = n
      BY <2>6, <3>1 DEF Start
    <3>2. CASE m # n
      <4>1. starts'[m] = starts[m] /\ stayed'[m] = stayed[m] /\ hand # m
        BY <2>6, <3>2, NameAssumption DEF Start, TypeOK
      <4> QED
        BY <2>6, <4>1 DEF Start
    <3> QED
      BY <3>1, <3>2
  <2> QED
    BY <1>5, <2>1, <2>2, <2>3, <2>4, <2>5, <2>6 DEF Orchestrator, Look
<1>6. CASE Crash
  BY <1>6 DEF Crash
<1>7. CASE Boot
  BY <1>7 DEF Boot
<1>8. CASE UNCHANGED vars
  BY <1>8 DEF vars
<1> QED
  BY <1>1, <1>2, <1>3, <1>4, <1>5, <1>6, <1>7, <1>8 DEF Next

LEMMA SecondStart ==
  ASSUME TypeOK, StartedInv, [Next]_vars, NEW n \in Names, starts'[n] > starts[n], starts[n] > 0
  PROVE  stayed[n] = {"key", "cert"}
<1>1. starts[n] \in Nat /\ stayed[n] \subseteq {"key", "cert"}
  BY DEF TypeOK
<1>2. ~UNCHANGED starts
  BY <1>1
<1>3. \A p \in Names : ~Place(p)
  BY <1>1 DEF Place, TypeOK
<1>4. ~Crash
  BY <1>1 DEF Crash
<1>5. PICK p \in Names : Start(p)
  BY <1>2, <1>3, <1>4 DEF Next, vars, history, Create, FileDone, WriteFails, UploadEnds,
     PlaceModule, Orchestrator, Look, Tick, ScanEnds, SkipIncomplete, SkipCorrupt, NamePanics,
     ReadPanics, ReadFails, Dies, ArchiveKey, ArchiveCert, ArchiveModule, Boot
<1>6. p = n
  BY <1>1, <1>5 DEF Start, TypeOK
<1>7. hand # n /\ keys[n] = "good" /\ n \in certs
  BY <1>5, <1>6, NameAssumption DEF Start, TypeOK
<1> QED
  BY <1>1, <1>7 DEF StartedInv, KeyGone, CertGone

\* A deployment is started a second time in the life of a process only after the
\* renames of both its credentials failed: either one that succeeds is enough,
\* whatever uploads and the operator do meanwhile (main.rs 589, 720-731).
THEOREM OneRenameIsEnough == Spec => StartedOnce
<1>1. Init => StartedInv
  BY InitStarted
<1>2. TypeOK /\ StartedInv /\ [Next]_vars => StartedInv'
  BY StepStarted
<1>3. TypeOK /\ StartedInv /\ [Next]_vars =>
        [\A n \in Names :
           starts'[n] > starts[n] /\ starts[n] > 0 => stayed[n] = {"key", "cert"}]_vars
  BY SecondStart
<1> QED
  BY <1>1, <1>2, <1>3, PluginTypes, PTL DEF Spec, StartedOnce
=============================================================================
