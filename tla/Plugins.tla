------------------------------ MODULE Plugins ------------------------------
(***************************************************************************)
(* The plugins directory: uploads of the gateway write modules into it     *)
(* (upload_wasm_endpoint, raqim-core/src/api.rs), an operator puts modules *)
(* and the credentials beside them, and the WASM orchestrator              *)
(* (raqim-core/src/main.rs) scans it every ten seconds, starts what is     *)
(* complete and moves it to the archive.  Nothing locks the directory.     *)
(*                                                                         *)
(* A plugin is named by the stem of its three files.  Of a module only its *)
(* being there matters here; of a key, whether it has the right length.    *)
(* The archive is not read here, and the checkpoint tracker of an agent is *)
(* copied before it is used: its entry in the map never changes.           *)
(***************************************************************************)
EXTENDS Naturals, FiniteSets

CONSTANTS
  Names,       \* the stems of plugins, the hex of an agent each
  Uploads,     \* requests to the upload endpoint
  Garbled,     \* the stems that are not UTF-8: uploads are named in hex
  NoName,      \* stands for no plugin
  MaxPlaced,   \* bound: files the operator puts into the directory
  MaxFaults,   \* bound: reads, writes, removals and renames that fail
  MaxCrashes   \* bound: times the process dies

ASSUME NameAssumption == NoName \notin Names /\ Garbled \subseteq Names
ASSUME BoundAssumption == {MaxPlaced, MaxFaults, MaxCrashes} \subseteq Nat

VARIABLES
  modules,    \* disk: the names whose .wasm is in ./plugins
  keys,       \* disk: name -> "none", "good" or "corrupt", its .key
  certs,      \* disk: the names whose .cert is in ./plugins
  upload,     \* upload -> "new", "between" two files, "over", or the name it writes
  place,      \* where the orchestrator is
  hand,       \* the plugin it has started and archives, or died of
  listed,     \* the modules of the listing it has yet to look at
  up,         \* whether the process runs
  cause,      \* history: of its death: "name", "read", "gone", or "none"
  starts,     \* history: name -> guests started since its credentials were placed
  stayed,     \* history: name -> credentials whose rename failed since the last start
  withdrawn,  \* history: modules a failed upload removed since the last tick
  placed, faults, crashes   \* what is used up of the bounds

disk    == <<modules, keys, certs>>
scan    == <<place, hand, listed, cause>>
history == <<starts, stayed, withdrawn>>
bounds  == <<placed, faults, crashes>>
vars    == <<disk, upload, scan, up, history, bounds>>

Init ==
  /\ modules = {} /\ keys = [n \in Names |-> "none"] /\ certs = {}
  /\ upload = [u \in Uploads |-> "new"]
  /\ place = "asleep" /\ hand = NoName /\ listed = {} /\ cause = "none" /\ up = TRUE
  /\ starts = [n \in Names |-> 0] /\ stayed = [n \in Names |-> {}] /\ withdrawn = {}
  /\ placed = 0 /\ faults = 0 /\ crashes = 0

Fault == faults < MaxFaults /\ faults' = faults + 1

-----------------------------------------------------------------------------
(* The operator copies credentials into the directory; new ones make the    *)
(* plugin a new deployment.  Beside a garbled name nobody looks for them.    *)
Place(n) ==
  /\ placed < MaxPlaced /\ placed' = placed + 1
  /\ n \notin Garbled
  /\ \/ keys[n] # "good" /\ \E k \in {"good", "corrupt"} : keys' = [keys EXCEPT ![n] = k]
        /\ UNCHANGED certs
     \/ n \notin certs /\ certs' = certs \cup {n} /\ UNCHANGED keys
  /\ starts' = [starts EXCEPT ![n] = 0]
  /\ UNCHANGED <<modules, upload, scan, up, stayed, withdrawn, faults, crashes>>

(* ...or a module, under whatever name.                                      *)
PlaceModule(n) ==
  /\ placed < MaxPlaced /\ placed' = placed + 1
  /\ n \notin modules /\ modules' = modules \cup {n}
  /\ UNCHANGED <<keys, certs, upload, scan, up, history, faults, crashes>>

-----------------------------------------------------------------------------
(* An upload begins, or goes on to the next file of its multipart body:      *)
(* File::create truncates what is there...                                   *)
Create(u, n) ==
  /\ up /\ upload[u] \in {"new", "between"} /\ n \notin Garbled
  /\ upload' = [upload EXCEPT ![u] = n] /\ modules' = modules \cup {n}
  /\ UNCHANGED <<keys, certs, scan, up, history, bounds>>

(* ...every chunk is written (a failure of the last write is not reported)...*)
FileDone(u) ==
  /\ up /\ upload[u] \in Names
  /\ upload' = [upload EXCEPT ![u] = "between"]
  /\ UNCHANGED <<disk, scan, up, history, bounds>>

(* ...a write fails: the path is removed, by name, whatever is there by now, *)
(* and the result of the removal is dropped...                               *)
WriteFails(u) ==
  /\ up /\ upload[u] \in Names /\ Fault
  /\ upload' = [upload EXCEPT ![u] = "over"]
  /\ \/ UNCHANGED <<modules, withdrawn>>
     \/ /\ modules' = modules \ {upload[u]}
        /\ withdrawn' = withdrawn \cup {upload[u]}
  /\ UNCHANGED <<keys, certs, scan, up, starts, stayed, placed, crashes>>

(* ...or the request ends: well, with a name that is no agent, or broken off *)
(* in the middle of a file, which is left as it is.                          *)
UploadEnds(u) ==
  /\ up /\ upload[u] # "over"
  /\ upload' = [upload EXCEPT ![u] = "over"]
  /\ UNCHANGED <<disk, scan, up, history, bounds>>

-----------------------------------------------------------------------------
(* The interval ticks, and the directory is listed...                        *)
Tick ==
  /\ up /\ place = "asleep"
  /\ place' = "looking" /\ listed' = modules /\ withdrawn' = {}
  /\ UNCHANGED <<disk, upload, hand, cause, up, starts, stayed, bounds>>

\* Both of the two files that go with a module.
HasEither(n) == keys[n] # "none" \/ n \in certs
HasCredentials(n) == keys[n] # "none" /\ n \in certs

\* A plugin that has been looked at leaves the others to be looked at: `continue`.
None(n) == {}
All(n)  == listed
Rest(n) == listed \ {n}

\* An unwrap panics over n: the task ends, and the loop with it.
Dies(n, reason) ==
  /\ place' = "dead" /\ hand' = n /\ listed' = {} /\ cause' = reason
  /\ UNCHANGED <<disk, upload, up, history>>

(* ...the stem of its name is unwrapped as UTF-8...                          *)
NamePanics(n) ==
  /\ up /\ place = "looking" /\ n \in listed /\ n \in Garbled
  /\ Dies(n, "name")
  /\ UNCHANGED bounds

(* ...a plugin without its credentials is passed over...                     *)
SkipIncomplete(n) ==
  /\ up /\ place = "looking" /\ n \in listed \ Garbled /\ ~HasCredentials(n)
  /\ listed' = Rest(n)
  /\ UNCHANGED <<disk, upload, place, hand, cause, up, history, bounds>>

(* ...the three files are read and unwrapped: one may have vanished since... *)
ReadPanics(n) ==
  /\ up /\ place = "looking" /\ n \in listed \ Garbled /\ HasCredentials(n)
  /\ n \notin modules \/ keys[n] = "none" \/ n \notin certs
  /\ Dies(n, "gone")
  /\ UNCHANGED bounds

(* ...or be there and not be readable: its permissions, a directory of that  *)
(* name, the device...                                                       *)
ReadFails(n) ==
  /\ up /\ place = "looking" /\ n \in listed \ Garbled /\ HasCredentials(n)
  /\ Fault
  /\ Dies(n, "read")
  /\ UNCHANGED <<placed, crashes>>

(* ...a key of the wrong length is passed over...                            *)
SkipCorrupt(n) ==
  /\ up /\ place = "looking" /\ n \in listed \ Garbled /\ HasCredentials(n) /\ n \in modules
  /\ keys[n] = "corrupt"
  /\ listed' = Rest(n)
  /\ UNCHANGED <<disk, upload, place, hand, cause, up, history, bounds>>

(* ...otherwise the guest is spawned...                                      *)
Start(n) ==
  /\ up /\ place = "looking" /\ n \in listed \ Garbled /\ HasCredentials(n) /\ n \in modules
  /\ keys[n] = "good" /\ n \in certs
  /\ starts' = [starts EXCEPT ![n] = @ + 1] /\ stayed' = [stayed EXCEPT ![n] = {}]
  /\ hand' = n /\ place' = "key" /\ listed' = Rest(n)
  /\ UNCHANGED <<disk, upload, cause, up, withdrawn, bounds>>

(* ...and its files are renamed into the archive, the key first...           *)
ArchiveKey ==
  /\ up /\ place = "key"
  /\ \/ keys' = [keys EXCEPT ![hand] = "none"] /\ UNCHANGED <<stayed, faults>>
     \/ Fault /\ stayed' = [stayed EXCEPT ![hand] = @ \cup {"key"}] /\ UNCHANGED keys
  /\ place' = "cert"
  /\ UNCHANGED <<modules, certs, upload, hand, listed, cause, up, starts, withdrawn, placed,
                 crashes>>

\* The certificate copied instead of moved.
CopyCert ==
  /\ up /\ place = "cert" /\ place' = "wasm"
  /\ UNCHANGED <<disk, upload, hand, listed, cause, up, history, bounds>>

(* ...then the certificate...                                                *)
ArchiveCert ==
  /\ up /\ place = "cert"
  /\ \/ certs' = certs \ {hand} /\ UNCHANGED <<stayed, faults>>
     \/ Fault /\ stayed' = [stayed EXCEPT ![hand] = @ \cup {"cert"}] /\ UNCHANGED certs
  /\ place' = "wasm"
  /\ UNCHANGED <<modules, keys, upload, hand, listed, cause, up, starts, withdrawn, placed,
                 crashes>>

(* ...and whatever is by now under the name of the module; no result of the  *)
(* three is looked at...                                                     *)
ArchiveModule ==
  /\ up /\ place = "wasm"
  /\ \/ modules' = modules \ {hand} /\ UNCHANGED faults
     \/ hand \in modules /\ Fault /\ UNCHANGED modules
  /\ place' = "looking" /\ hand' = NoName
  /\ UNCHANGED <<keys, certs, upload, listed, cause, up, history, placed, crashes>>

(* ...until the listing is done.                                             *)
ScanEnds ==
  /\ up /\ place = "looking" /\ listed = {}
  /\ place' = "asleep"
  /\ UNCHANGED <<disk, upload, hand, listed, cause, up, history, bounds>>

-----------------------------------------------------------------------------
(* The process dies: requests are broken off, guests are gone.               *)
Crash ==
  /\ up /\ up' = FALSE
  /\ crashes < MaxCrashes /\ crashes' = crashes + 1
  /\ upload' = [u \in Uploads |-> IF upload[u] = "new" THEN "new" ELSE "over"]
  /\ place' = "asleep" /\ hand' = NoName /\ listed' = {} /\ cause' = "none"
  /\ starts' = [n \in Names |-> 0] /\ withdrawn' = {}
  /\ UNCHANGED <<disk, stayed, placed, faults>>

(* The daemon is started again: the directory is there, the archive is left  *)
(* alone.                                                                    *)
Boot ==
  /\ ~up /\ up' = TRUE
  /\ UNCHANGED <<disk, upload, scan, history, bounds>>

-----------------------------------------------------------------------------
Look(n) ==
  \/ NamePanics(n) \/ SkipIncomplete(n)
  \/ ReadPanics(n) \/ ReadFails(n)
  \/ SkipCorrupt(n) \/ Start(n)

Orchestrator ==
  Tick \/ (\E n \in Names : Look(n)) \/ ArchiveKey \/ ArchiveCert \/ ArchiveModule \/ ScanEnds

Next ==
  \/ \E u \in Uploads, n \in Names : Create(u, n)
  \/ \E u \in Uploads : FileDone(u) \/ WriteFails(u) \/ UploadEnds(u)
  \/ \E n \in Names : Place(n) \/ PlaceModule(n)
  \/ Orchestrator
  \/ Crash \/ Boot

\* The interval fires and the task goes on; nobody has to upload, place or restart.
Fairness == WF_vars(Orchestrator)

Spec == Init /\ [][Next]_vars /\ Fairness

-----------------------------------------------------------------------------
(* Types; the orchestrator has a plugin in hand from its start to the last   *)
(* rename, and does not come back to it in the same listing.                 *)
TypeOK ==
  /\ modules \in SUBSET Names /\ certs \in SUBSET Names
  /\ keys \in [Names -> {"none", "good", "corrupt"}]
  /\ upload \in [Uploads -> {"new", "between", "over"} \cup Names]
  /\ place \in {"asleep", "looking", "key", "cert", "wasm", "dead"}
  /\ hand \in Names \cup {NoName}
  /\ hand = NoName <=> place \in {"asleep", "looking"}
  /\ cause \in {"none", "name", "read", "gone"}
  /\ cause = "none" <=> place # "dead"
  /\ listed \in SUBSET (Names \ {hand})
  /\ place = "asleep" => listed = {}
  /\ up \in BOOLEAN
  /\ starts \in [Names -> Nat] /\ stayed \in [Names -> SUBSET {"key", "cert"}]
  /\ withdrawn \in SUBSET Names
  /\ placed \in 0..MaxPlaced /\ faults \in 0..MaxFaults /\ crashes \in 0..MaxCrashes

\* Three things end the loop for good (main.rs 583, 603-605): a name that is not
\* UTF-8, a file that cannot be read, a file that is gone.  Gone is only a module,
\* and only when a failed upload removed it after it was listed (api.rs 884): the
\* renames of the loop itself never take away what it has still to look at.
OnlyUploadsWithdraw == cause = "gone" => hand \in withdrawn

\* While the process runs, a deployment is started a second time only if the
\* renames of its key and of its certificate both failed after the first: the
\* module alone that stays, or is uploaded anew, starts nothing (main.rs 589,
\* 720-731).
StartedOnce ==
  [][\A n \in Names :
       starts'[n] > starts[n] /\ starts[n] > 0 => stayed[n] = {"key", "cert"}]_vars

Complete(n) == up /\ n \in modules /\ keys[n] = "good" /\ n \in certs
Scanning == place # "dead"

\* While the loop lives, a complete plugin is taken by a scan, or withdrawn: neither
\* an incomplete one, nor one with a corrupt key, nor a rename that fails holds it
\* back for ever (main.rs 572-621).  A loop that is dead takes nothing any more,
\* while the daemon runs on (see OnlyUploadsWithdraw for what ends it).
PluginsAreTaken ==
  \A n \in Names : Complete(n) /\ Scanning ~> ~(Complete(n) /\ Scanning)
=============================================================================
