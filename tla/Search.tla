------------------------------- MODULE Search -------------------------------
(***************************************************************************)
(* The hybrid search of memory_router.rs beside the compaction of          *)
(* Compaction.tla.  A search embeds its query, reads the hot vector buffer *)
(* and then LanceDB, and fuses the two answers by transaction id.  Each    *)
(* read is atomic, and the daemon may archive rows, and the watermark      *)
(* listener evict them, between any two steps of the search.               *)
(*                                                                         *)
(* One search at a time: searches change nothing, so they do not meet.     *)
(* Its limit is at least the number of rows: ranks, scores and truncation  *)
(* are left out, and so are the namespace and the query, which a search    *)
(* of all rows dominates.                                                  *)
(***************************************************************************)
EXTENDS Compaction, Sequences

VARIABLES
  stage,   \* of the search: none, embedding, reading, answered
  toRead,  \* the places it has still to read, in order
  found,   \* the transaction ids it has read (fused_map)
  blind,   \* LanceDB did not answer, which counts as no rows
  held     \* history: the ids that RAM or LanceDB has held ever since it began

search == <<stage, toRead, found, blind, held>>

Ids(S) == {row[f] : f \in S}
HotIds == Ids(hot)
ColdIds == Ids({f \in Frames : vault[f] > 0})

\* cold_future is built before the buffer is searched, but a future reads
\* nothing until it is awaited, and that is after.
ReadsEagerly == <<"lance", "ram">>
Reads == <<"ram", "lance">>

NoSearch ==
  /\ stage' = "none" /\ toRead' = <<>> /\ found' = {}
  /\ blind' = FALSE /\ held' = {}

SearchInit ==
  /\ Init
  /\ stage = "none" /\ toRead = <<>> /\ found = {}
  /\ blind = FALSE /\ held = {}

-----------------------------------------------------------------------------
(* A client of the gateway, which listens once the node is up, asks.         *)
Ask ==
  /\ phase = "up" /\ stage = "none"
  /\ stage' = "embedding"
  /\ held' = HotIds \cup ColdIds
  /\ UNCHANGED <<vars, toRead, found, blind>>

EmbedQuery ==
  /\ stage = "embedding"
  /\ stage' = "reading"
  /\ toRead' = Reads
  /\ UNCHANGED <<vars, found, blind, held>>

(* ... or the embedder fails, and the client is told so.                     *)
EmbedQueryFails ==
  /\ stage = "embedding"
  /\ Fault
  /\ NoSearch
  /\ UNCHANGED <<persistent, ram, compactor, history>>

Reading(place) == stage = "reading" /\ Head(toRead) = place

NextRead ==
  /\ toRead' = Tail(toRead)
  /\ stage' = IF toRead' = <<>> THEN "answered" ELSE "reading"

(* search_hot, under the read lock of the buffer.                            *)
SearchHot ==
  /\ Reading("ram")
  /\ found' = found \cup HotIds
  /\ NextRead
  /\ UNCHANGED <<vars, blind, held>>

(* search_cold_vector opens the table and reads one version of it.           *)
SearchCold ==
  /\ Reading("lance")
  /\ found' = found \cup ColdIds
  /\ NextRead
  /\ UNCHANGED <<vars, blind, held>>

(* ... or fails, and unwrap_or_default takes that for an empty answer.       *)
SearchColdFails ==
  /\ Reading("lance")
  /\ Fault
  /\ blind' = TRUE
  /\ NextRead
  /\ UNCHANGED <<persistent, ram, compactor, history, found, held>>

Respond ==
  /\ stage = "answered"
  /\ NoSearch
  /\ UNCHANGED vars

-----------------------------------------------------------------------------
(* A step of the node beside the search; a row that is in neither place for *)
(* a moment is not held all the while.                                       *)
Beside(step) ==
  /\ step
  /\ held' = held \cap (HotIds' \cup ColdIds')
  /\ UNCHANGED <<stage, toRead, found, blind>>

(* A crash ends the search with the node.                                    *)
CrashWithSearch == Crash /\ NoSearch

SearchSteps ==
  \/ Ask \/ EmbedQuery \/ EmbedQueryFails
  \/ SearchHot \/ SearchCold \/ SearchColdFails
  \/ Respond

SearchNext ==
  \/ SearchSteps
  \/ \E f \in Frames : Beside(Publish(f))
  \/ Beside(AskRotate) \/ Beside(AnswerRotate) \/ Beside(ExecuteCompaction)
  \/ \E w \in watermarks : Beside(Evict(w))
  \/ Beside(ListenerEnds)
  \/ CrashWithSearch \/ Beside(Boot)

SearchSpec == SearchInit /\ [][SearchNext]_<<vars, search>> /\ Fairness

-----------------------------------------------------------------------------
\* A search that LanceDB answers lists every row that RAM or LanceDB held all
\* the while: a row on its way from one to the other is missed by neither read
\* (memory_router.rs 744-748; compactor.rs 229 and 249 archive before the
\* watermark that evicts, hot_memory.rs 67).
AnswersAreComplete == stage = "answered" /\ ~blind => held \subseteq found
=============================================================================
