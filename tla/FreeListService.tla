-------------------------- MODULE FreeListService --------------------------
(***************************************************************************)
(* What the concurrent allocator promises about chunks, with no threads,   *)
(* mutexes, colours or pointers in sight: every chunk of the heap is in    *)
(* exactly one of three places, and a starved mutator is granted the spare *)
(* chunks of a finished collection, at most twice before it gives up.      *)
(*                                                                         *)
(*   free    what allocate_chunk hands out (free_list)                     *)
(*   spare   what the collector has reclaimed (collector_list)             *)
(*   inUse   what the mutator has been given and nobody has reclaimed      *)
(*                                                                         *)
(* FreeListHandshake (the pthread protocol) and ConcurrentGC (the marking  *)
(* collector on a real heap) are both shown to implement this module.      *)
(***************************************************************************)
EXTENDS Naturals

CONSTANT Chunk       \* the chunks of the heap

VARIABLES
  free, spare, inUse,
  demand,    \* "none" | "wanted" | "granted" | "ended"
  tries,     \* grants asked for since the mutator ran out, 0 to MaxTries
  ready      \* the collector has finished a collection nobody has taken yet

vars == <<free, spare, inUse, demand, tries, ready>>

MaxTries == 2

Init ==
  /\ free \in SUBSET Chunk
  /\ spare \in SUBSET (Chunk \ free)
  /\ inUse = Chunk \ (free \cup spare)
  /\ demand = "none"
  /\ tries = 0
  /\ ready = TRUE

(* The mutator takes one chunk. *)
Allocate ==
  /\ demand = "none"
  /\ \E c \in free : /\ free' = free \ {c}
                     /\ inUse' = inUse \cup {c}
  /\ UNCHANGED <<spare, demand, tries, ready>>

(* The mutator runs out and asks for more. *)
Request ==
  /\ demand = "none"
  /\ free = {}
  /\ demand' = "wanted"
  /\ tries' = 1
  /\ UNCHANGED <<free, spare, inUse, ready>>

(* The collector hands over everything it has reclaimed, even nothing. *)
Grant ==
  /\ demand = "wanted"
  /\ ready
  /\ free' = spare
  /\ spare' = {}
  /\ ready' = FALSE
  /\ demand' = "granted"
  /\ UNCHANGED <<inUse, tries>>

(* The collector reclaims one chunk, then another, until it is done. *)
Reclaim ==
  /\ demand # "ended"
  /\ ~ready
  /\ \E c \in inUse : /\ spare' = spare \cup {c}
                      /\ inUse' = inUse \ {c}
  /\ UNCHANGED <<free, demand, tries, ready>>

FinishCollection ==
  /\ demand # "ended"
  /\ ~ready
  /\ ready' = TRUE
  /\ UNCHANGED <<free, spare, inUse, demand, tries>>

(* What the mutator makes of a grant. *)
Accept ==
  /\ demand = "granted"
  /\ free # {}
  /\ demand' = "none"
  /\ tries' = 0
  /\ UNCHANGED <<free, spare, inUse, ready>>

Retry ==
  /\ demand = "granted"
  /\ free = {}
  /\ tries < MaxTries
  /\ demand' = "wanted"
  /\ tries' = tries + 1
  /\ UNCHANGED <<free, spare, inUse, ready>>

GiveUp ==
  /\ demand = "granted"
  /\ free = {}
  /\ tries = MaxTries
  /\ demand' = "ended"
  /\ UNCHANGED <<free, spare, inUse, tries, ready>>

(* The program returns, or stops with an error of its own. *)
Return ==
  /\ demand = "none"
  /\ demand' = "ended"
  /\ UNCHANGED <<free, spare, inUse, tries, ready>>

Next ==
  \/ Allocate \/ Request \/ Grant \/ Reclaim \/ FinishCollection
  \/ Accept \/ Retry \/ GiveUp \/ Return

Spec == Init /\ [][Next]_vars

(* The collector finishes its collections and answers requests, the        *)
(* mutator looks at what it was granted.                                   *)
Fairness ==
  /\ WF_vars(Grant)
  /\ WF_vars(FinishCollection)
  /\ WF_vars(Accept \/ Retry \/ GiveUp)

FairSpec == Spec /\ Fairness

-----------------------------------------------------------------------------

TypeOK ==
  /\ free \in SUBSET Chunk
  /\ spare \in SUBSET Chunk
  /\ inUse \in SUBSET Chunk
  /\ demand \in {"none", "wanted", "granted", "ended"}
  /\ tries \in 0 .. MaxTries
  /\ ready \in BOOLEAN

(* No chunk is lost and none is in two places: allocate_chunk never hands  *)
(* out a chunk the collector still holds or the mutator already has.       *)
Partition ==
  /\ free \cup spare \cup inUse = Chunk
  /\ free \cap spare = {}
  /\ free \cap inUse = {}
  /\ spare \cap inUse = {}

=============================================================================
