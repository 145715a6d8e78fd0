------------------------- MODULE FreeListHandshake -------------------------
(***************************************************************************)
(* The protocol by which the mutator (the interpreter's thread) gets a new *)
(* free list from the collector thread: allocate_chunk,                    *)
(* mutator_await_free_list and collector_main of concurrent_allocator.c,   *)
(* one action per call on a mutex or a condition variable.                 *)
(*                                                                         *)
(* A list of chunks is the set of its chunks.  What collector_collect_     *)
(* garbage finds is left open here: any chunks that are in use, one at a   *)
(* time (ConcurrentGC models which).                                       *)
(*                                                                         *)
(* A program counter names the statement its thread executes next.         *)
(***************************************************************************)
EXTENDS Naturals

CONSTANTS Chunk,       \* the chunks of the heap
          FirstHalf    \* the chunks allocate_heap puts on free_list

ASSUME HalfAssumption == FirstHalf \subseteq Chunk

VARIABLES
  free_list, collector_list,   \* the two lists
  used,                        \* chunks handed out and not reclaimed since
  flag_freelist_empty,         \* 0 or 1
  mutex,                       \* mutex_freelist_empty and _ready: who holds them
  mutator, collector,          \* program counters
  tries,                       \* mutator_await_free_list's local
  process                      \* "running", or how the process ended

lists == <<free_list, collector_list, used>>
vars  == <<lists, flag_freelist_empty, mutex, mutator, collector, tries, process>>

MutatorPC ==
  {"running", "lock_empty", "set_flag", "signal_empty", "lock_ready",
   "unlock_empty", "wait_ready", "waiting", "relock_ready", "unlock_ready",
   "check"}

CollectorPC ==
  {"lock_empty", "test_flag", "waiting", "relock_empty", "assert_flag",
   "clear_flag", "unlock_empty", "lock_ready", "assign", "signal_ready",
   "unlock_ready", "collect"}

MaxTries == 2

(* allocate_heap has strung both lists and cleared the flag before it      *)
(* starts the collector thread.                                            *)
Init ==
  /\ free_list = FirstHalf
  /\ collector_list = Chunk \ FirstHalf
  /\ used = {}
  /\ flag_freelist_empty = 0
  /\ mutex = [empty |-> "nobody", ready |-> "nobody"]
  /\ mutator = "running"
  /\ collector = "lock_empty"
  /\ tries = 0
  /\ process = "running"

-----------------------------------------------------------------------------
(* Steps of a thread.                                                      *)

MutatorGoes(from, to) ==
  /\ process = "running"
  /\ mutator = from
  /\ mutator' = to

CollectorGoes(from, to) ==
  /\ process = "running"
  /\ collector = from
  /\ collector' = to

(* pthread_mutex_lock, and the end of pthread_cond_wait; then              *)
(* pthread_mutex_unlock, and the beginning of pthread_cond_wait, which     *)
(* gives up the mutex and waits in one step.                               *)
Takes(thread, m) == mutex[m] = "nobody" /\ mutex' = [mutex EXCEPT ![m] = thread]
GivesUp(m)       == mutex' = [mutex EXCEPT ![m] = "nobody"]

MutatorTakes(m, from, to) ==
  /\ MutatorGoes(from, to) /\ Takes("mutator", m)
  /\ UNCHANGED <<lists, flag_freelist_empty, collector, tries, process>>

MutatorGivesUp(m, from, to) ==
  /\ MutatorGoes(from, to) /\ GivesUp(m)
  /\ UNCHANGED <<lists, flag_freelist_empty, collector, tries, process>>

CollectorTakes(m, from, to) ==
  /\ CollectorGoes(from, to) /\ Takes("collector", m)
  /\ UNCHANGED <<lists, flag_freelist_empty, mutator, tries, process>>

CollectorGivesUp(m, from, to) ==
  /\ CollectorGoes(from, to) /\ GivesUp(m)
  /\ UNCHANGED <<lists, flag_freelist_empty, mutator, tries, process>>

(* error_assert ends the process when its condition does not hold.         *)
ErrorAssert(condition) == IF condition THEN "running" ELSE "assert_failed"

-----------------------------------------------------------------------------
(* The mutator.                                                            *)

(* allocate_chunk with chunks left: any of them stands for the first.      *)
AllocateChunk ==
  /\ process = "running"
  /\ mutator = "running"
  /\ \E c \in free_list : /\ free_list' = free_list \ {c}
                          /\ used' = used \cup {c}
  /\ UNCHANGED <<collector_list, flag_freelist_empty, mutex, mutator,
                 collector, tries, process>>

(* allocate_chunk with free_list == NULL.                                  *)
RunOut ==
  /\ MutatorGoes("running", "lock_empty")
  /\ free_list = {}
  /\ tries' = 1
  /\ UNCHANGED <<lists, flag_freelist_empty, mutex, collector, process>>

(* main returns: the process ends and takes the collector with it.         *)
Return ==
  /\ process = "running"
  /\ mutator = "running"
  /\ process' = "returned"
  /\ UNCHANGED <<lists, flag_freelist_empty, mutex, mutator, collector, tries>>

MutatorLockEmpty == MutatorTakes("empty", "lock_empty", "set_flag")

(* error_assert(0 == flag_freelist_empty); flag_freelist_empty = 1         *)
MutatorSetFlag ==
  /\ MutatorGoes("set_flag", "signal_empty")
  /\ process' = ErrorAssert(flag_freelist_empty = 0)
  /\ flag_freelist_empty' = 1
  /\ UNCHANGED <<lists, mutex, collector, tries>>

(* Mutants: the signal forgotten; the mutex released with the signal,      *)
(* before mutex_freelist_ready is held.                                    *)
MutatorSignalEmpty_Forgotten ==
  /\ MutatorGoes("signal_empty", "lock_ready")
  /\ UNCHANGED <<lists, flag_freelist_empty, mutex, collector, tries, process>>

MutatorSignalEmpty_Unlocking ==
  /\ MutatorGoes("signal_empty", "lock_ready") /\ GivesUp("empty")
  /\ collector' = IF collector = "waiting" THEN "relock_empty" ELSE collector
  /\ UNCHANGED <<lists, flag_freelist_empty, tries, process>>

(* A signal nobody waits for is lost; a waiter has to take its mutex again *)
(* before pthread_cond_wait returns.                                       *)
MutatorSignalEmpty ==
  /\ MutatorGoes("signal_empty", "lock_ready")
  /\ collector' = IF collector = "waiting" THEN "relock_empty" ELSE collector
  /\ UNCHANGED <<lists, flag_freelist_empty, mutex, tries, process>>

MutatorLockReady == MutatorTakes("ready", "lock_ready", "unlock_empty")

MutatorUnlockEmpty == MutatorGivesUp("empty", "unlock_empty", "wait_ready")

MutatorWaitReady == MutatorGivesUp("ready", "wait_ready", "waiting")

MutatorRelockReady == MutatorTakes("ready", "relock_ready", "unlock_ready")

MutatorUnlockReady == MutatorGivesUp("ready", "unlock_ready", "check")

(* The end of the retry loop: chunks arrived, one more try, or give up.    *)
MutatorResume ==
  /\ MutatorGoes("check", "running")
  /\ free_list # {}
  /\ tries' = 0
  /\ UNCHANGED <<lists, flag_freelist_empty, mutex, collector, process>>

(* Mutant: one try too many. *)
MutatorRetry_OffByOne ==
  /\ MutatorGoes("check", "lock_empty")
  /\ free_list = {}
  /\ tries <= MaxTries
  /\ tries' = tries + 1
  /\ UNCHANGED <<lists, flag_freelist_empty, mutex, collector, process>>

MutatorRetry ==
  /\ MutatorGoes("check", "lock_empty")
  /\ free_list = {}
  /\ tries < MaxTries
  /\ tries' = tries + 1
  /\ UNCHANGED <<lists, flag_freelist_empty, mutex, collector, process>>

MutatorGiveUp ==
  /\ process = "running"
  /\ mutator = "check"
  /\ free_list = {}
  /\ tries = MaxTries
  /\ process' = "no_free_chunks"
  /\ UNCHANGED <<lists, flag_freelist_empty, mutex, mutator, collector, tries>>

-----------------------------------------------------------------------------
(* The collector.                                                          *)

CollectorLockEmpty == CollectorTakes("empty", "lock_empty", "test_flag")

(* if (1 != flag_freelist_empty) pthread_cond_wait(...)                    *)
CollectorWaitEmpty ==
  flag_freelist_empty # 1 /\ CollectorGivesUp("empty", "test_flag", "waiting")

CollectorSkipWait ==
  /\ CollectorGoes("test_flag", "clear_flag")
  /\ flag_freelist_empty = 1
  /\ UNCHANGED <<lists, flag_freelist_empty, mutex, mutator, tries, process>>

CollectorRelockEmpty == CollectorTakes("empty", "relock_empty", "assert_flag")

(* error_assert(1 == flag_freelist_empty)                                  *)
CollectorAssertFlag ==
  /\ CollectorGoes("assert_flag", "clear_flag")
  /\ process' = ErrorAssert(flag_freelist_empty = 1)
  /\ UNCHANGED <<lists, flag_freelist_empty, mutex, mutator, tries>>

(* Mutant: the flag stays up after the request was seen. *)
CollectorClearFlag_Forgotten ==
  /\ CollectorGoes("clear_flag", "unlock_empty")
  /\ UNCHANGED <<lists, flag_freelist_empty, mutex, mutator, tries, process>>

CollectorClearFlag ==
  /\ CollectorGoes("clear_flag", "unlock_empty")
  /\ flag_freelist_empty' = 0
  /\ UNCHANGED <<lists, mutex, mutator, tries, process>>

CollectorUnlockEmpty == CollectorGivesUp("empty", "unlock_empty", "lock_ready")

CollectorLockReady == CollectorTakes("ready", "lock_ready", "assign")

(* Mutant: collector_list = NULL is missing. *)
CollectorAssign_KeepsList ==
  /\ CollectorGoes("assign", "signal_ready")
  /\ free_list' = collector_list
  /\ UNCHANGED <<collector_list, used, flag_freelist_empty, mutex, mutator,
                 tries, process>>

(* free_list = collector_list; collector_list = NULL; the colours swap and *)
(* the registers turn grey (see ConcurrentGC).                             *)
CollectorAssign ==
  /\ CollectorGoes("assign", "signal_ready")
  /\ free_list' = collector_list
  /\ collector_list' = {}
  /\ UNCHANGED <<used, flag_freelist_empty, mutex, mutator, tries, process>>

(* Mutant: the answer is never signalled. *)
CollectorSignalReady_Forgotten ==
  /\ CollectorGoes("signal_ready", "unlock_ready")
  /\ UNCHANGED <<lists, flag_freelist_empty, mutex, mutator, tries, process>>

CollectorSignalReady ==
  /\ CollectorGoes("signal_ready", "unlock_ready")
  /\ mutator' = IF mutator = "waiting" THEN "relock_ready" ELSE mutator
  /\ UNCHANGED <<lists, flag_freelist_empty, mutex, tries, process>>

CollectorUnlockReady == CollectorGivesUp("ready", "unlock_ready", "collect")

(* collector_build_collector_list puts one more chunk on its list.         *)
CollectorReclaim ==
  /\ process = "running"
  /\ collector = "collect"
  /\ \E c \in used : /\ used' = used \ {c}
                     /\ collector_list' = collector_list \cup {c}
  /\ UNCHANGED <<free_list, flag_freelist_empty, mutex, mutator, collector,
                 tries, process>>

CollectorFinish ==
  /\ CollectorGoes("collect", "lock_empty")
  /\ UNCHANGED <<lists, flag_freelist_empty, mutex, mutator, tries, process>>

-----------------------------------------------------------------------------
(* The whole.                                                              *)

(* Nothing runs once the process has ended.                                *)
Ended == process # "running" /\ UNCHANGED vars

(* mutator_await_free_list *)
AwaitFreeList ==
  \/ MutatorLockEmpty \/ MutatorSetFlag \/ MutatorSignalEmpty
  \/ MutatorLockReady \/ MutatorUnlockEmpty \/ MutatorWaitReady
  \/ MutatorRelockReady \/ MutatorUnlockReady
  \/ MutatorResume \/ MutatorRetry \/ MutatorGiveUp

Mutator == AllocateChunk \/ RunOut \/ Return \/ AwaitFreeList

(* collector_main *)
Collector ==
  \/ CollectorLockEmpty \/ CollectorWaitEmpty \/ CollectorSkipWait
  \/ CollectorRelockEmpty \/ CollectorAssertFlag \/ CollectorClearFlag
  \/ CollectorUnlockEmpty \/ CollectorLockReady \/ CollectorAssign
  \/ CollectorSignalReady \/ CollectorUnlockReady
  \/ CollectorReclaim \/ CollectorFinish

Next == Mutator \/ Collector \/ Ended

Spec == Init /\ [][Next]_vars

(* Both threads are scheduled.  Nothing says that the program goes on      *)
(* allocating: only the inside of mutator_await_free_list is fair.         *)
FairSpec == Spec /\ WF_vars(AwaitFreeList) /\ WF_vars(Collector)

(* pthread_cond_wait may return although nobody signalled: POSIX allows it *)
(* and tells callers to test their condition again.  Not part of Next.     *)
SpuriousWakeup ==
  /\ process = "running"
  /\ \/ /\ mutator = "waiting"
        /\ mutator' = "relock_ready"
        /\ UNCHANGED collector
     \/ /\ collector = "waiting"
        /\ collector' = "relock_empty"
        /\ UNCHANGED mutator
  /\ UNCHANGED <<lists, flag_freelist_empty, mutex, tries, process>>

SpuriousSpec == Init /\ [][Next \/ SpuriousWakeup]_vars

-----------------------------------------------------------------------------
(* Properties.                                                             *)

(* Every variable stays in its range; tries never passes the two rounds of *)
(* mutator_await_free_list.                                                *)
TypeOK ==
  /\ free_list \in SUBSET Chunk
  /\ collector_list \in SUBSET Chunk
  /\ used \in SUBSET Chunk
  /\ flag_freelist_empty \in {0, 1}
  /\ mutex \in [{"empty", "ready"} -> {"nobody", "mutator", "collector"}]
  /\ mutator \in MutatorPC
  /\ collector \in CollectorPC
  /\ tries \in 0 .. MaxTries
  /\ process \in {"running", "returned", "no_free_chunks", "assert_failed"}

(* While the collector owns mutex_freelist_ready and rewrites free_list,   *)
(* the colours and the registers, the mutator is asleep in                 *)
(* pthread_cond_wait, "because of how it overlapped the locking of the     *)
(* mutex" (collector_main): so the handover races with nothing and the   *)
(* signal that follows it is not lost.                                     *)
HandoverWhileMutatorWaits ==
  collector \in {"assign", "signal_ready"} => mutator = "waiting"

(* Neither error_assert on flag_freelist_empty ever fires.                 *)
AssertionsHold == process # "assert_failed"

(* No request for chunks is slept through: the collector never waits while *)
(* a request is pending (except in the instant before the signal it is     *)
(* about to get), and the mutator only waits for an answer that the        *)
(* collector still has to give.                                            *)
NoRequestIsMissed ==
  /\ collector = "waiting" /\ flag_freelist_empty = 1 => mutator = "signal_empty"
  /\ mutator = "waiting" =>
       \/ flag_freelist_empty = 1
       \/ collector \in {"unlock_empty", "lock_ready", "assign", "signal_ready"}

(* A mutator that waits for chunks gets them or the process ends: neither  *)
(* thread starves and they do not wait on each other.                      *)
AwaitReturns ==
  mutator = "lock_empty" ~> (mutator = "running" \/ process # "running")

(* The protocol implements the service: one atomic grant per request, two  *)
(* grants at most before the mutator gives up.                             *)
demand ==
  IF process # "running" THEN "ended"
  ELSE IF mutator = "running" THEN "none"
  ELSE IF \/ collector = "signal_ready"
          \/ mutator \in {"relock_ready", "unlock_ready", "check"} THEN "granted"
  ELSE "wanted"

ready == collector \notin {"signal_ready", "unlock_ready", "collect"}

Service == INSTANCE FreeListService
  WITH free <- free_list, spare <- collector_list, inUse <- used

ImplementsService == Service!FairSpec

(* No chunk is lost in a handover or sits on two lists at once.            *)
ChunksConserved == Service!Partition

=============================================================================
