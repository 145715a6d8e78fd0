---------------------- MODULE FreeListHandshakeProofs ----------------------
(***************************************************************************)
(* The handshake is safe for any heap, proved with TLAPS.                  *)
(*                                                                         *)
(* The invariant tells which thread owns which mutex where, when the flag  *)
(* is up, and how far the other thread can be once one has come to a given *)
(* place.  From it follow the properties TLC checks on four chunks, and    *)
(* that the protocol implements FreeListService.  Liveness stays with TLC. *)
(***************************************************************************)
EXTENDS FreeListHandshake, TLAPS

(* Where mutator_await_free_list has asked for chunks and not been woken.  *)
Asking == {"signal_empty", "lock_ready", "unlock_empty", "wait_ready", "waiting"}

(* Where collector_main has seen a request and not answered it.            *)
Answering == {"unlock_empty", "lock_ready", "assign", "signal_ready"}

Owners ==
  /\ mutex.empty = "mutator"
       <=> mutator \in {"set_flag", "signal_empty", "lock_ready", "unlock_empty"}
  /\ mutex.empty = "collector"
       <=> collector \in {"test_flag", "assert_flag", "clear_flag", "unlock_empty"}
  /\ mutex.ready = "mutator"
       <=> mutator \in {"unlock_empty", "wait_ready", "unlock_ready"}
  /\ mutex.ready = "collector"
       <=> collector \in {"assign", "signal_ready", "unlock_ready"}

(* The flag is up from the request to the collector's notice of it.        *)
Flag ==
  /\ flag_freelist_empty = 1 <=> mutator \in Asking /\ collector \notin Answering
  /\ collector \in {"relock_empty", "assert_flag", "clear_flag"}
       => flag_freelist_empty = 1
  /\ collector = "waiting" /\ flag_freelist_empty = 1 => mutator = "signal_empty"

(* A request that is being answered has its mutator waiting, or about to.  *)
Overlap ==
  /\ collector \in Answering => mutator \in {"wait_ready", "waiting"}
  /\ collector \in {"assign", "signal_ready"} => mutator = "waiting"

(* What the collector overwrites is empty.                                 *)
Starved ==
  mutator \in {"lock_empty", "set_flag"} \cup Asking /\ collector # "signal_ready"
    => free_list = {}

Control == Owners /\ Flag /\ Overlap

IInv == TypeOK /\ Control /\ Starved /\ ChunksConserved /\ AssertionsHold

-----------------------------------------------------------------------------

LEMMA InitialState == Init => IInv
<1> SUFFICES ASSUME Init PROVE IInv
  OBVIOUS
<1>1. TypeOK
  BY HalfAssumption DEF Init, TypeOK, MutatorPC, CollectorPC, MaxTries
<1>2. Control
  BY DEF Init, Control, Owners, Flag, Overlap, Asking, Answering
<1>3. Starved /\ AssertionsHold
  BY DEF Init, Starved, AssertionsHold, Asking
<1>4. ChunksConserved
  BY HalfAssumption DEF Init, ChunksConserved, Service!Partition
<1> QED
  BY <1>1, <1>2, <1>3, <1>4 DEF IInv

LEMMA TypeStep == TypeOK /\ [Next]_vars => TypeOK'
<1> SUFFICES ASSUME TypeOK, [Next]_vars PROVE TypeOK'
  OBVIOUS
<1> USE DEF TypeOK, MutatorPC, CollectorPC, MaxTries, MutatorGoes, CollectorGoes,
            ErrorAssert, lists, MutatorTakes, MutatorGivesUp, CollectorTakes,
            CollectorGivesUp, Takes, GivesUp
<1>1. CASE AllocateChunk \/ RunOut \/ Return
  BY <1>1 DEF AllocateChunk, RunOut, Return
<1>2. CASE AwaitFreeList
  BY <1>2 DEF AwaitFreeList, MutatorLockEmpty, MutatorSetFlag,
              MutatorSignalEmpty, MutatorLockReady, MutatorUnlockEmpty,
              MutatorWaitReady, MutatorRelockReady, MutatorUnlockReady,
              MutatorResume, MutatorRetry, MutatorGiveUp
<1>3. CASE Collector
  BY <1>3 DEF Collector, CollectorLockEmpty, CollectorWaitEmpty,
              CollectorSkipWait, CollectorRelockEmpty, CollectorAssertFlag,
              CollectorClearFlag, CollectorUnlockEmpty, CollectorLockReady,
              CollectorAssign, CollectorSignalReady, CollectorUnlockReady,
              CollectorReclaim, CollectorFinish
<1>4. CASE UNCHANGED vars
  BY <1>4 DEF vars
<1> QED
  BY <1>1, <1>2, <1>3, <1>4 DEF Next, Mutator, Ended

(* Who owns what, and where the other thread is, after each statement.     *)
LEMMA ControlStep == TypeOK /\ Control /\ [Next]_vars => Control'
<1> SUFFICES ASSUME TypeOK, Control, [Next]_vars PROVE Control'
  OBVIOUS
<1> USE DEF TypeOK, Control, Owners, Flag, Overlap, Asking, Answering, MutatorGoes,
            CollectorGoes, MutatorTakes, MutatorGivesUp,
            CollectorTakes, CollectorGivesUp, Takes, GivesUp
<1>1. CASE AllocateChunk
  BY <1>1 DEF AllocateChunk
<1>2. CASE RunOut
  BY <1>2 DEF RunOut
<1>3. CASE Return
  BY <1>3 DEF Return
<1>4. CASE MutatorLockEmpty
  BY <1>4 DEF MutatorLockEmpty
<1>5. CASE MutatorSetFlag
  BY <1>5 DEF MutatorSetFlag
<1>6. CASE MutatorSignalEmpty
  BY <1>6 DEF MutatorSignalEmpty
<1>7. CASE MutatorLockReady
  BY <1>7 DEF MutatorLockReady
<1>8. CASE MutatorUnlockEmpty
  BY <1>8 DEF MutatorUnlockEmpty
<1>9. CASE MutatorWaitReady
  BY <1>9 DEF MutatorWaitReady
<1>10. CASE MutatorRelockReady
  BY <1>10 DEF MutatorRelockReady
<1>11. CASE MutatorUnlockReady
  BY <1>11 DEF MutatorUnlockReady
<1>12. CASE MutatorResume
  BY <1>12 DEF MutatorResume
<1>13. CASE MutatorRetry
  BY <1>13 DEF MutatorRetry
<1>14. CASE MutatorGiveUp
  BY <1>14 DEF MutatorGiveUp
<1>15. CASE CollectorLockEmpty
  BY <1>15 DEF CollectorLockEmpty
<1>16. CASE CollectorWaitEmpty
  BY <1>16 DEF CollectorWaitEmpty
<1>17. CASE CollectorSkipWait
  BY <1>17 DEF CollectorSkipWait
<1>18. CASE CollectorRelockEmpty
  BY <1>18 DEF CollectorRelockEmpty
<1>19. CASE CollectorAssertFlag
  BY <1>19 DEF CollectorAssertFlag
<1>20. CASE CollectorClearFlag
  BY <1>20 DEF CollectorClearFlag
<1>21. CASE CollectorUnlockEmpty
  BY <1>21 DEF CollectorUnlockEmpty
<1>22. CASE CollectorLockReady
  BY <1>22 DEF CollectorLockReady
<1>23. CASE CollectorAssign
  BY <1>23 DEF CollectorAssign
<1>24. CASE CollectorSignalReady
  BY <1>24 DEF CollectorSignalReady
<1>25. CASE CollectorUnlockReady
  BY <1>25 DEF CollectorUnlockReady
<1>26. CASE CollectorReclaim
  BY <1>26 DEF CollectorReclaim
<1>27. CASE CollectorFinish
  BY <1>27 DEF CollectorFinish
<1>28. CASE UNCHANGED vars
  BY <1>28 DEF vars
<1> QED
  BY <1>1, <1>2, <1>3, <1>4, <1>5, <1>6, <1>7, <1>8, <1>9, <1>10, <1>11,
     <1>12, <1>13, <1>14, <1>15, <1>16, <1>17, <1>18, <1>19, <1>20, <1>21,
     <1>22, <1>23, <1>24, <1>25, <1>26, <1>27, <1>28
  DEF Next, Mutator, AwaitFreeList, Collector, Ended

(* The lists, and the two assertions.                                      *)
LEMMA ListStep ==
  IInv /\ [Next]_vars => Starved' /\ ChunksConserved' /\ AssertionsHold'
<1> SUFFICES ASSUME IInv, [Next]_vars
             PROVE  Starved' /\ ChunksConserved' /\ AssertionsHold'
  OBVIOUS
<1> USE DEF IInv, Starved, ChunksConserved, Service!Partition, AssertionsHold, Asking,
            MutatorGoes, CollectorGoes, lists, MutatorTakes, MutatorGivesUp,
            CollectorTakes, CollectorGivesUp, Takes, GivesUp
<1>1. CASE AllocateChunk
  BY <1>1 DEF AllocateChunk, TypeOK
<1>2. CASE RunOut
  BY <1>2 DEF RunOut
<1>3. CASE MutatorRetry
  BY <1>3 DEF MutatorRetry
<1>4. CASE MutatorSetFlag
  (* A request that was answered has had its flag cleared. *)
  <2>1. flag_freelist_empty = 0
    BY <1>4 DEF MutatorSetFlag, Control, Flag, TypeOK
  <2> QED
    BY <1>4, <2>1 DEF MutatorSetFlag, ErrorAssert
<1>5. CASE CollectorAssertFlag
  <2>1. flag_freelist_empty = 1
    BY <1>5 DEF CollectorAssertFlag, Control, Flag
  <2> QED
    BY <1>5, <2>1 DEF CollectorAssertFlag, ErrorAssert
<1>6. CASE CollectorAssign
  (* The list that is overwritten is empty: the mutator waits. *)
  <2>1. mutator = "waiting" /\ free_list = {}
    BY <1>6 DEF CollectorAssign, Control, Overlap
  <2> QED
    BY <1>6, <2>1 DEF CollectorAssign
<1>7. CASE CollectorSignalReady
  BY <1>7 DEF CollectorSignalReady, Control, Overlap
<1>8. CASE CollectorReclaim
  BY <1>8 DEF CollectorReclaim, TypeOK
<1>9. CASE \/ Return \/ MutatorLockEmpty \/ MutatorSignalEmpty \/ MutatorLockReady
           \/ MutatorUnlockEmpty \/ MutatorWaitReady \/ MutatorRelockReady
           \/ MutatorUnlockReady \/ MutatorResume \/ MutatorGiveUp
           \/ CollectorLockEmpty \/ CollectorWaitEmpty \/ CollectorSkipWait
           \/ CollectorRelockEmpty \/ CollectorClearFlag \/ CollectorUnlockEmpty
           \/ CollectorLockReady \/ CollectorUnlockReady \/ CollectorFinish
  BY <1>9 DEF Return, MutatorLockEmpty, MutatorSignalEmpty, MutatorLockReady,
              MutatorUnlockEmpty, MutatorWaitReady, MutatorRelockReady,
              MutatorUnlockReady, MutatorResume, MutatorGiveUp,
              CollectorLockEmpty, CollectorWaitEmpty, CollectorSkipWait,
              CollectorRelockEmpty, CollectorClearFlag, CollectorUnlockEmpty,
              CollectorLockReady, CollectorUnlockReady, CollectorFinish
<1>10. CASE UNCHANGED vars
  BY <1>10 DEF vars
<1> QED
  BY <1>1, <1>2, <1>3, <1>4, <1>5, <1>6, <1>7, <1>8, <1>9, <1>10
  DEF Next, Mutator, AwaitFreeList, Collector, Ended

(* Every reachable state satisfies the invariant. *)
THEOREM Invariance == Spec => []IInv
<1>1. IInv /\ [Next]_vars => IInv'
  BY TypeStep, ControlStep, ListStep DEF IInv
<1> QED
  BY InitialState, <1>1, PTL DEF Spec

-----------------------------------------------------------------------------
(* What the runs check on four chunks, for any heap.                       *)

(* The variables of the allocator stay in their ranges; in particular      *)
(* mutator_await_free_list asks twice at most.                             *)
THEOREM TypeCorrect == Spec => []TypeOK
BY Invariance, PTL DEF IInv

(* The collector rewrites free_list, the colours and the registers only    *)
(* while the mutator sleeps in pthread_cond_wait.                          *)
THEOREM HandoverIsSafe == Spec => []HandoverWhileMutatorWaits
<1>1. IInv => HandoverWhileMutatorWaits
  BY DEF IInv, Control, Overlap, HandoverWhileMutatorWaits
<1> QED
  BY Invariance, <1>1, PTL

(* Neither error_assert on flag_freelist_empty fires, as long as           *)
(* pthread_cond_wait only returns when it was signalled.                   *)
THEOREM AssertionsNeverFail == Spec => []AssertionsHold
BY Invariance, PTL DEF IInv

(* No request for chunks is slept through, by either thread. *)
THEOREM RequestsAreSeen == Spec => []NoRequestIsMissed
<1>1. IInv => NoRequestIsMissed
  BY DEF IInv, Control, Flag, Asking, Answering, NoRequestIsMissed
<1> QED
  BY Invariance, <1>1, PTL

(* Every chunk is on one list, or on the other, or in use. *)
THEOREM ChunksAreConserved == Spec => []ChunksConserved
BY Invariance, PTL DEF IInv

-----------------------------------------------------------------------------
(* The refinement: a grant is the assignment to free_list, a collection is *)
(* over when the collector goes back to mutex_freelist_empty.              *)

LEMMA InitRefines == Init => Service!Init
BY HalfAssumption DEF Init, Service!Init, demand, ready

LEMMA StepRefines == IInv /\ [Next]_vars => [Service!Next]_(Service!vars)
<1> SUFFICES ASSUME IInv, [Next]_vars PROVE [Service!Next]_(Service!vars)
  OBVIOUS
<1> USE DEF demand, ready, lists, MutatorGoes, CollectorGoes, MutatorTakes,
            MutatorGivesUp, CollectorTakes, CollectorGivesUp, Takes, GivesUp
<1>1. CASE AllocateChunk
  <2>1. Service!Allocate
    BY <1>1 DEF AllocateChunk, Service!Allocate
  <2> QED
    BY <2>1 DEF Service!Next
<1>2. CASE RunOut
  <2>1. Service!Request
    BY <1>2 DEF RunOut, Service!Request, IInv, Control, Overlap
  <2> QED
    BY <2>1 DEF Service!Next
<1>3. CASE Return
  <2>1. Service!Return
    BY <1>3 DEF Return, Service!Return
  <2> QED
    BY <2>1 DEF Service!Next
<1>4. CASE CollectorAssign
  <2>1. mutator = "waiting"
    BY <1>4 DEF CollectorAssign, IInv, Control, Overlap
  <2>2. Service!Grant
    BY <1>4, <2>1 DEF CollectorAssign, Service!Grant
  <2> QED
    BY <2>2 DEF Service!Next
<1>5. CASE CollectorReclaim
  <2>1. Service!Reclaim
    BY <1>5 DEF CollectorReclaim, Service!Reclaim
  <2> QED
    BY <2>1 DEF Service!Next
<1>6. CASE CollectorFinish
  <2>1. Service!FinishCollection
    BY <1>6 DEF CollectorFinish, Service!FinishCollection
  <2> QED
    BY <2>1 DEF Service!Next
<1>7. CASE MutatorResume
  <2>1. Service!Accept
    BY <1>7 DEF MutatorResume, Service!Accept
  <2> QED
    BY <2>1 DEF Service!Next
<1>8. CASE MutatorRetry
  (* What it goes back to waits for a new grant. *)
  <2>1. collector # "signal_ready"
    BY <1>8 DEF MutatorRetry, IInv, Control, Overlap
  <2>2. Service!Retry
    BY <1>8, <2>1 DEF MutatorRetry, Service!Retry, MaxTries, Service!MaxTries
  <2> QED
    BY <2>2 DEF Service!Next
<1>9. CASE MutatorGiveUp
  <2>1. Service!GiveUp
    BY <1>9 DEF MutatorGiveUp, Service!GiveUp, MaxTries, Service!MaxTries
  <2> QED
    BY <2>1 DEF Service!Next
<1>10. CASE MutatorSetFlag \/ CollectorAssertFlag
  (* The assertions hold, so the process goes on. *)
  <2>1. process' = "running"
    BY <1>10, ListStep DEF MutatorSetFlag, CollectorAssertFlag, ErrorAssert,
       AssertionsHold
  <2> QED
    BY <1>10, <2>1 DEF MutatorSetFlag, CollectorAssertFlag, Service!vars
<1>11. CASE CollectorSignalReady
  (* The grant was made already; the mutator learns of it. *)
  BY <1>11 DEF CollectorSignalReady, IInv, Control, Overlap, Service!vars
<1>12. CASE \/ MutatorLockEmpty \/ MutatorSignalEmpty \/ MutatorLockReady
            \/ MutatorUnlockEmpty \/ MutatorWaitReady \/ MutatorRelockReady
            \/ MutatorUnlockReady
  BY <1>12 DEF MutatorLockEmpty, MutatorSignalEmpty, MutatorLockReady,
               MutatorUnlockEmpty, MutatorWaitReady, MutatorRelockReady,
               MutatorUnlockReady, Service!vars
<1>13. CASE \/ CollectorLockEmpty \/ CollectorWaitEmpty \/ CollectorSkipWait
            \/ CollectorRelockEmpty \/ CollectorClearFlag \/ CollectorUnlockEmpty
            \/ CollectorLockReady \/ CollectorUnlockReady
  BY <1>13 DEF CollectorLockEmpty, CollectorWaitEmpty, CollectorSkipWait,
               CollectorRelockEmpty, CollectorClearFlag, CollectorUnlockEmpty,
               CollectorLockReady, CollectorUnlockReady, Service!vars
<1>14. CASE UNCHANGED vars
  BY <1>14 DEF vars, Service!vars
<1> QED
  BY <1>1, <1>2, <1>3, <1>4, <1>5, <1>6, <1>7, <1>8, <1>9, <1>10, <1>11, <1>12,
     <1>13, <1>14
  DEF Next, Mutator, AwaitFreeList, Collector, Ended

(* The pthread protocol implements the free-list service: a request is     *)
(* granted once, with just the chunks the collector had reclaimed, and     *)
(* after two empty grants the process ends.                                *)
THEOREM Refinement == Spec => Service!Spec
<1>1. Init => Service!Init
  BY InitRefines
<1>2. IInv /\ [Next]_vars => [Service!Next]_(Service!vars)
  BY StepRefines
<1> QED
  BY Invariance, <1>1, <1>2, PTL DEF Spec, Service!Spec

=============================================================================
