------------------------- MODULE ConcurrentGCProofs -------------------------
(***************************************************************************)
(* For a heap of any size and any calls of the builtins: what the two      *)
(* threads keep of the free lists, what follows for the heap, and that     *)
(* what the program can no longer get at is reclaimed.                     *)
(***************************************************************************)
EXTENDS MarkingProofs

-----------------------------------------------------------------------------
(* The free lists.                                                         *)

FreeChunks == {i \in Addr : heap[i].type = "free" /\ heap[i].colour = green}

Free  == Follow(heap, free_list)
Spare == Follow(heap, collector_list)

Listed ==
  /\ free_list \in OrNull(Addr) /\ collector_list \in OrNull(Addr)
  /\ Free \cup Spare = FreeChunks /\ Free \cap Spare = {}
  /\ Straight(heap, free_list) /\ Straight(heap, collector_list)
  /\ mpc = "await" => free_list = NULL

(* A heap whose chunks' second words stay inside it *)
WellLinked(h) == DOMAIN h = Addr /\ \A i \in Addr : h[i].b \in Pointer

LEMMA HeapLinked ==
  ASSUME NEW h, WellLinked(h)
  PROVE  Chained(h) /\ DOMAIN h = Addr
BY DEF WellLinked, Chained, Pointer, Addr, NULL

LEMMA HeapWellLinked ==
  ASSUME HeapOfRecords, Ranges
  PROVE  WellLinked(heap)
BY DEF WellLinked, HeapOfRecords, Ranges

(* The step writes chunks in use only, and they stay in use. *)
FreeUntouched ==
  /\ WellLinked(heap) /\ WellLinked(heap')
  /\ \A i \in Addr : heap'[i] = heap[i] \/ (heap[i].type # "free" /\ heap'[i].type # "free")

LEMMA FreeStays ==
  ASSUME FreeUntouched
  PROVE  FreeChunks' = FreeChunks /\ \A i \in FreeChunks : heap'[i] = heap[i]
BY DEF FreeUntouched, FreeChunks, Addr

LEMMA ListStays ==
  ASSUME FreeUntouched, NEW x \in OrNull(Addr), Follow(heap, x) \subseteq FreeChunks, Straight(heap, x)
  PROVE  Follow(heap, x)' = Follow(heap, x) /\ Straight(heap, x)'
<1> PICK g : g = heap'
  OBVIOUS
<1>1. Chained(heap) /\ Chained(g) /\ DOMAIN heap = Addr /\ DOMAIN g = Addr
  BY HeapLinked DEF FreeUntouched
<1>2. \A i \in Follow(heap, x) : g[i].b = heap[i].b
  BY FreeStays
<1>3. Follow(g, x) = Follow(heap, x) /\ Straight(g, x)
  BY <1>1, <1>2, StraightSame DEF OrNull
<1> QED
  BY <1>3

LEMMA ListsStay ==
  ASSUME Listed, FreeUntouched, UNCHANGED <<free_list, collector_list>>,
         mpc' = "await" => mpc = "await" \/ free_list = NULL
  PROVE  Listed' /\ Free' = Free /\ Spare' = Spare
<1>1. FreeChunks' = FreeChunks
  BY FreeStays
<1>2. Follow(heap, free_list)' = Follow(heap, free_list) /\ Straight(heap, free_list)'
  BY ListStays DEF Listed, Free, Spare
<1>3. Follow(heap, collector_list)' = Follow(heap, collector_list) /\ Straight(heap, collector_list)'
  BY ListStays DEF Listed, Free, Spare
<1>4. Free' = Free /\ Spare' = Spare
  BY <1>2, <1>3 DEF Free, Spare
<1> QED
  BY <1>1, <1>2, <1>3, <1>4 DEF Listed, OrNull, Addr

(* allocate_chunk takes the first free chunk. *)
LEMMA ListsAllocate ==
  ASSUME Listed, WellLinked(heap), WellLinked(heap'), free_list # NULL, free_list' = heap[free_list].b,
         collector_list' = collector_list, \A i \in Addr \ {free_list} : heap'[i] = heap[i],
         heap'[free_list].type # "free", mpc' # "await"
  PROVE  Listed' /\ free_list \in Free /\ Free' = Free \ {free_list} /\ Spare' = Spare
<1> USE DEF Free, Spare
<1> PICK g, f, x : g = heap' /\ f = free_list /\ x = heap[f].b
  OBVIOUS
<1>1. Chained(heap) /\ Chained(g) /\ DOMAIN heap = Addr /\ DOMAIN g = Addr
  BY HeapLinked
<1>2. f \in Addr /\ x \in OrNull(Addr) /\ free_list' = x
  BY DEF Listed, OrNull, WellLinked, Pointer
<1>3. Follow(heap, x) = Follow(heap, f) \ {f} /\ Straight(heap, x) /\ f \in Follow(heap, f)
  BY <1>1, <1>2, FollowRest, FollowStep DEF Listed
<1>4. Follow(g, x) = Follow(heap, x) /\ Straight(g, x)
  <2>1. \A i \in Follow(heap, x) : g[i].b = heap[i].b
    BY <1>3 DEF Listed, FreeChunks
  <2> QED
    BY <1>1, <1>2, <1>3, <2>1, StraightSame DEF OrNull
<1>5. Follow(g, collector_list) = Follow(heap, collector_list) /\ Straight(g, collector_list)
  <2>1. \A i \in Follow(heap, collector_list) : g[i].b = heap[i].b
    BY <1>3 DEF Listed, FreeChunks
  <2> QED
    BY <1>1, <2>1, StraightSame DEF Listed, OrNull
<1>6. FreeChunks' = FreeChunks \ {f}
  BY <1>2 DEF FreeChunks, Addr
<1>7. Follow(heap, free_list)' = Follow(g, x) /\ Straight(heap, free_list)' = Straight(g, x)
      /\ Follow(heap, collector_list)' = Follow(g, collector_list)
      /\ Straight(heap, collector_list)' = Straight(g, collector_list)
  BY <1>2
<1> QED
  BY <1>2, <1>3, <1>4, <1>5, <1>6, <1>7 DEF Listed, OrNull, Addr

(* collector_build_collector_list puts one before the others. *)
LEMMA ListsBuild ==
  ASSUME Listed, WellLinked(heap), WellLinked(heap'), scan \in Addr, scan \notin FreeChunks,
         \A i \in Addr \ {scan} : heap'[i] = heap[i], heap'[scan] = FreeChunk(collector_list),
         collector_list' = scan, UNCHANGED <<free_list, mpc>>
  PROVE  Listed' /\ Free' = Free /\ Spare' = Spare \cup {scan}
<1> USE DEF Free, Spare
<1> PICK g, s, x : g = heap' /\ s = scan /\ x = collector_list
  OBVIOUS
<1>1. Chained(heap) /\ Chained(g) /\ DOMAIN heap = Addr /\ DOMAIN g = Addr
  BY HeapLinked
<1>2. s \in Addr /\ x \in OrNull(Addr) /\ g[s].b = x /\ s \notin Follow(heap, x) /\ s \notin Follow(heap, free_list)
  BY DEF Listed, FreeChunk
<1>3. Follow(g, x) = Follow(heap, x) /\ Straight(g, x)
  <2>1. \A i \in Follow(heap, x) : g[i].b = heap[i].b
    BY <1>2 DEF Listed, FreeChunks
  <2> QED
    BY <1>1, <1>2, <2>1, StraightSame DEF Listed, OrNull
<1>4. Follow(g, free_list) = Follow(heap, free_list) /\ Straight(g, free_list)
  <2>1. \A i \in Follow(heap, free_list) : g[i].b = heap[i].b
    BY <1>2 DEF Listed, FreeChunks
  <2> QED
    BY <1>1, <2>1, StraightSame DEF Listed, OrNull
<1>5. Follow(g, s) = {s} \cup Follow(g, x)
  BY <1>1, <1>2, FollowStep
<1>6. Straight(g, s)
  BY <1>2, <1>3, <1>5 DEF Straight
<1>7. FreeChunks' = FreeChunks \cup {s}
  BY <1>2 DEF FreeChunks, FreeChunk, Addr
<1>8. Follow(heap, free_list)' = Follow(g, free_list) /\ Straight(heap, free_list)' = Straight(g, free_list)
      /\ Follow(heap, collector_list)' = Follow(g, s) /\ Straight(heap, collector_list)' = Straight(g, s)
  OBVIOUS
<1> QED
  BY <1>2, <1>3, <1>4, <1>5, <1>6, <1>7, <1>8 DEF Listed, OrNull, Addr

(* The mutator gets the collector's list. *)
LEMMA ListsHandover ==
  ASSUME Listed, FreeUntouched, mpc = "await", mpc' # "await", free_list' = collector_list, collector_list' = NULL
  PROVE  Listed' /\ Free = {} /\ Free' = Spare /\ Spare' = {}
<1> USE DEF Free, Spare
<1> PICK g : g = heap'
  OBVIOUS
<1>1. Chained(heap) /\ Chained(g)
  BY HeapLinked DEF FreeUntouched
<1>2. Follow(heap, free_list) = {} /\ Follow(g, NULL) = {} /\ Straight(g, NULL)
  BY <1>1, FollowNothing DEF Listed
<1>3. Follow(g, collector_list) = Follow(heap, collector_list) /\ Straight(g, collector_list)
  <2>1. PICK x : x = collector_list
    OBVIOUS
  <2>2. Follow(heap, x)' = Follow(heap, x) /\ Straight(heap, x)'
    BY <2>1, ListStays DEF Listed
  <2> QED
    BY <2>1, <2>2
<1>4. FreeChunks' = FreeChunks
  BY FreeStays
<1>5. Follow(heap, free_list)' = Follow(g, collector_list) /\ Straight(heap, free_list)' = Straight(g, collector_list)
      /\ Follow(heap, collector_list)' = Follow(g, NULL) /\ Straight(heap, collector_list)' = Straight(g, NULL)
  OBVIOUS
<1> QED
  BY <1>2, <1>3, <1>4, <1>5 DEF Listed, OrNull, Addr

LEMMA ListedFree ==
  ASSUME Listed, WellLinked(heap)
  PROVE  FreeIsFree
<1> USE DEF Free, Spare
<1>1. Chained(heap) /\ DOMAIN heap = Addr
  BY HeapLinked
<1>2. free_list # NULL => free_list \in Follow(heap, free_list)
  BY <1>1, FollowIsLeast DEF Listed, OrNull
<1> QED
  BY <1>2 DEF Listed, FreeIsFree, FreeChunks

LEMMA ListedIntact ==
  ASSUME Listed, WellLinked(heap)
  PROVE  FreeListsIntact /\ Chain(free_list) = Free /\ Chain(collector_list) = Spare /\ Free \subseteq Addr /\ Spare \subseteq Addr
<1> USE DEF Free, Spare
<1>1. Chained(heap) /\ DOMAIN heap = Addr /\ IsFiniteSet(Addr)
  <2>1. IsFiniteSet(Addr)
    BY HeapAssumption, FS_Interval DEF Addr
  <2> QED
    BY <2>1, HeapLinked
<1>2. Chain(free_list) = Follow(heap, free_list) /\ Chain(collector_list) = Follow(heap, collector_list)
  <2>1. Chain(free_list) = ChainIn(heap, free_list) /\ Chain(collector_list) = ChainIn(heap, collector_list)
    BY DEF Chain
  <2> QED
    BY <1>1, <2>1, FollowIsClosure DEF Listed, OrNull
<1> QED
  BY <1>2 DEF Listed, FreeListsIntact, FreeChunks, Addr

(* Chunks m to n, each linked to the next *)
LEMMA Segment ==
  ASSUME NEW h, Chained(h), NEW m \in Nat, NEW n \in Nat, m <= n, m .. n \subseteq DOMAIN h,
         \A i \in m .. n : h[i].b = IF i = n THEN NULL ELSE i + 1
  PROVE  Follow(h, m) = m .. n /\ Straight(h, m)
<1>1. ASSUME NEW k \in m .. n PROVE Follow(h, k) \subseteq k .. n
  <2>1. k .. n \in SUBSET DOMAIN h /\ k \in k .. n /\ k \in DOMAIN h
    OBVIOUS
  <2>2. \A i \in k .. n : h[i].b = NULL \/ h[i].b \in k .. n
    OBVIOUS
  <2> QED
    BY <2>1, <2>2, FollowIsLeast
<1>2. m .. n \subseteq Follow(h, m)
  <2> DEFINE J == {j \in m .. n : j \notin Follow(h, m)}
  <2>1. SUFFICES ASSUME J # {} PROVE FALSE
    OBVIOUS
  <2>2. J \subseteq Nat
    OBVIOUS
  <2>3. PICK j \in J : \A k \in J : j <= k
    <3> HIDE DEF J
    <3> QED
      BY <2>1, <2>2, Smallest
  <2>4. /\ m \in DOMAIN h /\ m # NULL /\ m \in Follow(h, m)
        /\ \A i \in Follow(h, m) : h[i].b = NULL \/ h[i].b \in Follow(h, m)
    <3>1. m \in DOMAIN h /\ m # NULL
      BY DEF NULL
    <3> QED
      BY <3>1, FollowIsLeast
  <2>5. j - 1 \in m .. n /\ j - 1 \notin J
    BY <2>3, <2>4
  <2>6. j - 1 \in Follow(h, m) /\ h[j - 1].b = j /\ j # NULL
    BY <2>5 DEF NULL
  <2> QED
    BY <2>3, <2>4, <2>6
<1>3. Follow(h, m) = m .. n
  <2>1. m \in m .. n
    OBVIOUS
  <2> QED
    BY <1>1, <1>2, <2>1
<1>4. ASSUME NEW y \in m .. n PROVE y \notin Follow(h, h[y].b)
  <2>1. CASE y = n
    BY <2>1, FollowNothing
  <2>2. CASE y # n
    <3>1. h[y].b = y + 1 /\ y + 1 \in m .. n
      BY <2>2
    <3>2. Follow(h, y + 1) \subseteq y + 1 .. n
      BY <1>1, <3>1
    <3> QED
      BY <3>1, <3>2
  <2> QED
    BY <2>1, <2>2
<1> QED
  BY <1>3, <1>4 DEF Straight

LEMMA InitLists ==
  ASSUME GCInit
  PROVE  Listed /\ WellLinked(heap)
<1>1. Half \in Nat /\ Half >= 2 /\ 2 * Half <= N /\ N <= 2 * Half + 1 /\ N \in Nat
  BY HeapAssumption DEF Half
<1>2. /\ DOMAIN heap = Addr
      /\ \A i \in Addr : i < 2 * Half => heap[i] = FreeChunk(IF i \in {Half - 1, 2 * Half - 1} THEN NULL ELSE i + 1)
      /\ \A i \in Addr : i >= 2 * Half => heap[i].b = NULL /\ heap[i].colour = 0
  <2>1. [FreeChunk(NULL) EXCEPT !.colour = 0] = [type |-> "free", colour |-> 0, a |-> NULL, b |-> NULL]
    BY DEF FreeChunk
  <2> QED
    BY <1>1, <2>1 DEF GCInit, Addr
<1>3. \A i \in Addr : heap[i].b = (IF i \in {Half - 1, 2 * Half - 1} \/ i >= 2 * Half THEN NULL ELSE i + 1)
  BY <1>1, <1>2 DEF Addr, FreeChunk
<1>4. WellLinked(heap)
  BY <1>1, <1>2, <1>3 DEF WellLinked, Pointer, Addr
<1>5. Chained(heap)
  BY <1>4, HeapLinked
<1>6. Follow(heap, 0) = 0 .. Half - 1 /\ Straight(heap, 0)
  <2>1. Half - 1 \in Nat /\ 0 <= Half - 1 /\ 0 .. Half - 1 \subseteq DOMAIN heap
    BY <1>1, <1>2 DEF Addr
  <2>2. \A i \in 0 .. Half - 1 : heap[i].b = IF i = Half - 1 THEN NULL ELSE i + 1
    BY <1>1, <1>3 DEF Addr
  <2> QED
    BY <1>5, <2>1, <2>2, Segment
<1>7. Follow(heap, Half) = Half .. 2 * Half - 1 /\ Straight(heap, Half)
  <2>1. 2 * Half - 1 \in Nat /\ Half <= 2 * Half - 1 /\ Half .. 2 * Half - 1 \subseteq DOMAIN heap
    BY <1>1, <1>2 DEF Addr
  <2>2. \A i \in Half .. 2 * Half - 1 : heap[i].b = IF i = 2 * Half - 1 THEN NULL ELSE i + 1
    BY <1>1, <1>3 DEF Addr
  <2> QED
    BY <1>1, <1>5, <2>1, <2>2, Segment
<1>8. FreeChunks = 0 .. 2 * Half - 1
  BY <1>1, <1>2 DEF FreeChunks, FreeChunk, Addr, green
<1>9. 0 .. Half - 1 \cup Half .. 2 * Half - 1 = 0 .. 2 * Half - 1
      /\ (0 .. Half - 1) \cap (Half .. 2 * Half - 1) = {}
  BY <1>1
<1>10. free_list = 0 /\ collector_list = Half /\ mpc = "op" /\ 0 \in Addr /\ Half \in Addr
  BY <1>1 DEF GCInit, Addr
<1> QED
  BY <1>4, <1>6, <1>7, <1>8, <1>9, <1>10 DEF Listed, OrNull, Free, Spare

-----------------------------------------------------------------------------
(* Who writes what.                                                        *)

LEMMA NextHeapWellLinked ==
  ASSUME HeapOfRecords', Ranges'
  PROVE  WellLinked(heap')
BY DEF WellLinked, HeapOfRecords, Ranges, Pointer, Addr

(* Free chunks stay as they are, types stay, and nothing turns green. *)
UsedOnly ==
  \A i \in Addr : /\ heap'[i] = heap[i] \/ (heap[i].type # "free" /\ heap'[i].type # "free")
                  /\ heap'[i].type = heap[i].type
                  /\ heap'[i].colour = green => heap[i].colour = green

LEMMA InUseWritten ==
  ASSUME HeapOfRecords, NEW x \in Addr, heap[x].type # "free", NEW v,
         (heap' = Coloured(x, v) /\ v # green) \/ heap' = WrittenA(x, v) \/ heap' = WrittenB(x, v)
  PROVE  UsedOnly
<1>1. DOMAIN heap = Addr /\ \A i \in Addr : heap[i] = Record(heap[i])
  BY DEF HeapOfRecords
<1>2. \A i \in Addr : i # x => heap'[i] = heap[i]
  BY <1>1 DEF Coloured, WrittenA, WrittenB
<1>3. heap'[x].type = heap[x].type /\ (heap'[x].colour = green => heap[x].colour = green)
  <2>1. CASE heap' = Coloured(x, v) /\ v # green
    BY <1>1, <2>1 DEF Coloured, Record
  <2>2. CASE heap' = WrittenA(x, v)
    BY <1>1, <2>2 DEF WrittenA, Record
  <2>3. CASE heap' = WrittenB(x, v)
    BY <1>1, <2>3 DEF WrittenB, Record
  <2> QED
    BY <2>1, <2>2, <2>3
<1> QED
  BY <1>2, <1>3 DEF UsedOnly

LEMMA KnownWritten ==
  ASSUME NEW K, NEW o, NEW c, Shape(K, o, c), NEW x \in K, NEW v,
         (heap' = Coloured(x, v) /\ v # green) \/ heap' = WrittenA(x, v) \/ heap' = WrittenB(x, v)
  PROVE  UsedOnly
<1>1. HeapOfRecords /\ x \in Addr /\ heap[x].type # "free"
  BY DEF Shape, SwapInv, Words
<1> QED
  BY <1>1, InUseWritten

LEMMA MutatorWrites ==
  ASSUME NEW K, NEW o, NEW c, Shape(K, o, c), MutatorStep, ~ Allocate
  PROVE  UsedOnly
<1>0. UNCHANGED heap => UsedOnly
  BY DEF UsedOnly
<1>1. CASE HookDarken
  <2>1. Hooking /\ hook.darken # <<>>
    BY <1>1 DEF HookDarken, At, Hooking, Shape, Control
  <2>2. hook \in Hooks(K)
    BY <2>1, HookInHooks DEF Shape
  <2>3. Head(hook.darken) \in K
    BY <2>1, <2>2 DEF Hooks
  <2>4. heap' = Coloured(Head(hook.darken), grey) /\ grey # green
    BY <1>1 DEF HookDarken, grey, green
  <2> QED
    BY <2>3, <2>4, KnownWritten
<1>2. CASE HookBlacken
  <2>1. Hooking /\ hook.blacken # NULL
    BY <1>2 DEF HookBlacken, At, Hooking, Shape, Control
  <2>2. hook \in Hooks(K)
    BY <2>1, HookInHooks DEF Shape
  <2>3. hook.blacken \in K
    BY <2>1, <2>2 DEF Hooks, OrNull
  <2>4. heap' = Coloured(hook.blacken, black) /\ black # green
    BY <1>2 DEF HookBlacken, Shape, SwapInv, Colours, green
  <2> QED
    BY <2>3, <2>4, KnownWritten
<1>3. CASE LinkFront
  <2>1. P \in K
    BY <1>3, AtLink DEF LinkFront, In, At
  <2>2. heap' = WrittenA(P, node)
    BY <1>3 DEF LinkFront, WrittenA
  <2> QED
    BY <2>1, <2>2, KnownWritten
<1>4. CASE LinkBack
  <2>1. P \in K /\ P \in Lists(K) /\ LastOf(P) = heap[P].b
    BY <1>4, AtLink DEF LinkBack, In, At
  <2>2. CASE heap[P].a = NULL
    <3>1. heap' = WrittenA(P, node)
      BY <1>4, <2>2 DEF LinkBack, WrittenA
    <3> QED
      BY <2>1, <3>1, KnownWritten
  <2>3. CASE heap[P].a # NULL
    <3>1. heap[P].b \in K
      BY <2>1, <2>3 DEF Shape, Owned, Nodes
    <3>2. heap' = WrittenB(heap[P].b, node)
      BY <1>4, <2>3 DEF LinkBack, WrittenB
    <3> QED
      BY <3>1, <3>2, KnownWritten
  <2> QED
    BY <2>2, <2>3
<1>5. CASE LinkLast
  <2>1. Linking /\ HasNode /\ todo # <<>> /\ mpc = "last"
    BY <1>5 DEF LinkLast, At, Linking, HasNode
  <2>2. P \in K
    BY <2>1, PushKnown DEF Shape, Control, Lists
  <2>3. heap' = WrittenB(P, node) \/ UNCHANGED heap
    BY <1>5 DEF LinkLast, WrittenB
  <2> QED
    BY <1>0, <2>2, <2>3, KnownWritten
<1>6. CASE Unlink
  <2>1. P \in K
    BY <1>6, AtUnlink
  <2>2. UNCHANGED heap \/ heap' = WrittenA(P, NULL) \/ heap' = WrittenA(P, heap[heap[P].a].b)
    BY <1>6 DEF Unlink, WrittenA
  <2> QED
    BY <1>0, <2>1, <2>2, KnownWritten
<1>7. CASE UnlinkLast
  <2>1. P \in K
    BY <1>7 DEF UnlinkLast, At, Shape, Halfway, Lists
  <2>2. heap' = WrittenB(P, NULL)
    BY <1>7 DEF UnlinkLast, WrittenB
  <2> QED
    BY <2>1, <2>2, KnownWritten
<1>8. CASE MoveCurrent
  <2>1. todo # <<>> /\ mpc = "op" /\ now.op \in {"rewind", "advance"}
    BY <1>8 DEF MoveCurrent, In, At
  <2> QED
    BY <2>1, NextOperation DEF Shape, Pushes
<1>9. CASE HookRead \/ StartPush \/ LinkHook \/ StartPop \/ RunOut \/ Resume \/ Retry \/ GiveUp
           \/ Fetch \/ Keep \/ BindSymbol \/ Exit
  BY <1>0, <1>9 DEF HookRead, StartPush, LinkHook, StartPop, RunOut, Resume, Retry, GiveUp, Fetch, Keep, BindSymbol, Exit
<1> QED
  BY <1>1, <1>2, <1>3, <1>4, <1>5, <1>6, <1>7, <1>8, <1>9 DEF MutatorStep

LEMMA MutatorLists ==
  ASSUME NEW K, NEW o, NEW c, Shape(K, o, c), MutatorStep, ~ Allocate
  PROVE  UNCHANGED <<free_list, collector_list>> /\ (mpc' = "await" => mpc = "await" \/ free_list = NULL)
<1>1. CASE HookRead \/ HookDarken \/ HookBlacken
  <2>1. Hooking
    BY <1>1 DEF HookRead, HookDarken, HookBlacken, At, Hooking
  <2>2. hook \in Hooks(K)
    BY <2>1, HookInHooks DEF Shape
  <2>3. [hook EXCEPT !.darken = Tail(@)].then = hook.then /\ [hook EXCEPT !.blacken = NULL].then = hook.then
    BY DEF Shape, SwapInv, HookReturns
  <2>4. mpc' \in {"hook", "darken", hook.then}
    BY <1>1, <2>3 DEF HookRead, HookDarken, HookBlacken, Goes, Stay
  <2> QED
    BY <1>1, <2>2, <2>4 DEF HookRead, HookDarken, HookBlacken, AllocatorIdle, Hooks
<1>2. CASE StartPush \/ LinkHook \/ StartPop
  <2>1. mpc' # "await"
    BY <1>2 DEF StartPush, LinkHook, StartPop, PushHook, PopHook, Hook, Goes, Stay
  <2> QED
    BY <1>2, <2>1 DEF StartPush, LinkHook, StartPop, AllocatorIdle
<1>3. CASE LinkFront \/ LinkBack \/ LinkLast \/ Unlink \/ UnlinkLast \/ Fetch \/ Keep \/ BindSymbol \/ MoveCurrent
  BY <1>3 DEF LinkFront, LinkBack, LinkLast, Unlink, UnlinkLast, Fetch, Keep, BindSymbol, MoveCurrent, Stay, Finish, AllocatorIdle
<1>4. CASE RunOut \/ Resume \/ Retry \/ GiveUp \/ Exit
  BY <1>4 DEF RunOut, Resume, Retry, GiveUp, Exit, Stay, shared, opVars, At
<1> QED
  BY <1>1, <1>2, <1>3, <1>4 DEF MutatorStep

LEMMA CollectorWrites ==
  ASSUME NEW K, NEW o, NEW c, Shape(K, o, c), CollectorInRange, CollectorStep, ~ Build
  PROVE  UsedOnly
<1>0. UNCHANGED heap => UsedOnly
  BY DEF UsedOnly
<1>1. CASE Handover
  <2>1. HeapOfRecords /\ registers \in Seq(K) /\ K \subseteq Addr /\ \A i \in K : heap[i].type # "free"
    BY DEF Shape, SwapInv, Roots0, Words
  <2>2. \A i \in Range(registers) : i \in K
    BY <2>1 DEF Range
  <2>3. ASSUME NEW i \in Addr
        PROVE  heap'[i] = heap[i] \/ (i \in K /\ heap'[i].type = heap[i].type /\ heap'[i].colour # green)
    <3>1. heap'[i] = IF i \in Range(registers) THEN [heap[i] EXCEPT !.colour = grey] ELSE heap[i]
      BY <1>1 DEF Handover, HandsOver
    <3>2. [heap[i] EXCEPT !.colour = grey].type = heap[i].type /\ [heap[i] EXCEPT !.colour = grey].colour # green
      BY <2>1 DEF HeapOfRecords, Record, grey, green
    <3> QED
      BY <2>2, <3>1, <3>2
  <2> QED
    BY <2>1, <2>3 DEF UsedOnly
<1>2. CASE MarkRoot
  <2>1. PICK r : r = RootChunks[scan + 1]
    OBVIOUS
  <2>2. r \in OrNull(K)
    <3>1. /\ Len(RootChunks) \in Nat
          /\ \A k \in 1 .. Len(RootChunks) : RootChunks[k] \in OrNull(Values(K) \cup Lists(K))
      BY RootList DEF Shape
    <3>2. scan + 1 \in 1 .. Len(RootChunks)
      BY <1>2, <3>1 DEF MarkRoot, CollectorInRange
    <3> QED
      BY <2>1, <3>1, <3>2 DEF Values, Lists, OrNull
  <2>3. heap' = (IF r = NULL THEN heap ELSE Coloured(r, grey)) /\ grey # green
    BY <1>2, <2>1 DEF MarkRoot, grey, green
  <2> QED
    BY <1>0, <2>2, <2>3, KnownWritten DEF OrNull
<1>3. CASE DarkenWrite
  <2>1. scan \in K
    BY <1>3 DEF DarkenWrite, Shape, InHand, Greys
  <2>2. heap' = Coloured(scan, grey) /\ grey # green
    BY <1>3 DEF DarkenWrite, grey, green
  <2> QED
    BY <2>1, <2>2, KnownWritten
<1>4. CASE Blacken
  <2>1. chunk \in K
    BY <1>4 DEF Blacken, Shape, InHand, InWork
  <2>2. heap' = Coloured(chunk, black) /\ black # green
    BY <1>4 DEF Blacken, Shape, SwapInv, Colours, green
  <2> QED
    BY <2>1, <2>2, KnownWritten
<1>5. CASE FindHere \/ FindNext \/ FindPassOver \/ DarkenFirst \/ DarkenSecond \/ BuildOver
  BY <1>0, <1>5 DEF FindHere, FindNext, FindPassOver, DarkenFirst, DarkenSecond, Darken, BuildOver
<1> QED
  BY <1>1, <1>2, <1>3, <1>4, <1>5 DEF CollectorStep

LEMMA CollectorLists ==
  ASSUME CollectorStep, ~ Build, ~ Handover
  PROVE  UNCHANGED <<free_list, collector_list, mpc>>
BY DEF CollectorStep, MarkRoot, FindHere, FindNext, FindPassOver, DarkenFirst, DarkenSecond, Darken, DarkenWrite,
       Blacken, BuildOver, Marking, MutatorIdle, opVars

LEMMA MutatorKeepsLists ==
  ASSUME NEW K, NEW o, NEW c, Shape(K, o, c), Listed, MutatorStep, HeapOfRecords', Ranges'
  PROVE  /\ Listed' /\ Spare' = Spare
         /\ ~ Allocate => Free' = Free
         /\ Allocate => free_list \in Free /\ Free' = Free \ {free_list}
<1>1. WellLinked(heap) /\ WellLinked(heap')
  BY HeapWellLinked, NextHeapWellLinked DEF Shape, SwapInv
<1>2. CASE ~ Allocate
  <2>1. FreeUntouched
    BY <1>1, <1>2, MutatorWrites DEF FreeUntouched, UsedOnly
  <2>2. UNCHANGED <<free_list, collector_list>> /\ (mpc' = "await" => mpc = "await" \/ free_list = NULL)
    BY <1>2, MutatorLists
  <2> QED
    BY <1>2, <2>1, <2>2, ListsStay
<1>3. CASE Allocate
  <2>1. free_list # NULL /\ free_list' = heap[free_list].b /\ collector_list' = collector_list
        /\ heap' = [heap EXCEPT ![free_list] = Filled]
    BY <1>3 DEF Allocate
  <2>2. mpc' # "await"
    BY <1>3 DEF Allocate, Finish, Stay
  <2>3. DOMAIN heap = Addr /\ free_list \in Addr
    BY <2>1 DEF Shape, SwapInv, HeapOfRecords, Listed, OrNull
  <2>4. \A i \in Addr \ {free_list} : heap'[i] = heap[i]
    BY <2>1, <2>3
  <2>5. heap'[free_list].type # "free"
    <3>1. FreeIsFree
      BY <1>1, ListedFree
    <3>2. PICK n : n = free_list
      OBVIOUS
    <3>3. Adds1(K, n)
      BY <1>3, <3>1, <3>2, AllocateAdds
    <3> QED
      BY <3>2, <3>3 DEF Adds1
  <2> QED
    BY <1>1, <1>3, <2>1, <2>2, <2>4, <2>5, ListsAllocate
<1> QED
  BY <1>2, <1>3

LEMMA CollectorKeepsLists ==
  ASSUME NEW K, NEW o, NEW c, Shape(K, o, c), CollectorInRange, Listed, CollectorStep, HeapOfRecords', Ranges'
  PROVE  /\ Listed'
         /\ Handover => Free = {} /\ Free' = Spare /\ Spare' = {}
         /\ ~ Handover => Free' = Free
         /\ ~ Handover /\ ~ Build => Spare' = Spare
         /\ Build => Spare' = Spare \/ (Spare' = Spare \cup {scan} /\ scan \in Addr \ (Free \cup Spare))
<1>1. WellLinked(heap) /\ WellLinked(heap')
  BY HeapWellLinked, NextHeapWellLinked DEF Shape, SwapInv
<1>2. ~ Build => FreeUntouched
  BY <1>1, CollectorWrites DEF FreeUntouched, UsedOnly
<1>3. CASE ~ Build /\ ~ Handover
  BY <1>2, <1>3, CollectorLists, ListsStay
<1>4. CASE Handover
  <2>1. ~ Build
    BY <1>4 DEF Handover, HandsOver, Build, Builds
  <2>2. mpc = "await" /\ mpc' # "await" /\ free_list' = collector_list /\ collector_list' = NULL
    BY <1>4 DEF Handover, HandsOver
  <2> QED
    BY <1>2, <1>4, <2>1, <2>2, ListsHandover
<1>5. CASE Build
  <2>1. scan \in Addr /\ UNCHANGED <<free_list, mpc>>
    BY <1>5, HeapAssumption DEF Build, Builds, CollectorInRange, Addr, MutatorIdle, opVars
  <2>2. CASE heap[scan].colour = white
    <3>1. heap' = [heap EXCEPT ![scan] = FreeChunk(collector_list)] /\ collector_list' = scan
      BY <1>5, <2>2 DEF Build, Builds
    <3>2. scan \notin FreeChunks
      BY <2>2 DEF FreeChunks, Shape, SwapInv, Colours, green
    <3>3. DOMAIN heap = Addr
      BY DEF Shape, SwapInv, HeapOfRecords
    <3>4. heap'[scan] = FreeChunk(collector_list) /\ \A i \in Addr \ {scan} : heap'[i] = heap[i]
      BY <2>1, <3>1, <3>3
    <3>5. ~ Handover /\ scan \notin Free \cup Spare
      BY <1>5, <3>2 DEF Listed, Build, Builds, Handover, HandsOver
    <3> QED
      BY <1>1, <1>5, <2>1, <3>1, <3>2, <3>4, <3>5, ListsBuild
  <2>3. CASE heap[scan].colour # white
    <3>1. UNCHANGED <<heap, collector_list>>
      BY <1>5, <2>3 DEF Build, Builds
    <3>2. FreeUntouched
      BY <1>1, <3>1 DEF FreeUntouched
    <3>3. ~ Handover
      BY <1>5 DEF Build, Builds, Handover, HandsOver
    <3> QED
      BY <1>5, <2>1, <3>1, <3>2, <3>3, ListsStay
  <2> QED
    BY <2>2, <2>3
<1> QED
  BY <1>3, <1>4, <1>5

-----------------------------------------------------------------------------
(* sinavm_initialize: the two stacks are not there yet.                    *)

Stack == [type |-> "list", colour |-> green, a |-> NULL, b |-> NULL]

Booting(b) ==
  /\ b \in {0, 1}
  /\ Ranges
  /\ \A i \in Addr : heap[i].colour # grey /\ heap[i].type \in {"free", "list"}
  /\ \A i \in 0 .. b - 1 : heap[i] = Stack
  /\ b = 0 => heap[0].b = 1
  /\ free_list = b
  /\ bindings = [s \in Symbol |-> NULL] /\ registers = <<>>
  /\ loc = [x \in {"cs", "ds"} |-> IF x = "cs" /\ b = 1 THEN 0 ELSE NULL]
  /\ mpc = "op" /\ hook = NoHook /\ node = NULL
  /\ todo = IF b = 0 THEN initialize ELSE <<New("list", "ds", 0)>>
  /\ cpc = "await" /\ chunk = 0 /\ scan = 0 /\ pass = 0

LEMMA InitBoots == Init => Booting(0)
<1> SUFFICES ASSUME Init PROVE Booting(0)
  OBVIOUS
<1>1. N \in Nat /\ N >= 4 /\ Half \in Nat /\ Half >= 2 /\ Addr = 0 .. N - 1 /\ NULL = -1
  BY HeapAssumption DEF Half, Addr, NULL
<1>2. [FreeChunk(NULL) EXCEPT !.colour = 0] = [type |-> "free", colour |-> 0, a |-> NULL, b |-> NULL]
  BY DEF FreeChunk
<1>3. ASSUME NEW i \in Addr
      PROVE  /\ heap[i].type = "free" /\ heap[i].colour \in {0, green} /\ heap[i].a = NULL
             /\ heap[i].b = (IF i \in {Half - 1, 2 * Half - 1} \/ i >= 2 * Half THEN NULL ELSE i + 1)
  BY <1>1, <1>2 DEF Init, GCInit, FreeChunk
<1>4. Ranges
  <2>1. \A i \in Addr : heap[i].b \in Pointer
    BY <1>1, <1>3 DEF Pointer, Half
  <2> QED
    BY <1>3, <2>1 DEF Ranges, Types, Pointer, green
<1>5. heap[0].b = 1
  BY <1>1, <1>3
<1> QED
  BY <1>3, <1>4, <1>5 DEF Init, GCInit, Booting, green, grey

(* There is one thing to do. *)
LEMMA BootsBy ==
  ASSUME NEW b, Booting(b), Next
  PROVE  Allocate \/ UNCHANGED vars
<1>1. /\ todo # <<>> /\ now = New("list", IF b = 0 THEN "cs" ELSE "ds", 0)
  BY DEF Booting, now, initialize
<1>2. now.op = "new" /\ mpc = "op" /\ cpc = "await" /\ free_list # NULL
  BY <1>1 DEF New, Booting, NULL
<1>3. ~ Call /\ ~ Fail /\ ~ Return /\ ~ CollectorStep
  BY <1>1, <1>2 DEF Call, Fail, Return, Idle, CollectorStep, Handover, HandsOver, MarkRoot, FindHere, FindNext,
     FindPassOver, DarkenFirst, DarkenSecond, Darken, DarkenWrite, Blacken, Build, Builds, BuildOver
<1>4. MutatorStep => Allocate
  BY <1>1, <1>2 DEF MutatorStep, HookRead, HookDarken, HookBlacken, StartPush, LinkFront, LinkHook, LinkBack, LinkLast,
     StartPop, Unlink, UnlinkLast, RunOut, Resume, Retry, GiveUp, Fetch, Keep, BindSymbol, MoveCurrent, Exit, In, At
<1> QED
  BY <1>3, <1>4 DEF Next, Mutator, Collector, Ended, vars

LEMMA BootAllocates ==
  ASSUME NEW b, Booting(b), SwapInv, Allocate
  PROVE  /\ heap' = [heap EXCEPT ![b] = Stack]
         /\ heap'[b] = Stack /\ \A i \in Addr \ {b} : heap'[i] = heap[i]
         /\ free_list' = heap[b].b /\ b \in Addr
         /\ loc' = [x \in {"cs", "ds"} |-> IF x = "cs" THEN 0 ELSE IF b = 1 THEN 1 ELSE NULL]
         /\ todo' = IF b = 0 THEN <<New("list", "ds", 0)>> ELSE <<>>
         /\ UNCHANGED <<collector_list, bindings, registers, hook, node, cpc, chunk, scan, pass, mpc>>
<1>1. /\ todo # <<>> /\ now = New("list", IF b = 0 THEN "cs" ELSE "ds", 0)
  BY DEF Booting, now, initialize
<1>2. now.op = "new" /\ now.p = "list" /\ now.x = (IF b = 0 THEN "cs" ELSE "ds") /\ now.v = 0
  BY <1>1 DEF New
<1>3. Filled = Stack
  BY <1>2 DEF Filled, Stack
<1>4. /\ heap' = [heap EXCEPT ![b] = Stack] /\ free_list' = heap[b].b
      /\ Assign(now.x, b) /\ Finish
      /\ UNCHANGED <<collector_list, bindings, registers, hook, node, cpc, chunk, scan, pass>>
  BY <1>2, <1>3 DEF Allocate, Booting, collectorVars
<1>5. b \in Addr /\ DOMAIN heap = Addr
  BY HeapAssumption DEF Booting, Addr, SwapInv, HeapOfRecords
<1>6. heap'[b] = Stack /\ \A i \in Addr \ {b} : heap'[i] = heap[i]
  BY <1>4, <1>5
<1>7. loc' = [x \in {"cs", "ds"} |-> IF x = "cs" THEN 0 ELSE IF b = 1 THEN 1 ELSE NULL]
  <2>1. DOMAIN loc \cup {now.x} = {"cs", "ds"}
    <3>1. DOMAIN loc = {"cs", "ds"}
      BY DEF Booting
    <3>2. now.x \in {"cs", "ds"}
      BY <1>2
    <3> QED
      BY <3>1, <3>2
  <2>2. loc' = [y \in {"cs", "ds"} |-> IF y = now.x THEN b ELSE loc[y]]
    BY <1>4, <2>1 DEF Assign
  <2>3. \A y \in {"cs", "ds"} : (IF y = now.x THEN b ELSE loc[y]) = (IF y = "cs" THEN 0 ELSE IF b = 1 THEN 1 ELSE NULL)
    <3>1. loc["cs"] = (IF b = 1 THEN 0 ELSE NULL) /\ loc["ds"] = NULL /\ b \in {0, 1}
      BY DEF Booting
    <3> QED
      BY <1>2, <3>1
  <2> QED
    BY <2>2, <2>3
<1>8. todo' = IF b = 0 THEN <<New("list", "ds", 0)>> ELSE <<>>
  <2>1. todo' = Tail(todo)
    BY <1>4 DEF Finish
  <2> QED
    BY <2>1 DEF Booting, initialize
<1>9. mpc' = mpc
  BY <1>4 DEF Finish, Booting
<1> QED
  BY <1>4, <1>5, <1>6, <1>7, <1>8, <1>9

LEMMA NothingCertified ==
  ASSUME NEW V, NEW c, c = Context({}, <<>>, <<>>)
  PROVE  Certified(V, <<>>, c)
<1>1. \E T : <<>> \in Seq(T)
  <2>1. <<>> \in Seq({})
    OBVIOUS
  <2> QED
    BY <2>1
<1>2. Certificate(V, <<>>, <<c>>)
  BY DEF Certificate, Context
<1> QED
  BY <1>1, <1>2 DEF Certified

(* The first stack is there. *)
LEMMA BootKeeps ==
  ASSUME Booting(0), SwapInv, Allocate, SwapInv'
  PROVE  Booting(1)'
<1>1. /\ heap'[0] = Stack /\ \A i \in Addr \ {0} : heap'[i] = heap[i]
      /\ free_list' = heap[0].b
      /\ loc' = [x \in {"cs", "ds"} |-> IF x = "cs" THEN 0 ELSE NULL]
      /\ todo' = <<New("list", "ds", 0)>>
      /\ UNCHANGED <<collector_list, bindings, registers, hook, node, cpc, chunk, scan, pass, mpc>>
  BY BootAllocates
<1>2. heap[0].b = 1 /\ Addr' = Addr /\ Pointer' = Pointer
  BY DEF Booting, Addr, Pointer
<1>3. Ranges'
  BY <1>1, <1>2 DEF Booting, Ranges, Stack, Types, Pointer, green
<1>4. \A i \in Addr : heap'[i].colour # grey /\ heap'[i].type \in {"free", "list"}
  BY <1>1 DEF Booting, Stack, green, grey
<1>5. \A i \in 0 .. 0 : heap'[i] = Stack
  BY <1>1
<1>6. loc' = [x \in {"cs", "ds"} |-> IF x = "cs" /\ 1 = 1 THEN 0 ELSE NULL]
  BY <1>1
<1> QED
  BY <1>1, <1>2, <1>3, <1>4, <1>5, <1>6 DEF Booting

(* Both stacks are there. *)
LEMMA BootEnds ==
  ASSUME Booting(1), SwapInv, Allocate, SwapInv'
  PROVE  \E M, q, d, T : Sound(M, q, d, T)'
<1> PICK K, o, c : K = {0, 1} /\ o = [n \in {} |-> NULL] /\ c = Context({}, <<>>, <<>>)
  OBVIOUS
<1>1. /\ heap'[1] = Stack /\ \A i \in Addr \ {1} : heap'[i] = heap[i]
      /\ loc' = [x \in {"cs", "ds"} |-> IF x = "cs" THEN 0 ELSE 1]
      /\ todo' = <<>>
      /\ UNCHANGED <<collector_list, bindings, registers, hook, node, cpc, chunk, scan, pass, mpc>>
  BY BootAllocates
<1>2. K \subseteq Addr /\ Addr' = Addr /\ Pointer' = Pointer /\ 0 \in Addr /\ 1 \in Addr /\ NULL \notin Addr
  BY HeapAssumption DEF Addr, Pointer, NULL
<1>3. heap'[0] = Stack
  BY <1>1, <1>2 DEF Booting
<1>4. loc'.cs = 0 /\ loc'.ds = 1 /\ DOMAIN loc' = {"cs", "ds"}
  BY <1>1
<1>5. \A i \in K : heap'[i] = Stack
  BY <1>1, <1>3
<1>6. mpc' = "op" /\ hook' = NoHook /\ node' = NULL /\ cpc' = "await" /\ chunk' = 0 /\ scan' = 0 /\ pass' = 0
      /\ registers' = <<>> /\ bindings' = [s \in Symbol |-> NULL]
  BY <1>1 DEF Booting
<1>7. Ranges'
  BY <1>1, <1>2 DEF Booting, Ranges, Stack, Types, Pointer, green
<1>8. Nodes(K)' = {} /\ Lists(K)' = K /\ Values(K)' = {}
  BY <1>4, <1>5 DEF Nodes, Lists, Values, Stack
<1>9. Words(K)'
  BY <1>2, <1>5, <1>8 DEF Words, OrNull, Stack
<1>10. Roots0(K)'
  BY <1>4, <1>6, <1>8 DEF Roots0, OrNull
<1>11. ~ Hooking' /\ ~ HasNode' /\ ~ Linking' /\ ~ InWork' /\ ~ Greys'
  BY <1>6 DEF Hooking, HasNode, Linking, InWork, Greys
<1>12. InHand(K)'
  <2>1. \A i \in Addr : heap'[i].colour # grey
    BY <1>1 DEF Booting, Stack, green, grey
  <2> QED
    BY <1>2, <1>6, <1>11, <2>1 DEF InHand
<1>13. Control'
  BY <1>6, <1>11 DEF Control
<1>14. Owned(K, o)'
  BY <1>5, <1>6, <1>8, <1>11 DEF Owned, LastOf, Stack
<1>15. Fresh(K, o)' /\ Halfway(K)'
  BY <1>6, <1>11 DEF Fresh, Halfway
<1>16. Knows(K, c)'
  <2>1. Rest' = <<>> /\ InRegisters' = <<>>
    BY <1>1, <1>6 DEF Rest, InRegisters
  <2>2. Certified(Plain, <<>>, c) /\ c.code = FALSE /\ c.loc = {} /\ c.regs = <<>> /\ c.top = <<>> /\ c.bound = {}
    BY NothingCertified DEF Context
  <2>0. <<>> \in Seq(Kept) /\ <<>> \in Seq(Kinds) /\ Len(<<>>) = 0 /\ 1 .. 0 = {}
    OBVIOUS
  <2>3. KnowsLocals(K, c)' /\ KnowsBound(K, c)'
    BY <2>2 DEF KnowsLocals, KnowsBound
  <2>4. KnowsRegisters(K, c)'
    <3>1. c.regs \in Seq(Kept) /\ Len(c.regs) = 0
      BY <2>0, <2>2
    <3>2. Len(registers') = 0 /\ Len(InRegisters') = 0
      BY <1>6, <2>0, <2>1
    <3> QED
      BY <3>1, <3>2 DEF KnowsRegisters
  <2>5. KnowsItems(c)'
    <3>1. c.top \in Seq(Kinds) /\ Len(c.top) = 0
      BY <2>0, <2>2
    <3> QED
      BY <3>1 DEF KnowsItems
  <2>6. Certified(Plain, Rest, c)'
    BY <2>1, <2>2
  <2> QED
    BY <1>6, <2>2, <2>3, <2>4, <2>5, <2>6 DEF Knows
<1>17. Shape(K, o, c)'
  BY <1>7, <1>9, <1>10, <1>12, <1>13, <1>14, <1>15, <1>16 DEF Shape
<1>18. CollectorInRange'
  BY <1>2, <1>6 DEF CollectorInRange, ScanPasses
<1>19. HeldKept' /\ ~ Marks'
  BY <1>6, NobodyWaits DEF Marks
<1>20. NoWhite(K)'
  <2>1. \A i \in Addr : heap'[i].colour # white'
    BY <1>2, <1>6 DEF SwapInv, NothingWhiteAtSwap, White
  <2> QED
    BY <1>2, <2>1 DEF NoWhite
<1>21. Sound(K, o, c, {})'
  BY <1>17, <1>18, <1>19, <1>20 DEF Sound
<1> QED
  BY <1>21

-----------------------------------------------------------------------------
(* What hangs on what.                                                     *)

LEMMA SuccessorSets ==
  ASSUME HeapOfRecords, Ranges
  PROVE  /\ DOMAIN Successions(heap) = Addr /\ DOMAIN heap = Addr
         /\ \A i \in Addr : Successions(heap)[i] = IF heap[i].type \in {"list", "node"} THEN {heap[i].a, heap[i].b} ELSE {}
<1>1. DOMAIN Successions(heap) = Addr /\ DOMAIN heap = Addr
  BY DEF Successions, HeapOfRecords
<1>2. ASSUME NEW i \in Addr
      PROVE  Range(SuccessorsIn(heap, i)) = IF heap[i].type \in {"list", "node"} THEN {heap[i].a, heap[i].b} ELSE {}
  <2>1. heap[i].type # "block"
    BY DEF Ranges
  <2>2. CASE heap[i].type = "list"
    <3>1. SuccessorsIn(heap, i) = <<heap[i].a, heap[i].b>>
      BY <2>2 DEF SuccessorsIn
    <3> QED
      BY <2>2, <3>1 DEF Range
  <2>3. CASE heap[i].type = "node"
    <3>1. SuccessorsIn(heap, i) = <<heap[i].b, heap[i].a>>
      BY <2>3 DEF SuccessorsIn
    <3> QED
      BY <2>3, <3>1 DEF Range
  <2>4. CASE heap[i].type \notin {"list", "node"}
    <3>1. SuccessorsIn(heap, i) = <<>>
      BY <2>1, <2>4 DEF SuccessorsIn
    <3> QED
      BY <2>4, <3>1 DEF Range
  <2> QED
    BY <2>2, <2>3, <2>4
<1> QED
  BY <1>1, <1>2 DEF Successions

LEMMA ReachFacts ==
  ASSUME HeapOfRecords, Ranges, NEW from \in SUBSET OrNull(Addr)
  PROVE  /\ Reach(from) \subseteq Addr /\ from \ {NULL} \subseteq Reach(from) /\ AllClosed(heap, Reach(from))
         /\ \A T \in SUBSET Addr : from \ {NULL} \subseteq T /\ AllClosed(heap, T) => Reach(from) \subseteq T
<1>1. /\ DOMAIN Successions(heap) = Addr /\ DOMAIN heap = Addr
      /\ \A i \in Addr : Successions(heap)[i] = IF heap[i].type \in {"list", "node"} THEN {heap[i].a, heap[i].b} ELSE {}
  BY SuccessorSets
<1>2. \A T \in SUBSET Addr : Closed(Successions(heap), T) <=> AllClosed(heap, T)
  BY <1>1 DEF Closed, AllClosed, OrNull
<1>3. NoDangling(Successions(heap))
  <2>1. AllClosed(heap, Addr) /\ NULL \notin Addr
    BY HeapClosed
  <2> QED
    BY <1>1, <1>2, <2>1 DEF NoDangling
<1>4. IsFiniteSet(DOMAIN heap)
  BY <1>1, HeapAssumption, FS_Interval DEF Addr
<1>5. from \in SUBSET (DOMAIN heap \cup {NULL})
  BY <1>1 DEF OrNull
<1>6. /\ Reach(from) \subseteq Addr /\ from \ {NULL} \subseteq Reach(from) /\ Closed(Successions(heap), Reach(from))
      /\ \A T \in SUBSET Addr : from \ {NULL} \subseteq T /\ Closed(Successions(heap), T) => Reach(from) \subseteq T
  BY <1>1, <1>3, <1>4, <1>5, ReachIsLeast DEF Reach
<1> QED
  BY <1>2, <1>6

(* While the second word of an emptied list waits to be written, the       *)
(* operation still uses the list.                                          *)
Queued == mpc = "unlink_last" => \E T : todo \in Seq(T)

LEMMA UsedHere ==
  ASSUME NEW T, NEW ops \in Seq(T), ops # <<>>
  PROVE  StillUsed(ops) \subseteq Uses(Head(ops)) \cup StillUsed(Tail(ops))
<1>1. /\ Len(Tail(ops)) = Len(ops) - 1 /\ Len(ops) \in Nat /\ Len(ops) > 0
      /\ \A j \in 1 .. Len(ops) - 1 : Tail(ops)[j] = ops[j + 1]
      /\ Head(ops) = ops[1] /\ DOMAIN ops = 1 .. Len(ops) /\ DOMAIN Tail(ops) = 1 .. Len(ops) - 1
  OBVIOUS
<1> DEFINE t == Tail(ops)
           n == Len(ops)
<1>2. SUFFICES ASSUME NEW k \in 1 .. n, k # 1, NEW x \in Uses(ops[k]),
                      \A j \in 1 .. k - 1 : ops[j].x # x \/ x \in Uses(ops[j])
               PROVE  x \in StillUsed(t)
  BY <1>1 DEF StillUsed
<1>3. k - 1 \in 1 .. n - 1 /\ t[k - 1] = ops[k]
  BY <1>1, <1>2
<1>4. ASSUME NEW j \in 1 .. (k - 1) - 1 PROVE t[j].x # x \/ x \in Uses(t[j])
  <2>1. j + 1 \in 1 .. k - 1 /\ j \in 1 .. n - 1
    BY <1>3
  <2> QED
    BY <1>1, <1>2, <2>1
<1> HIDE DEF t
<1>5. k - 1 \in DOMAIN t
  BY <1>1, <1>3 DEF t
<1> QED
  BY <1>2, <1>3, <1>4, <1>5 DEF StillUsed

LEMMA UsedLocals ==
  ASSUME NEW K, NEW o, NEW c, Shape(K, o, c), Queued
  PROVE  \A x \in LiveLocals : \/ x \in Stacks \/ \E e \in c.loc : e[1] = x
                               \/ mpc = "unlink_last" /\ x = now.p /\ P \in Lists(K)
<1>1. StillUsed(Rest) \subseteq Names(c) \cup Stacks
  BY StillUsedKnown DEF Shape, Knows
<1>2. StillUsed(todo) \subseteq Names(c) \cup Stacks \cup (IF mpc = "unlink_last" THEN {now.p} ELSE {})
  <2>1. CASE mpc # "unlink_last"
    BY <1>1, <2>1 DEF Rest
  <2>2. CASE mpc = "unlink_last"
    <3>1. PICK T : todo \in Seq(T)
      BY <2>2 DEF Queued
    <3>2. todo # <<>> /\ now.op \in {"pop_to_register", "pop_front"}
      BY <2>2 DEF Shape, Control
    <3>3. StillUsed(todo) \subseteq Uses(now) \cup StillUsed(Tail(todo))
      BY <3>1, <3>2, UsedHere DEF now
    <3>4. Uses(now) = {now.p}
      BY <3>2 DEF Uses
    <3> QED
      BY <1>1, <2>2, <3>3, <3>4 DEF Rest
  <2> QED
    BY <2>1, <2>2
<1>3. mpc = "unlink_last" => P \in Lists(K)
  BY DEF Shape, Halfway
<1> QED
  BY <1>2, <1>3 DEF LiveLocals, Names, Stacks

LEMMA RootsKnown ==
  ASSUME NEW K, NEW o, NEW c, Shape(K, o, c), Queued
  PROVE  Roots \in SUBSET OrNull(K)
<1> USE DEF Shape
<1>1. ASSUME NEW s \in Symbol PROVE bindings[s] \in OrNull(K)
  BY DEF Roots0, Values, OrNull
<1>2. Range(registers) \subseteq K
  <2>1. registers \in Seq(K)
    BY DEF Roots0
  <2> QED
    BY <2>1 DEF Range
<1>3. node \in OrNull(K)
  BY DEF InHand, Nodes, OrNull
<1>4. ASSUME NEW x \in LiveLocals PROVE loc[x] \in OrNull(K)
  <2>1. CASE x \in Stacks
    BY <2>1 DEF Stacks, Roots0, Lists, OrNull
  <2>2. CASE \E e \in c.loc : e[1] = x
    BY <2>2 DEF Knows, KnowsLocals, Values, OrNull
  <2>3. CASE mpc = "unlink_last" /\ x = now.p /\ P \in Lists(K)
    BY <2>3 DEF P, Lists, OrNull
  <2> QED
    BY <2>1, <2>2, <2>3, UsedLocals
<1> QED
  BY <1>1, <1>2, <1>3, <1>4 DEF Roots, OrNull

(* The program gets at known chunks only. *)
LEMMA LiveKnown ==
  ASSUME NEW K, NEW o, NEW c, Shape(K, o, c), CollectorInRange, Queued
  PROVE  Live \subseteq K /\ LiveNotFree /\ RegistersKept
<1>1. Roots \in SUBSET OrNull(K) /\ K \subseteq Addr /\ NULL \notin Addr
  <2>1. Roots \in SUBSET OrNull(K)
    BY RootsKnown
  <2>2. NULL \notin Addr
    BY DEF Addr, NULL
  <2> QED
    BY <2>1, <2>2 DEF Shape, Words
<1>2. AllClosed(heap, K)
  <2>1. {} \in SUBSET K
    OBVIOUS
  <2> QED
    BY <2>1, Known
<1>3. Live \subseteq K
  <2>1. Roots \in SUBSET OrNull(Addr) /\ Roots \ {NULL} \subseteq K /\ K \in SUBSET Addr
    BY <1>1 DEF OrNull
  <2>2. HeapOfRecords /\ Ranges
    BY DEF Shape, SwapInv
  <2> QED
    BY <1>2, <2>1, <2>2, ReachFacts DEF Live
<1>4. \A i \in K : heap[i].type # "free"
  BY DEF Shape, Words
<1>5. Range(registers) \subseteq K
  <2>1. registers \in Seq(K)
    BY DEF Shape, Roots0
  <2> QED
    BY <2>1 DEF Range
<1> QED
  BY <1>3, <1>4, <1>5 DEF LiveNotFree, RegistersKept

(* While the heap is set up, all there is is a stack. *)
LEMMA LiveBoots ==
  ASSUME NEW b, Booting(b), HeapOfRecords
  PROVE  LiveNotFree /\ RegistersKept /\ WhiteProtected
<1> DEFINE B == 0 .. b - 1
<1>1. B \in SUBSET Addr /\ NULL \notin Addr /\ Ranges
  BY HeapAssumption DEF Booting, Addr, NULL
<1>2. Range(registers) = {}
  <2>1. registers = <<>>
    BY DEF Booting
  <2> QED
    BY <2>1 DEF Range
<1>3. \A x \in LiveLocals : loc[x] \in OrNull(B)
  <2>1. DOMAIN loc = {"cs", "ds"} /\ b \in {0, 1}
    BY DEF Booting
  <2>2. LiveLocals \subseteq {"cs", "ds"}
    BY <2>1 DEF LiveLocals
  <2>3. \A x \in {"cs", "ds"} : loc[x] = (IF x = "cs" /\ b = 1 THEN 0 ELSE NULL)
    BY DEF Booting
  <2> QED
    BY <2>1, <2>2, <2>3 DEF OrNull
<1>4. Roots \in SUBSET OrNull(B)
  <2>1. \A s \in Symbol : bindings[s] = NULL
    BY DEF Booting
  <2>2. node = NULL
    BY DEF Booting
  <2> QED
    BY <1>2, <1>3, <2>1, <2>2 DEF Roots, OrNull
<1>5. AllClosed(heap, B)
  BY DEF AllClosed, Booting, Stack, OrNull
<1>6. Live \subseteq B
  <2>1. Roots \in SUBSET OrNull(Addr) /\ Roots \ {NULL} \subseteq B
    BY <1>1, <1>4 DEF OrNull
  <2> HIDE DEF B
  <2>2. \A T \in SUBSET Addr : Roots \ {NULL} \subseteq T /\ AllClosed(heap, T) => Reach(Roots) \subseteq T
    BY <1>1, <2>1, ReachFacts
  <2> QED
    BY <1>1, <1>5, <2>1, <2>2 DEF Live
<1>7. \A i \in B : heap[i].type # "free"
  BY DEF Booting, Stack
<1>8. cpc = "await"
  BY DEF Booting
<1> QED
  BY <1>2, <1>6, <1>7, <1>8 DEF LiveNotFree, RegistersKept, WhiteProtected

(* What comes after the first m of a sequence *)
LEMMA RangeAfter ==
  ASSUME NEW T, NEW s \in Seq(T), NEW m \in Nat
  PROVE  Range(SubSeq(s, m + 1, Len(s))) = {s[j] : j \in m + 1 .. Len(s)}
<1> DEFINE u == SubSeq(s, m + 1, Len(s))
<1>1. Len(s) \in Nat
  OBVIOUS
<1>2. CASE m >= Len(s)
  <2>1. u = <<>> /\ m + 1 .. Len(s) = {}
    BY <1>1, <1>2
  <2> QED
    BY <2>1 DEF Range
<1>3. CASE m < Len(s)
  <2>1. u \in Seq(T) /\ Len(u) = Len(s) - m /\ \A k \in 1 .. Len(s) - m : u[k] = s[k + m]
    <3>1. \A k \in 1 .. Len(s) - m : k + m \in 1 .. Len(s) /\ (m + 1) + k - 1 = k + m
      BY <1>1
    <3>2. u = [k \in 1 .. Len(s) - m |-> s[(m + 1) + k - 1]] /\ Len(s) - (m + 1) + 1 = Len(s) - m
      BY <1>1, <1>3
    <3>3. u \in Seq(T)
      BY <1>1, <1>3
    <3> HIDE DEF u
    <3>4. Len(s) - m \in Nat
      BY <1>1, <1>3
    <3>5. Len(u) = Len(s) - m
      BY <3>2, <3>4
    <3>6. ASSUME NEW k \in 1 .. Len(s) - m PROVE u[k] = s[k + m]
      <4>1. u[k] = s[(m + 1) + k - 1]
        BY <3>2
      <4> QED
        BY <3>1, <4>1
    <3> QED
      BY <3>3, <3>5, <3>6
  <2> HIDE DEF u
  <2>2. DOMAIN u = 1 .. Len(s) - m
    BY <2>1
  <2>3. ASSUME NEW j \in m + 1 .. Len(s) PROVE s[j] \in Range(u)
    <3>1. j - m \in 1 .. Len(s) - m /\ (j - m) + m = j
      BY <1>1
    <3>2. s[j] = u[j - m]
      BY <2>1, <3>1
    <3> QED
      BY <2>2, <3>1, <3>2 DEF Range
  <2>4. ASSUME NEW k \in 1 .. Len(s) - m PROVE u[k] \in {s[j] : j \in m + 1 .. Len(s)}
    <3>1. k + m \in m + 1 .. Len(s)
      BY <1>1
    <3> QED
      BY <2>1, <3>1
  <2> QED
    BY <2>2, <2>3, <2>4 DEF Range, u
<1> QED
  BY <1>1, <1>2, <1>3

LEMMA RootsToMark ==
  ASSUME NEW K, Words(K), Roots0(K), CollectorInRange
  PROVE  cpc = "root" => Range(SubSeq(RootChunks, scan + 1, Len(RootChunks))) \ {NULL} = Pending
<1> PICK r : r = RootChunks
  OBVIOUS
<1>1. Len(r) \in Nat /\ \A j \in 1 .. Len(r) : r[j] \in OrNull(K)
  BY RootList DEF Values, Lists, OrNull
<1>2. r \in Seq(OrNull(K))
  <2>1. RootChunks \in Seq({bindings[k - 1] : k \in 1 .. Cardinality(Symbol)} \cup {loc.ds, loc.cs})
    <3> DEFINE n == Cardinality(Symbol)
               A == {bindings[k - 1] : k \in 1 .. n} \cup {loc.ds, loc.cs}
               v == [k \in 1 .. n |-> bindings[k - 1]]
               u == <<loc.ds, loc.cs>>
    <3>1. n \in Nat
      BY SymbolAssumption, FS_CardinalityType
    <3>2. v \in [1 .. n -> A]
      OBVIOUS
    <3> HIDE DEF n
    <3> HIDE DEF A, v
    <3>3. v \in Seq(A)
      BY <3>1, <3>2
    <3> USE DEF A, v
    <3>4. u \in Seq(A)
      OBVIOUS
    <3>5. RootChunks = u \o v
      BY DEF RootChunks, n
    <3> HIDE DEF A, v, u
    <3>6. RootChunks \in Seq(A)
      BY <3>3, <3>4, <3>5
    <3> QED
      BY <3>6 DEF A, n
  <2>2. DOMAIN r = 1 .. Len(r) /\ r = [j \in 1 .. Len(r) |-> r[j]]
    BY <2>1
  <2> QED
    BY <1>1, <2>2
<1>3. scan \in Nat
  BY DEF CollectorInRange
<1>4. Range(SubSeq(r, scan + 1, Len(r))) = {r[j] : j \in scan + 1 .. Len(r)}
  BY <1>2, <1>3, RangeAfter
<1> QED
  BY <1>4 DEF Pending

(* All that is to come hangs on what darkening still visits, or is done.   *)
LEMMA ComingDark ==
  ASSUME NEW K, NEW o, NEW c, NEW S \in SUBSET K, Shape(K, o, c), CollectorInRange, Tri(K, S, c)
  PROVE  /\ Coming(S) \subseteq S \cup Reach(Darkening) /\ Marked(S) \cup Pending \subseteq S \cup Reach(Darkening)
         /\ node \in OrNull(S \cup Reach(Darkening))
         /\ AllClosed(heap, S \cup Reach(Darkening)) /\ S \cup Reach(Darkening) \subseteq Addr
<1> USE DEF Shape
<1> DEFINE R == Reach(Darkening)
           T == S \cup R
<1>1. K \subseteq Addr /\ NULL \notin Addr /\ Marked(S) \subseteq K /\ Pending \subseteq K
  BY Known
<1>2. cpc = "root" => Range(SubSeq(RootChunks, scan + 1, Len(RootChunks))) \ {NULL} = Pending
  BY RootsToMark
<1>3. Range(hook.darken) \subseteq K
  <2>1. CASE Hooking
    <3>1. hook.darken \in Seq(K)
      BY <2>1 DEF InHand, Hooks
    <3> QED
      BY <3>1 DEF Range
  <2>2. CASE ~ Hooking
    <3>1. hook.darken = <<>>
      BY <2>2 DEF InHand, NoHook
    <3> QED
      BY <3>1 DEF Range
  <2> QED
    BY <2>1, <2>2
<1>4. node \in OrNull(K)
  BY DEF InHand, Nodes, OrNull
<1>5. Darkening \in SUBSET OrNull(Addr)
  <2>1. (IF cpc \in {"grey_first", "grey_second"} THEN {scan} ELSE {}) \subseteq K
    BY DEF InHand, Greys
  <2>2. (IF cpc = "root" THEN Range(SubSeq(RootChunks, scan + 1, Len(RootChunks))) ELSE {}) \subseteq OrNull(K)
    BY <1>1, <1>2 DEF OrNull
  <2> QED
    BY <1>1, <1>3, <1>4, <2>1, <2>2 DEF Darkening, OrNull
<1>6. R \subseteq Addr /\ Darkening \ {NULL} \subseteq R /\ AllClosed(heap, R)
  BY <1>5, ReachFacts DEF SwapInv
<1> HIDE DEF R
<1>7. Grey \cup Range(hook.darken) \cup {node} \cup (IF Greys THEN {scan} ELSE {}) \subseteq OrNull(R)
  BY <1>6 DEF Darkening, Grey, Greys, OrNull
<1>8. Marked(S) \subseteq T
  BY <1>1, <1>7 DEF Marked, OrNull
<1>9. Pending \subseteq T
  <2>1. CASE cpc = "root"
    BY <1>1, <1>2, <1>6, <2>1 DEF Darkening
  <2>2. CASE cpc # "root"
    BY <2>2 DEF Pending
  <2> QED
    BY <2>1, <2>2
<1>10. ASSUME NEW i \in S
       PROVE  (FirstDone(S, i) \/ Weak(S, i)) /\ SecondDone(S, i)
  BY DEF Tri, Done
<1>11. T \in SUBSET Addr
  BY <1>1, <1>6
<1>12. Along(S) \subseteq T
  <2>1. ASSUME NEW i \in T, heap[i].type = "node", i # node PROVE heap[i].b \in OrNull(T)
    <3>1. CASE i \in R
      BY <1>6, <2>1, <3>1 DEF AllClosed, OrNull
    <3>2. CASE i \in S
      BY <1>8, <1>10, <2>1, <3>2 DEF FirstDone, Weak, OrNull
    <3> QED
      BY <2>1, <3>1, <3>2
  <2>2. NextClosed(heap, node, T)
    BY <2>1 DEF NextClosed
  <2> HIDE DEF T
  <2> QED
    BY <1>8, <1>11, <2>2, Hulls
<1>13. AllClosed(heap, T)
  <2>1. ASSUME NEW i \in T, heap[i].type \in {"list", "node"}
        PROVE  heap[i].a \in OrNull(T) /\ heap[i].b \in OrNull(T)
    <3>1. CASE i \in R
      BY <1>6, <2>1, <3>1 DEF AllClosed, OrNull
    <3>2. CASE i \in S /\ FirstDone(S, i)
      BY <1>8, <1>10, <1>12, <2>1, <3>2 DEF FirstDone, SecondDone, OrNull
    <3>3. CASE i \in S /\ Weak(S, i)
      <4>1. i = node /\ i \in R
        BY <1>1, <1>7, <3>3 DEF Weak, OrNull
      <4> QED
        BY <3>1, <4>1
    <3> QED
      BY <1>10, <2>1, <3>1, <3>2, <3>3
  <2> QED
    BY <2>1 DEF AllClosed
<1>14. Coming(S) \subseteq T
  <2> HIDE DEF T
  <2> QED
    BY <1>8, <1>9, <1>11, <1>13, Hulls
<1> QED
  BY <1>7, <1>8, <1>9, <1>11, <1>13, <1>14 DEF R, OrNull

LEMMA RootsDark ==
  ASSUME NEW K, NEW o, NEW c, NEW S \in SUBSET K, Shape(K, o, c), CollectorInRange, Tri(K, S, c), Queued
  PROVE  Roots \subseteq OrNull(S \cup Reach(Darkening))
<1> USE DEF Shape
<1> DEFINE T == S \cup Reach(Darkening)
<1>1. Coming(S) \subseteq T /\ Marked(S) \subseteq T /\ Pending \subseteq T /\ node \in OrNull(T)
  BY ComingDark
<1> HIDE DEF T
<1>2. RootsDone(S) /\ LocalsDone(S, c) /\ PopDone(S)
  BY DEF Tri
<1>3. ASSUME NEW s \in Symbol PROVE bindings[s] \in OrNull(T)
  <2>1. CASE bindings[s] \in OrNull(Marked(S))
    BY <1>1, <2>1 DEF OrNull
  <2>2. CASE Unseen(s)
    <3>1. s + 3 \in 3 .. Len(RootChunks) /\ RootChunks[s + 3] = bindings[s]
      BY RootList
    <3>2. s + 3 \in scan + 1 .. Len(RootChunks)
      BY <2>2, <3>1 DEF Unseen, CollectorInRange
    <3>3. bindings[s] # NULL => bindings[s] \in Pending
      BY <2>2, <3>1, <3>2 DEF Unseen, Pending
    <3> QED
      BY <1>1, <3>3 DEF OrNull
  <2> QED
    BY <1>2, <2>1, <2>2 DEF RootsDone
<1>4. Range(registers) \subseteq OrNull(T)
  <2>1. registers \in Seq(K) /\ \A k \in 1 .. Len(registers) : registers[k] \in T
    BY <1>1, <1>2 DEF Roots0, RootsDone
  <2> QED
    BY <2>1 DEF Range, OrNull
<1>5. ASSUME NEW x \in LiveLocals PROVE loc[x] \in OrNull(T)
  <2>1. CASE x \in Stacks
    BY <1>1, <1>2, <2>1 DEF Stacks, RootsDone, OrNull
  <2>2. CASE \E e \in c.loc : e[1] = x
    BY <1>1, <1>2, <2>2 DEF LocalsDone, OrNull
  <2>3. CASE mpc = "unlink_last" /\ x = now.p
    BY <1>1, <1>2, <2>3 DEF PopDone, P, OrNull
  <2> QED
    BY <2>1, <2>2, <2>3, UsedLocals
<1>6. Roots \subseteq OrNull(T)
  BY <1>1, <1>3, <1>4, <1>5 DEF Roots
<1> QED
  BY <1>6 DEF T

LEMMA SoundProtects ==
  ASSUME NEW K, NEW o, NEW c, NEW S, Sound(K, o, c, S), Queued
  PROVE  LiveNotFree /\ RegistersKept /\ WhiteProtected
<1>1. Shape(K, o, c) /\ CollectorInRange
  BY DEF Sound
<1>2. Live \subseteq K /\ LiveNotFree /\ RegistersKept
  BY <1>1, LiveKnown
<1>3. CASE Marks
  <2>1. S \in SUBSET K /\ Tri(K, S, c)
    BY <1>3 DEF Sound
  <2> DEFINE T == S \cup Reach(Darkening)
  <2>2. Roots \subseteq OrNull(T) /\ Coming(S) \subseteq T /\ Marked(S) \cup Pending \subseteq T
    BY <1>1, <2>1, RootsDark, ComingDark
  <2>3. HeapOfRecords /\ Ranges /\ K \subseteq Addr /\ NULL \notin Addr
    BY <1>1 DEF Shape, SwapInv, Words, Addr, NULL
  <2>4. AllClosed(heap, T) /\ T \subseteq Addr
    BY <1>1, <2>1, ComingDark
  <2>5. Live \subseteq T
    <3> HIDE DEF T
    <3>1. Roots \in SUBSET OrNull(Addr) /\ Roots \ {NULL} \subseteq T /\ T \in SUBSET Addr
      BY <2>2, <2>4 DEF OrNull
    <3> QED
      BY <2>3, <2>4, <3>1, ReachFacts DEF Live
  <2>6. \A i \in S : heap[i].colour # white
    BY <2>1 DEF Tri, Done
  <2> QED
    BY <1>2, <1>3, <2>5, <2>6 DEF WhiteProtected, White, Marks
<1>4. CASE ~ Marks
  BY <1>2, <1>4 DEF Sound, NoWhite, WhiteProtected, White, Marks
<1> QED
  BY <1>2, <1>3, <1>4

-----------------------------------------------------------------------------
(* The whole invariant.                                                    *)

HeapIsFunction == heap = [i \in Addr |-> heap[i]]

LEMMA HeapStaysFunction ==
  ASSUME HeapIsFunction, HeapOfRecords, [Next]_vars
  PROVE  HeapIsFunction'
<1>0. DOMAIN heap = Addr /\ Addr' = Addr
  BY DEF HeapOfRecords, Addr
<1>1. ASSUME NEW x, NEW v,
             \/ heap' = Coloured(x, v) \/ heap' = [heap EXCEPT ![x].a = v] \/ heap' = [heap EXCEPT ![x].b = v]
             \/ heap' = [heap EXCEPT ![x] = v]
      PROVE  HeapIsFunction'
  <2> PICK h, g : h = heap /\ g = heap'
    OBVIOUS
  <2>1. g = [h EXCEPT ![x].colour = v] => g = [i \in Addr |-> g[i]]
    BY <1>0
  <2>2. g = [h EXCEPT ![x].a = v] => g = [i \in Addr |-> g[i]]
    BY <1>0
  <2>3. g = [h EXCEPT ![x].b = v] => g = [i \in Addr |-> g[i]]
    BY <1>0
  <2>4. g = [h EXCEPT ![x] = v] => g = [i \in Addr |-> g[i]]
    BY <1>0
  <2> QED
    BY <1>0, <1>1, <2>1, <2>2, <2>3, <2>4 DEF HeapIsFunction, Coloured
<1>2. UNCHANGED heap => HeapIsFunction'
  BY <1>0 DEF HeapIsFunction
<1>3. CASE MutatorStep
  <2>1. CASE HookDarken
    BY <1>1, <2>1 DEF HookDarken
  <2>2. CASE HookBlacken
    BY <1>1, <2>2 DEF HookBlacken
  <2>3. CASE LinkFront
    BY <1>1, <2>3 DEF LinkFront
  <2>4. CASE LinkBack
    BY <1>1, <2>4 DEF LinkBack
  <2>5. CASE LinkLast
    BY <1>1, <1>2, <2>5 DEF LinkLast
  <2>6. CASE Unlink
    BY <1>1, <1>2, <2>6 DEF Unlink
  <2>7. CASE UnlinkLast
    BY <1>1, <2>7 DEF UnlinkLast
  <2>8. CASE Allocate
    BY <1>1, <2>8 DEF Allocate
  <2>9. CASE MoveCurrent
    BY <1>1, <2>9 DEF MoveCurrent
  <2>10. CASE HookRead \/ StartPush \/ LinkHook \/ StartPop \/ RunOut \/ Resume \/ Retry \/ GiveUp
              \/ Fetch \/ Keep \/ BindSymbol \/ Exit
    BY <1>2, <2>10 DEF HookRead, StartPush, LinkHook, StartPop, RunOut, Resume, Retry, GiveUp, Fetch, Keep,
       BindSymbol, Exit
  <2> QED
    BY <1>3, <2>1, <2>2, <2>3, <2>4, <2>5, <2>6, <2>7, <2>8, <2>9, <2>10 DEF MutatorStep
<1>4. CASE CollectorStep
  <2>1. CASE Handover
    <3>1. PICK h, r : h = heap /\ r = Range(registers)
      OBVIOUS
    <3>2. PICK f : f = [i \in Addr |-> IF i \in r THEN [h[i] EXCEPT !.colour = grey] ELSE h[i]]
      OBVIOUS
    <3>3. heap' = f
      BY <2>1, <3>1, <3>2 DEF Handover, HandsOver
    <3>4. f = [i \in Addr |-> f[i]]
      BY <3>2
    <3> QED
      BY <1>0, <3>3, <3>4 DEF HeapIsFunction
  <2>2. CASE MarkRoot
    BY <1>1, <1>2, <2>2 DEF MarkRoot
  <2>3. CASE DarkenWrite
    BY <1>1, <2>3 DEF DarkenWrite
  <2>4. CASE Blacken
    BY <1>1, <2>4 DEF Blacken
  <2>5. CASE Build
    BY <1>1, <1>2, <2>5 DEF Build, Builds
  <2>6. CASE FindHere \/ FindNext \/ FindPassOver \/ DarkenFirst \/ DarkenSecond \/ BuildOver
    BY <1>2, <2>6 DEF FindHere, FindNext, FindPassOver, DarkenFirst, DarkenSecond, Darken, BuildOver
  <2> QED
    BY <1>4, <2>1, <2>2, <2>3, <2>4, <2>5, <2>6 DEF CollectorStep
<1>5. CASE Call \/ Fail \/ Return \/ UNCHANGED gcVars
  BY <1>2, <1>5 DEF Call, Fail, Return, gcVars
<1> QED
  BY <1>3, <1>4, <1>5 DEF Next, Mutator, Collector, Ended, vars

Counted ==
  /\ tries \in 0 .. MaxTries /\ flowcontrol \in BOOLEAN /\ calls \in 0 .. MaxCalls
  /\ process \in {"running", "returned", "error", "no_free_chunks"}
  /\ HeapIsFunction

HeapSound == (\E b : Booting(b)) \/ (\E K, o, c, S : Sound(K, o, c, S))

Inv == SwapInv /\ Counted /\ Listed /\ Queued /\ HeapSound

LEMMA CountedStays ==
  ASSUME Counted, HeapOfRecords, [Next]_vars
  PROVE  Counted'
<1>0. HeapIsFunction'
  BY HeapStaysFunction DEF Counted
<1> USE <1>0 DEF Counted
<1>1. CASE Call
  BY <1>1, MaxCallsAssumption DEF Call
<1>2. CASE Fail \/ Return
  BY <1>2 DEF Fail, Return, opVars
<1>3. CASE MutatorStep /\ UNCHANGED calls
  <2>1. CASE HookRead \/ HookDarken \/ HookBlacken
    BY <1>3, <2>1 DEF HookRead, HookDarken, HookBlacken, AllocatorIdle
  <2>2. CASE StartPush \/ LinkFront \/ LinkHook \/ LinkBack \/ LinkLast \/ StartPop \/ Unlink \/ UnlinkLast
    BY <1>3, <2>2 DEF StartPush, LinkFront, LinkHook, LinkBack, LinkLast, StartPop, Unlink, UnlinkLast, AllocatorIdle
  <2>3. CASE Allocate
    BY <1>3, <2>3 DEF Allocate
  <2>4. CASE RunOut \/ Resume \/ Retry \/ GiveUp
    BY <1>3, <2>4 DEF RunOut, Resume, Retry, GiveUp, MaxTries, opVars
  <2>5. CASE Fetch \/ Keep \/ BindSymbol
    BY <1>3, <2>5 DEF Fetch, Keep, BindSymbol, AllocatorIdle
  <2>6. CASE MoveCurrent
    BY <1>3, <2>6 DEF MoveCurrent, AllocatorIdle
  <2>7. CASE Exit
    BY <1>3, <2>7 DEF Exit, opVars
  <2> QED
    BY <1>3, <2>1, <2>2, <2>3, <2>4, <2>5, <2>6, <2>7 DEF MutatorStep
<1>4. CASE CollectorStep /\ UNCHANGED calls
  <2>1. UNCHANGED <<tries, flowcontrol, process>>
    BY <1>4 DEF CollectorStep, Handover, HandsOver, MarkRoot, FindHere, FindNext, FindPassOver, DarkenFirst, DarkenSecond,
       Darken, DarkenWrite, Blacken, Build, Builds, BuildOver, Marking, MutatorIdle, opVars
  <2> QED
    BY <1>4, <2>1
<1>5. CASE (Ended /\ UNCHANGED calls) \/ UNCHANGED vars
  BY <1>5 DEF Ended, gcVars, opVars, vars
<1> QED
  BY <1>1, <1>2, <1>3, <1>4, <1>5 DEF Next, Mutator, Collector

LEMMA QueuedStays ==
  ASSUME NEW K, NEW o, NEW c, Shape(K, o, c), Queued, [Next]_vars
  PROVE  Queued'
<1> SUFFICES ASSUME mpc' = "unlink_last" PROVE \E T : todo' \in Seq(T)
  BY DEF Queued
<1>1. CASE mpc = "unlink_last" /\ UNCHANGED todo
  BY <1>1 DEF Queued
<1>2. CASE Unlink
  <2>1. todo' = todo /\ (mpc = "unlink" \/ mpc = "op")
    BY <1>2 DEF Unlink, Finish, Stay, In, At
  <2>2. Certified(Plain, todo, c)
    BY <2>1 DEF Shape, Knows, Rest
  <2> QED
    BY <2>1, <2>2 DEF Certified
<1>3. CASE MutatorStep /\ ~ Unlink
  <2>0. HookReturns
    BY DEF Shape, SwapInv
  <2>1. ~ HookRead /\ ~ HookDarken /\ ~ HookBlacken
    <3>1. ASSUME HookRead \/ HookDarken \/ HookBlacken PROVE FALSE
      <4>1. mpc' \in {"hook", hook.then, "darken"}
        BY <2>0, <3>1, GoesOn DEF HookRead, HookDarken, HookBlacken, Stay
      <4> QED
        BY <2>0, <4>1 DEF HookReturns
    <3> QED
      BY <3>1
  <2>2. ~ StartPush /\ ~ LinkHook /\ ~ StartPop
    BY DEF StartPush, LinkHook, StartPop, PushHook, PopHook, Hook, Goes, Stay
  <2>3. ~ LinkFront /\ ~ LinkBack /\ ~ LinkLast /\ ~ UnlinkLast
    BY DEF LinkFront, LinkBack, LinkLast, UnlinkLast, Stay, Finish
  <2>4. ~ Allocate /\ ~ RunOut /\ ~ Resume /\ ~ Retry
    BY DEF Allocate, RunOut, Resume, Retry, Stay, Finish
  <2>5. ~ Fetch /\ ~ Keep /\ ~ BindSymbol /\ ~ MoveCurrent
    BY DEF Fetch, Keep, BindSymbol, MoveCurrent, Finish
  <2>6. UNCHANGED <<mpc, todo>>
    BY <1>3, <2>1, <2>2, <2>3, <2>4, <2>5 DEF MutatorStep, GiveUp, Exit, opVars
  <2> QED
    BY <1>1, <2>6
<1>4. CASE CollectorStep
  <2>1. mpc' = "granted" \/ UNCHANGED <<mpc, todo>>
    BY <1>4 DEF CollectorStep, Handover, HandsOver, MarkRoot, FindHere, FindNext, FindPassOver, DarkenFirst, DarkenSecond,
       Darken, DarkenWrite, Blacken, Build, Builds, BuildOver, Marking, MutatorIdle, opVars
  <2> QED
    BY <1>1, <2>1
<1>5. CASE Call
  <2>1. todo = <<>> /\ mpc' = mpc
    BY <1>5 DEF Call, Idle
  <2> QED
    BY <2>1 DEF Shape, Control
<1>6. CASE Fail \/ Return \/ UNCHANGED gcVars
  <2>1. UNCHANGED <<mpc, todo>>
    BY <1>6 DEF Fail, Return, gcVars, opVars
  <2> QED
    BY <1>1, <2>1
<1> QED
  BY <1>2, <1>3, <1>4, <1>5, <1>6 DEF Next, Mutator, Collector, Ended, vars

(* What a step does to the free lists *)
Quiet ==
  \/ MutatorStep /\ ~ Allocate
  \/ CollectorStep /\ ~ Handover /\ ~ Build
  \/ Call \/ Fail \/ Return \/ UNCHANGED gcVars

Moved ==
  \/ Allocate /\ free_list \in Free /\ Free' = Free \ {free_list} /\ Spare' = Spare
  \/ Handover /\ Free = {} /\ Free' = Spare /\ Spare' = {}
  \/ Build /\ Free' = Free /\ \/ Spare' = Spare
                              \/ Spare' = Spare \cup {scan} /\ scan \in Addr \ (Free \cup Spare)
  \/ Quiet /\ Free' = Free /\ Spare' = Spare

LEMMA InvInitially == Init => Inv
<1> SUFFICES ASSUME Init PROVE Inv
  OBVIOUS
<1>1. SwapInv /\ Listed /\ Booting(0)
  BY SwapInitially, InitLists, InitBoots DEF Init
<1>2. Counted
  <2>1. tries = 0 /\ flowcontrol = FALSE /\ calls = 0 /\ process = "running"
    BY DEF Init, GCInit
  <2>2. 0 \in 0 .. MaxTries /\ 0 \in 0 .. MaxCalls /\ FALSE \in BOOLEAN
    BY MaxCallsAssumption DEF MaxTries
  <2>3. HeapIsFunction
    <3>1. PICK f : f = [i \in Addr |-> IF i >= 2 * Half THEN [FreeChunk(NULL) EXCEPT !.colour = 0]
                        ELSE FreeChunk(IF i \in {Half - 1, 2 * Half - 1} THEN NULL ELSE i + 1)]
      OBVIOUS
    <3>2. heap = f
      BY <3>1 DEF Init, GCInit
    <3>3. f = [i \in Addr |-> f[i]]
      BY <3>1
    <3> QED
      BY <3>2, <3>3 DEF HeapIsFunction
  <2> QED
    BY <2>1, <2>2, <2>3 DEF Counted
<1>3. Queued
  BY DEF Queued, Init, GCInit
<1> QED
  BY <1>1, <1>2, <1>3 DEF Inv, HeapSound

LEMMA BootingStep ==
  ASSUME SwapInv, SwapInv', Listed, NEW b, Booting(b), [Next]_vars
  PROVE  HeapSound' /\ Listed' /\ Queued' /\ Moved
<1>1. CASE Allocate
  <2>0. b \in {0, 1}
    BY DEF Booting
  <2>1. HeapSound'
    <3>1. CASE b = 0
      BY <1>1, <3>1, BootKeeps DEF HeapSound
    <3>2. CASE b = 1
      BY <1>1, <3>2, BootEnds DEF HeapSound
    <3> QED
      BY <2>0, <3>1, <3>2
  <2>2. /\ heap'[b] = Stack /\ \A i \in Addr \ {b} : heap'[i] = heap[i]
        /\ free_list' = heap[b].b /\ b \in Addr /\ collector_list' = collector_list /\ mpc' = mpc
    BY <1>1, BootAllocates
  <2>3. mpc = "op" /\ free_list = b /\ b # NULL
    BY <2>0 DEF Booting, NULL
  <2>4. WellLinked(heap) /\ WellLinked(heap')
    <3>1. WellLinked(heap)
      BY HeapWellLinked DEF Booting, SwapInv
    <3>2. DOMAIN heap' = Addr /\ Stack.b = NULL /\ NULL \in Pointer
      BY DEF SwapInv, HeapOfRecords, Addr, Stack, Pointer
    <3>3. ASSUME NEW i \in Addr PROVE heap'[i].b \in Pointer
      BY <2>2, <3>1, <3>2 DEF WellLinked
    <3> QED
      BY <3>1, <3>2, <3>3 DEF WellLinked
  <2>5. Listed' /\ free_list \in Free /\ Free' = Free \ {free_list} /\ Spare' = Spare
    <3>1. heap'[free_list].type # "free"
      BY <2>2, <2>3 DEF Stack
    <3> QED
      BY <2>2, <2>3, <2>4, <3>1, ListsAllocate
  <2> QED
    BY <1>1, <2>1, <2>2, <2>3, <2>5 DEF Queued, Moved
<1>2. CASE UNCHANGED vars
  <2>1. UNCHANGED <<heap, free_list, collector_list, bindings, registers, loc, mpc, hook, node, todo, cpc, chunk, scan, pass>>
    BY <1>2 DEF vars, gcVars, shared, opVars, collectorVars
  <2>2. Booting(b)'
    BY <2>1 DEF Booting, Ranges, Pointer, Addr
  <2>3. Listed' /\ Free' = Free /\ Spare' = Spare
    <3>1. WellLinked(heap)
      BY HeapWellLinked DEF Booting, SwapInv
    <3>2. FreeUntouched
      BY <2>1, <3>1 DEF FreeUntouched
    <3> QED
      BY <2>1, <3>2, ListsStay
  <2>4. mpc' = "op"
    BY <2>1 DEF Booting
  <2> QED
    BY <1>2, <2>2, <2>3, <2>4 DEF HeapSound, Queued, Moved, Quiet, vars
<1> QED
  BY <1>1, <1>2, BootsBy

LEMMA SoundSteps ==
  ASSUME SwapInv', Listed, Queued, NEW K, NEW o, NEW c, NEW S, Sound(K, o, c, S), [Next]_vars
  PROVE  HeapSound' /\ Listed' /\ Queued' /\ Moved
<1>1. Shape(K, o, c) /\ CollectorInRange
  BY DEF Sound
<1>2. WellLinked(heap) /\ FreeIsFree /\ collector_list \in Pointer
  <2>1. WellLinked(heap)
    BY <1>1, HeapWellLinked DEF Shape, SwapInv
  <2> QED
    BY <2>1, ListedFree DEF Listed, OrNull, Pointer
<1>3. Queued'
  BY <1>1, QueuedStays
<1>4. HeapOfRecords'
  BY DEF SwapInv
<1>5. ASSUME HeapSound', Ranges' => Listed' /\ Moved, \E M, q, d, T : Sound(M, q, d, T)'
      PROVE  HeapSound' /\ Listed' /\ Queued' /\ Moved
  <2>1. Ranges'
    BY <1>5 DEF Sound, Shape
  <2> QED
    BY <1>3, <1>5, <2>1
<1>6. CASE MutatorStep
  <2>1. \E M, q, d, T : Sound(M, q, d, T)'
    BY <1>2, <1>6, MutatorSound
  <2>2. Ranges' => Listed' /\ Moved
    BY <1>1, <1>4, <1>6, MutatorKeepsLists DEF Moved, Quiet
  <2> QED
    BY <1>5, <2>1, <2>2 DEF HeapSound
<1>7. CASE CollectorStep
  <2>1. \E M, q, d, T : Sound(M, q, d, T)'
    BY <1>2, <1>7, CollectorSound
  <2>2. Ranges' => Listed' /\ Moved
    <3>1. Handover => ~ Build
      BY DEF Handover, HandsOver, Build, Builds
    <3> QED
      BY <1>1, <1>4, <1>7, <3>1, CollectorKeepsLists DEF Moved, Quiet
  <2> QED
    BY <1>5, <2>1, <2>2 DEF HeapSound
<1>8. CASE Call \/ Fail \/ Return \/ UNCHANGED gcVars
  <2>1. \E M, q, d, T : Sound(M, q, d, T)'
    BY <1>8, ClientSound
  <2>2. UNCHANGED <<heap, free_list, collector_list, mpc>>
    BY <1>8 DEF Call, Fail, Return, gcVars, shared, opVars
  <2>3. Listed' /\ Free' = Free /\ Spare' = Spare
    <3>1. FreeUntouched
      BY <1>2, <2>2 DEF FreeUntouched
    <3> QED
      BY <2>2, <3>1, ListsStay
  <2> QED
    BY <1>3, <1>8, <2>1, <2>3 DEF HeapSound, Moved, Quiet
<1> QED
  BY <1>6, <1>7, <1>8 DEF Next, Mutator, Collector, Ended, vars

LEMMA InvStep == Inv /\ [Next]_vars => Inv' /\ Moved
<1> SUFFICES ASSUME Inv, [Next]_vars PROVE Inv' /\ Moved
  OBVIOUS
<1>1. SwapInv' /\ Counted'
  BY SwapStep, CountedStays DEF Inv, SwapInv
<1>2. CASE \E b : Booting(b)
  BY <1>1, <1>2, BootingStep DEF Inv
<1>3. CASE \E K, o, c, S : Sound(K, o, c, S)
  BY <1>1, <1>3, SoundSteps DEF Inv
<1> QED
  BY <1>2, <1>3 DEF Inv, HeapSound

LEMMA TypesOfSound ==
  ASSUME NEW K, NEW o, NEW c, NEW S, Sound(K, o, c, S)
  PROVE  /\ Ranges /\ bindings \in [Symbol -> Pointer] /\ registers \in Seq(Addr)
         /\ mpc \in {"op", "hook", "darken", "alloc", "await", "granted", "link", "link_hook", "last", "unlink",
                     "unlink_last"}
         /\ Range(hook.darken) \subseteq Addr /\ hook.blacken \in Pointer /\ node \in Pointer
         /\ cpc \in {"await", "root", "find", "scan", "first", "second", "grey_first", "grey_second", "blacken", "build"}
         /\ chunk \in Addr /\ scan \in Nat /\ pass \in 0 .. ScanPasses
<1>1. Ranges /\ K \subseteq Addr /\ Roots0(K) /\ InHand(K) /\ Control /\ CollectorInRange
  BY DEF Sound, Shape, Words
<1>2. bindings \in [Symbol -> Pointer]
  BY <1>1 DEF Roots0, Values, OrNull, Pointer
<1>3. registers \in Seq(Addr)
  <2>1. registers \in Seq(K)
    BY <1>1 DEF Roots0
  <2> QED
    BY <1>1, <2>1
<1>4. Range(hook.darken) \subseteq Addr /\ hook.blacken \in Pointer
  <2>1. CASE Hooking
    <3>1. hook.darken \in Seq(K) /\ hook.blacken \in OrNull(K)
      BY <1>1, <2>1 DEF InHand, Hooks
    <3>2. Range(hook.darken) \subseteq K
      BY <3>1 DEF Range
    <3> QED
      BY <1>1, <3>1, <3>2 DEF OrNull, Pointer
  <2>2. CASE ~ Hooking
    <3>1. hook.darken = <<>> /\ hook.blacken = NULL
      BY <1>1, <2>2 DEF InHand, NoHook
    <3> QED
      BY <3>1 DEF Range, Pointer
  <2> QED
    BY <2>1, <2>2
<1>5. node \in Pointer
  BY <1>1 DEF InHand, Nodes, Pointer
<1>6. CollectorInRange /\ Control
  BY <1>1
<1> QED
  BY <1>1, <1>2, <1>3, <1>4, <1>5, <1>6 DEF CollectorInRange, Control

LEMMA TypesOfBooting ==
  ASSUME NEW b, Booting(b)
  PROVE  /\ Ranges /\ bindings \in [Symbol -> Pointer] /\ registers \in Seq(Addr)
         /\ mpc \in {"op", "hook", "darken", "alloc", "await", "granted", "link", "link_hook", "last", "unlink",
                     "unlink_last"}
         /\ Range(hook.darken) \subseteq Addr /\ hook.blacken \in Pointer /\ node \in Pointer
         /\ cpc \in {"await", "root", "find", "scan", "first", "second", "grey_first", "grey_second", "blacken", "build"}
         /\ chunk \in Addr /\ scan \in Nat /\ pass \in 0 .. ScanPasses
<1>1. registers \in Seq(Addr)
  <2>1. registers = <<>>
    BY DEF Booting
  <2> QED
    BY <2>1
<1>2. Range(hook.darken) \subseteq Addr /\ hook.blacken \in Pointer
  BY DEF Booting, NoHook, Range, Pointer
<1>3. bindings \in [Symbol -> Pointer] /\ node \in Pointer
  BY DEF Booting, Pointer
<1>4. chunk \in Addr /\ scan \in Nat /\ pass \in 0 .. ScanPasses
  BY HeapAssumption DEF Booting, ScanPasses, Addr
<1> QED
  BY <1>1, <1>2, <1>3, <1>4 DEF Booting

LEMMA InvTypes == Inv => TypeOK
<1> SUFFICES ASSUME Inv PROVE TypeOK
  OBVIOUS
<1>1. /\ Ranges /\ bindings \in [Symbol -> Pointer] /\ registers \in Seq(Addr)
      /\ mpc \in {"op", "hook", "darken", "alloc", "await", "granted", "link", "link_hook", "last", "unlink",
                  "unlink_last"}
      /\ Range(hook.darken) \subseteq Addr /\ hook.blacken \in Pointer /\ node \in Pointer
      /\ cpc \in {"await", "root", "find", "scan", "first", "second", "grey_first", "grey_second", "blacken", "build"}
      /\ chunk \in Addr /\ scan \in Nat /\ pass \in 0 .. ScanPasses
  BY TypesOfSound, TypesOfBooting DEF Inv, HeapSound
<1>2. heap \in [Addr -> [type : Types, colour : 0 .. 3, a : Pointer \cup Nat, b : Pointer]]
  <2>1. \A i \in Addr : heap[i] \in [type : Types, colour : 0 .. 3, a : Pointer \cup Nat, b : Pointer]
    <3> SUFFICES ASSUME NEW i \in Addr
                 PROVE  heap[i] \in [type : Types, colour : 0 .. 3, a : Pointer \cup Nat, b : Pointer]
      OBVIOUS
    <3>1. heap[i] = Record(heap[i])
      BY DEF Inv, SwapInv, HeapOfRecords
    <3>2. heap[i].type \in Types /\ heap[i].colour \in 0 .. 3 /\ heap[i].a \in Pointer \cup Nat /\ heap[i].b \in Pointer
      BY <1>1 DEF Ranges
    <3> QED
      BY <3>1, <3>2 DEF Record
  <2>2. heap = [i \in Addr |-> heap[i]]
    BY DEF Inv, Counted, HeapIsFunction
  <2> QED
    BY <2>1, <2>2
<1>3. {black, white} = {0, 2}
  BY DEF Inv, SwapInv, Colours
<1>4. free_list \in Pointer /\ collector_list \in Pointer
  BY DEF Inv, Listed, OrNull, Pointer
<1> QED
  BY <1>1, <1>2, <1>3, <1>4 DEF TypeOK, GCTypeOK, Inv, Counted

LEMMA InvSafe == Inv => LiveNotFree /\ RegistersKept /\ WhiteProtected /\ FreeListsIntact
<1> SUFFICES ASSUME Inv PROVE LiveNotFree /\ RegistersKept /\ WhiteProtected /\ FreeListsIntact
  OBVIOUS
<1>1. LiveNotFree /\ RegistersKept /\ WhiteProtected
  <2>1. CASE \E b : Booting(b)
    BY <2>1, LiveBoots DEF Inv, SwapInv
  <2>2. CASE \E K, o, c, S : Sound(K, o, c, S)
    BY <2>2, SoundProtects DEF Inv
  <2> QED
    BY <2>1, <2>2 DEF Inv, HeapSound
<1>2. Ranges /\ HeapOfRecords
  BY TypesOfSound, TypesOfBooting DEF Inv, HeapSound, SwapInv
<1>3. FreeListsIntact
  BY <1>2, HeapWellLinked, ListedIntact DEF Inv
<1> QED
  BY <1>1, <1>3

LEMMA InvAlways == Spec => []Inv
<1>1. Inv /\ [Next]_vars => Inv'
  BY InvStep
<1> QED
  BY InvInitially, <1>1, PTL DEF Spec

(* Every variable stays in its range, whatever builtins are called: the    *)
(* words of a chunk, written by two threads, are pointers or values.       *)
THEOREM TypesKept == Spec => []TypeOK
BY InvAlways, InvTypes, PTL

(* collector_build_collector_list never reclaims a chunk that the program  *)
(* can still get at.                                                       *)
THEOREM NothingLiveIsReclaimed == Spec => []LiveNotFree
<1>1. Inv => LiveNotFree
  BY InvSafe
<1> QED
  BY InvAlways, <1>1, PTL

(* A chunk in a register is not reclaimed (collector_main).                *)
THEOREM RegistersAreKept == Spec => []RegistersKept
<1>1. Inv => RegistersKept
  BY InvSafe
<1> QED
  BY InvAlways, <1>1, PTL

(* While the collector marks, every white chunk the program can get at     *)
(* hangs on a chunk that collector_darken_successors has yet to visit, and *)
(* none is left when the collector builds its list.                        *)
THEOREM WhiteIsProtected == Spec => []WhiteProtected
<1>1. Inv => WhiteProtected
  BY InvSafe
<1> QED
  BY InvAlways, <1>1, PTL

(* free_list and collector_list share no chunk and lose none.              *)
THEOREM ListsIntact == Spec => []FreeListsIntact
<1>1. Inv => FreeListsIntact
  BY InvSafe
<1> QED
  BY InvAlways, <1>1, PTL

(* No chunk is white when the colours swap: one that was would turn black, *)
(* and its successors would go unmarked.                                   *)
THEOREM SwapFindsNothingWhite == Spec => []NothingWhiteAtSwap
<1>1. SwapInv => NothingWhiteAtSwap
  BY DEF SwapInv
<1> QED
  BY SwapInitially, SwapStep, <1>1, PTL DEF Spec

-----------------------------------------------------------------------------
(* The collector on its heap keeps the promise of FreeListService.         *)

InvReads ==
  /\ Chain(free_list) = Free /\ Chain(collector_list) = Spare
  /\ Free \subseteq Addr /\ Spare \subseteq Addr /\ Free \cap Spare = {}
  /\ free_list = NULL <=> Free = {}
  /\ mpc # "op" => todo # <<>>
  /\ hook.then \in {"op", "alloc", "last", "unlink"} /\ DOMAIN hook = {"darken", "blacken", "then"}

LEMMA InvRead == Inv => InvReads
<1> SUFFICES ASSUME Inv PROVE InvReads
  OBVIOUS
<1>1. Ranges /\ HeapOfRecords
  BY TypesOfSound, TypesOfBooting DEF Inv, HeapSound, SwapInv
<1>2. Listed /\ WellLinked(heap)
  BY <1>1, HeapWellLinked DEF Inv
<1>3. Chain(free_list) = Free /\ Chain(collector_list) = Spare /\ Free \subseteq Addr /\ Spare \subseteq Addr
  BY <1>2, ListedIntact
<1>4. free_list = NULL <=> Free = {}
  <2>1. Chained(heap) /\ DOMAIN heap = Addr
    BY <1>2, HeapLinked
  <2>2. free_list = NULL => Free = {}
    BY <2>1, FollowNothing DEF Free
  <2>3. free_list # NULL => free_list \in Free
    BY <1>2, <2>1, FollowIsLeast DEF Free, Listed, OrNull
  <2> QED
    BY <2>2, <2>3
<1>5. mpc # "op" => todo # <<>>
  BY DEF Inv, HeapSound, Booting, Sound, Shape, Control
<1>6. HookReturns
  BY DEF Inv, SwapInv
<1> QED
  BY <1>2, <1>3, <1>4, <1>5, <1>6 DEF InvReads, Listed, HookReturns

LEMMA InvReadNext == Inv' => InvReads'
BY InvRead, PTL

Asking == {"await", "granted"}

(* What the service sees of a step that leaves the lists alone *)
LEMMA QuietlyServes ==
  ASSUME InvReads, Quiet
  PROVE  \/ UNCHANGED <<demand, tries>> /\ (cpc = "await" <=> cpc' = "await")
         \/ demand = "none" /\ free_list = NULL /\ demand' = "wanted" /\ tries' = 1 /\ UNCHANGED cpc
         \/ demand = "granted" /\ free_list # NULL /\ demand' = "none" /\ tries' = 0 /\ UNCHANGED cpc
         \/ demand = "granted" /\ free_list = NULL /\ tries < MaxTries /\ demand' = "wanted" /\ tries' = tries + 1 /\ UNCHANGED cpc
         \/ demand = "granted" /\ free_list = NULL /\ tries = MaxTries /\ demand' = "ended" /\ UNCHANGED <<tries, cpc>>
         \/ demand = "none" /\ demand' = "ended" /\ UNCHANGED <<tries, cpc>>
         \/ demand # "ended" /\ cpc # "await" /\ cpc' = "await" /\ UNCHANGED <<demand, tries>>
<1>1. ASSUME MutatorStep, mpc \notin Asking, mpc' \notin Asking, AllocatorIdle
      PROVE  UNCHANGED <<demand, tries, cpc>>
  BY <1>1 DEF Asking, AllocatorIdle, collectorVars, demand
<1>2. CASE HookRead \/ HookDarken \/ HookBlacken
  <2>1. [hook EXCEPT !.darken = Tail(@)].then = hook.then /\ [hook EXCEPT !.blacken = NULL].then = hook.then
    BY DEF InvReads
  <2>2. mpc \notin Asking /\ mpc' \notin Asking
    BY <1>2, <2>1 DEF HookRead, HookDarken, HookBlacken, At, Goes, Stay, Asking, InvReads
  <2> QED
    BY <1>1, <1>2, <2>2 DEF MutatorStep, HookRead, HookDarken, HookBlacken
<1>3. CASE StartPush \/ LinkHook \/ StartPop
  <2>1. mpc \notin Asking /\ mpc' \notin Asking
    BY <1>3 DEF StartPush, LinkHook, StartPop, In, At, PushHook, PopHook, Hook, Goes, Stay, Asking
  <2> QED
    BY <1>1, <1>3, <2>1 DEF MutatorStep, StartPush, LinkHook, StartPop
<1>4. CASE LinkFront \/ LinkBack \/ LinkLast \/ Unlink \/ UnlinkLast \/ Fetch \/ Keep \/ BindSymbol \/ MoveCurrent
  <2>1. mpc \notin Asking /\ mpc' \notin Asking
    BY <1>4 DEF LinkFront, LinkBack, LinkLast, Unlink, UnlinkLast, Fetch, Keep, BindSymbol, MoveCurrent, In, At, Stay,
       Finish, Asking
  <2> QED
    BY <1>1, <1>4, <2>1 DEF MutatorStep, LinkFront, LinkBack, LinkLast, Unlink, UnlinkLast, Fetch, Keep, BindSymbol, MoveCurrent
<1>5. CASE RunOut
  BY <1>5 DEF RunOut, Allocating, In, At, Stay, collectorVars, demand
<1>6. CASE Resume
  BY <1>6 DEF Resume, At, Stay, collectorVars, demand
<1>7. CASE Retry
  BY <1>7 DEF Retry, At, Stay, collectorVars, demand
<1>8. CASE GiveUp
  BY <1>8 DEF GiveUp, At, opVars, collectorVars, demand
<1>9. CASE Exit
  BY <1>9 DEF Exit, In, At, opVars, collectorVars, demand
<1>10. CASE Call
  BY <1>10 DEF Call, collectorVars, demand
<1>11. CASE Fail \/ Return
  <2>1. mpc = "op"
    BY <1>11 DEF Fail, Return, Idle, InvReads
  <2> QED
    BY <1>11, <2>1 DEF Fail, Return, Idle, opVars, collectorVars, demand
<1>12. CASE UNCHANGED gcVars
  BY <1>12 DEF gcVars, opVars, collectorVars, demand
<1>13. CASE CollectorStep /\ ~ Handover /\ ~ Build
  <2>1. UNCHANGED <<demand, tries>> /\ demand # "ended"
    BY <1>13 DEF CollectorStep, MarkRoot, FindHere, FindNext, FindPassOver, DarkenFirst, DarkenSecond, Darken, DarkenWrite,
       Blacken, BuildOver, Marking, MutatorIdle, opVars, demand
  <2>2. cpc # "await" /\ (~ BuildOver => cpc' # "await") /\ (BuildOver => cpc' = "await")
    BY <1>13 DEF CollectorStep, MarkRoot, FindHere, FindNext, FindPassOver, DarkenFirst, DarkenSecond, Darken, DarkenWrite,
       Blacken, BuildOver
  <2> QED
    BY <2>1, <2>2
<1> QED
  BY <1>2, <1>3, <1>4, <1>5, <1>6, <1>7, <1>8, <1>9, <1>10, <1>11, <1>12, <1>13 DEF Quiet, MutatorStep

LEMMA ServiceStep ==
  ASSUME Inv, Inv', [Next]_vars
  PROVE  [Service!Next]_(Service!vars)
<1>1. InvReads /\ InvReads' /\ Moved /\ Addr' = Addr
  BY InvRead, InvReadNext, InvStep DEF Addr
<1>2. Chain(free_list) = Free /\ Chain(free_list)' = Free' /\ Chain(collector_list) = Spare /\ Chain(collector_list)' = Spare'
  BY <1>1 DEF InvReads
<1>3. CASE Allocate /\ free_list \in Free /\ Free' = Free \ {free_list} /\ Spare' = Spare
  <2>1. demand = "none" /\ UNCHANGED <<demand, tries, cpc>>
    BY <1>3 DEF Allocate, Allocating, In, At, Finish, Stay, collectorVars, demand
  <2>2. Addr \ (Free' \cup Spare') = (Addr \ (Free \cup Spare)) \cup {free_list}
    BY <1>1, <1>3 DEF InvReads
  <2>3. Service!Allocate
    BY <1>1, <1>2, <1>3, <2>1, <2>2 DEF Service!Allocate
  <2> QED
    BY <2>3 DEF Service!Next
<1>4. CASE Handover /\ Free = {} /\ Free' = Spare /\ Spare' = {}
  <2>1. demand = "wanted" /\ demand' = "granted" /\ tries' = tries /\ cpc = "await" /\ cpc' # "await"
    BY <1>4 DEF Handover, HandsOver, demand
  <2>2. Service!Grant
    BY <1>1, <1>2, <1>4, <2>1 DEF Service!Grant
  <2> QED
    BY <2>2 DEF Service!Next
<1>5. CASE Build /\ Free' = Free /\ \/ Spare' = Spare
                                    \/ Spare' = Spare \cup {scan} /\ scan \in Addr \ (Free \cup Spare)
  <2>1. UNCHANGED <<demand, tries, cpc>> /\ demand # "ended" /\ cpc # "await"
    BY <1>5 DEF Build, Builds, MutatorIdle, opVars, demand
  <2>2. CASE Spare' = Spare
    BY <1>1, <1>2, <1>5, <2>1, <2>2 DEF Service!vars
  <2>3. CASE Spare' = Spare \cup {scan} /\ scan \in Addr \ (Free \cup Spare)
    <3>1. Addr \ (Free' \cup Spare') = (Addr \ (Free \cup Spare)) \ {scan}
      BY <1>5, <2>3
    <3>2. Service!Reclaim
      BY <1>1, <1>2, <1>5, <2>1, <2>3, <3>1 DEF Service!Reclaim
    <3> QED
      BY <3>2 DEF Service!Next
  <2> QED
    BY <1>5, <2>2, <2>3
<1>6. CASE Quiet /\ Free' = Free /\ Spare' = Spare
  <2>1. Service!MaxTries = MaxTries
    BY DEF Service!MaxTries, MaxTries
  <2>2. UNCHANGED <<Chain(free_list), Chain(collector_list), Addr \ (Chain(free_list) \cup Chain(collector_list))>>
    BY <1>1, <1>2, <1>6
  <2>3. free_list = NULL <=> Chain(free_list) = {}
    BY <1>1, <1>2 DEF InvReads
  <2> QED
    BY <1>1, <1>6, <2>1, <2>2, <2>3, QuietlyServes DEF Service!Next, Service!vars, Service!Request, Service!Accept,
       Service!Retry, Service!GiveUp, Service!Return, Service!FinishCollection
<1> QED
  BY <1>1, <1>3, <1>4, <1>5, <1>6 DEF Moved

LEMMA ServiceInit == Init => Service!Init
<1> SUFFICES ASSUME Init PROVE Service!Init
  OBVIOUS
<1>1. InvReads
  BY InvInitially, InvRead
<1>2. demand = "none" /\ tries = 0 /\ cpc = "await"
  BY DEF Init, GCInit, demand
<1> QED
  BY <1>1, <1>2 DEF InvReads, Service!Init

(* The marking collector, with its colours and its links, implements the   *)
(* safety part of FreeListService: allocate_chunk hands out free chunks    *)
(* only, a handover passes on just what was reclaimed, and the process     *)
(* gives up after two empty ones.                                          *)
THEOREM CollectorServes == Spec => Service!Spec
<1>1. Inv /\ Inv' /\ [Next]_vars => [Service!Next]_(Service!vars)
  BY ServiceStep
<1> QED
  BY InvAlways, ServiceInit, <1>1, PTL DEF Spec, Service!Spec

-----------------------------------------------------------------------------
(* Garbage stays garbage.  L is a set of chunks that holds all the program *)
(* can get at and leads nowhere else; what was garbage at the last         *)
(* handover is not in it.                                                  *)

(* What an operation that assigns no local says it assigns *)
Unnamed == ""

Holding(L) ==
  /\ L \subseteq Addr /\ AllClosed(heap, L)
  /\ \A i \in L : lost[i] = 0
  /\ \A s \in Symbol : bindings[s] \in OrNull(L)
  /\ Range(registers) \subseteq L /\ node \in OrNull(L)
  /\ loc.ds \in OrNull(L) /\ loc.cs \in OrNull(L) /\ Unnamed \notin DOMAIN loc
  /\ \A x \in StillUsed(Rest) \cap DOMAIN loc : loc[x] \in OrNull(L)
  /\ mpc = "unlink_last" => P \in L
  /\ Range(hook.darken) \subseteq L /\ hook.blacken \in OrNull(L)

(* The step writes no other chunk. *)
Spares(L) == \A i \in Addr \ L : heap'[i] = heap[i]

LEMMA TodoSequence ==
  ASSUME NEW K, NEW o, NEW c, Shape(K, o, c), Queued
  PROVE  \E T : todo \in Seq(T)
<1>1. CASE mpc = "unlink_last"
  BY <1>1 DEF Queued
<1>2. CASE mpc # "unlink_last"
  BY <1>2 DEF Shape, Knows, Certified, Rest
<1> QED
  BY <1>1, <1>2

(* What the next operation works on *)
LEMMA HeldNow ==
  ASSUME NEW K, NEW o, NEW c, Shape(K, o, c), Queued, NEW L, Holding(L), todo # <<>>, mpc # "unlink_last"
  PROVE  /\ \A x \in Uses(now) \cap DOMAIN loc : loc[x] \in OrNull(L)
         /\ \A x \in StillUsed(Tail(todo)) \cap DOMAIN loc :
              now.x # x \/ x \in Uses(now) => loc[x] \in OrNull(L)
<1>1. PICK T : todo \in Seq(T)
  BY TodoSequence
<1>2. /\ Uses(now) \subseteq StillUsed(todo)
      /\ \A x \in StillUsed(Tail(todo)) : now.x # x \/ x \in Uses(now) => x \in StillUsed(todo)
  BY <1>1, UsesNow, UsedLater DEF now
<1>3. Rest = todo
  BY DEF Rest
<1> QED
  BY <1>2, <1>3 DEF Holding

(* The words of L stay in L. *)
LEMMA ClosedStays ==
  ASSUME NEW L, AllClosed(heap, L),
         \A i \in L : heap'[i].type \in {"list", "node"} =>
            /\ heap[i].type \in {"list", "node"}
            /\ heap'[i].a = heap[i].a \/ heap'[i].a \in OrNull(L)
            /\ heap'[i].b = heap[i].b \/ heap'[i].b \in OrNull(L)
  PROVE  AllClosed(heap', L)
BY DEF AllClosed

LEMMA LooksIn ==
  ASSUME NEW C \in SUBSET Addr, NEW i \in OrNull(C)
  PROVE  Looks(i) \in Seq(C)
<1>1. CASE Darkens(i)
  BY <1>1 DEF Looks, Darkens, OrNull
<1>2. CASE ~ Darkens(i)
  BY <1>2 DEF Looks
<1> QED
  BY <1>1, <1>2

LEMMA LooksAfterIn ==
  ASSUME Ranges, NEW C \in SUBSET Addr, AllClosed(heap, C), NEW i \in C
  PROVE  LooksAfter(i) \in Seq(C)
<1>1. heap[i].type # "block" /\ i \in Addr
  BY DEF Ranges
<1>2. CASE heap[i].type \in {"list", "node"}
  <2>1. PICK u, v : Successors(i) = <<u, v>> /\ ((u = heap[i].a /\ v = heap[i].b) \/ (u = heap[i].b /\ v = heap[i].a))
    BY <1>2 DEF Successors, SuccessorsIn
  <2>2. u \in OrNull(C) /\ v \in OrNull(C)
    BY <1>2, <2>1 DEF AllClosed
  <2>3. LooksAfter(i) = Looks(u) \o Looks(v)
    BY <2>1 DEF LooksAfter
  <2>4. Looks(u) \in Seq(C) /\ Looks(v) \in Seq(C)
    BY <2>2, LooksIn
  <2> QED
    BY <2>3, <2>4
<1>3. CASE heap[i].type \notin {"list", "node"}
  <2>1. LooksAfter(i) = <<>>
    BY <1>1, <1>3 DEF LooksAfter, Successors, SuccessorsIn
  <2> QED
    BY <2>1
<1> QED
  BY <1>2, <1>3

(* A hook changes colours in L at most, and goes on in L. *)
LEMMA HookHolds ==
  ASSUME NEW K, NEW o, NEW c, Shape(K, o, c), NEW L, Holding(L),
         ~ Hooking => mpc \in {"op", "link_hook"},
         NEW h \in Hooks(K), Goes(h), Range(h.darken) \subseteq L, h.blacken \in OrNull(L),
         UNCHANGED <<node, registers, bindings, loc, lost>>,
         UNCHANGED heap \/ \E x \in L, v \in 0 .. 3 : heap' = Coloured(x, v)
  PROVE  Holding(L)' /\ Spares(L)
<1>1. SwapInv /\ Ranges /\ Words(K) /\ Control
  BY DEF Shape
<1>2. /\ todo' = todo
      /\ \/ mpc' = "hook" /\ hook' = h
         \/ mpc' = h.then /\ hook' = NoHook
  BY GoesWhere
<1>3. h.then \in {"alloc", "unlink", "last"}
  BY DEF Hooks
<1>4. Rest' = Rest /\ mpc' # "unlink_last"
  BY <1>2, <1>3 DEF Rest, Hooking
<1>5. Range(hook'.darken) \subseteq L /\ hook'.blacken \in OrNull(L)
  <2>1. Range(<<>>) = {}
    BY DEF Range
  <2> QED
    BY <1>2, <2>1 DEF NoHook, OrNull
<1>6. SameWords(Addr) /\ Spares(L)
  <2>1. CASE UNCHANGED heap
    BY <2>1 DEF SameWords, Spares
  <2>2. CASE \E x \in L, v \in 0 .. 3 : heap' = Coloured(x, v)
    <3>1. PICK x \in L, v \in 0 .. 3 : heap' = Coloured(x, v)
      BY <2>2
    <3>2. SameWords(Addr)
      BY <1>1, <3>1, ColourKeeps
    <3>3. \A i \in Addr : i # x => heap'[i] = heap[i]
      BY <1>1, <3>1 DEF Coloured, SwapInv, HeapOfRecords
    <3> QED
      BY <3>1, <3>2, <3>3 DEF Spares
  <2> QED
    BY <2>1, <2>2
<1>7. AllClosed(heap', L)
  <2>1. L \subseteq Addr /\ AllClosed(heap, L)
    BY DEF Holding
  <2> QED
    BY <1>6, <2>1, ClosedStays DEF SameWords
<1>8. Addr' = Addr
  BY DEF Addr
<1> QED
  BY <1>4, <1>5, <1>6, <1>7, <1>8 DEF Holding


LEMMA HookStepsHold ==
  ASSUME NEW K, NEW o, NEW c, Shape(K, o, c), NEW L, Holding(L), HookRead \/ HookDarken \/ HookBlacken
  PROVE  Holding(L)' /\ Spares(L)
<1>1. /\ Hooking /\ hook \in Hooks(K) /\ UNCHANGED <<node, registers, bindings, loc, lost>>
      /\ mpc = "darken" => hook.darken # <<>>
  BY HookInHooks DEF HookRead, HookDarken, HookBlacken, At, Hooking, Shape, Control, AllocatorIdle
<1> DEFINE t == [hook EXCEPT !.darken = Tail(@)]
           b == [hook EXCEPT !.blacken = NULL]
<1>2. /\ hook.darken # <<>> => t \in Hooks(K) /\ t.darken = Tail(hook.darken) /\ t.blacken = hook.blacken
      /\ b \in Hooks(K) /\ b.darken = hook.darken /\ b.blacken = NULL
  BY <1>1, HookInHooks DEF Hooks, Shape
<1>3. /\ hook.darken # <<>> => Head(hook.darken) \in L /\ Range(Tail(hook.darken)) \subseteq L
      /\ Range(hook.darken) \subseteq L /\ hook.blacken \in OrNull(L) /\ NULL \in OrNull(L)
  <2>1. hook.darken \in Seq(K)
    BY <1>1 DEF Hooks
  <2>2. hook.darken # <<>> => Head(hook.darken) \in Range(hook.darken) /\ Range(Tail(hook.darken)) \subseteq Range(hook.darken)
    BY <2>1 DEF Range
  <2> QED
    BY <2>2 DEF Holding, OrNull
<1>4. Colours
  BY DEF Shape, SwapInv
<1> HIDE DEF t, b
<1>5. CASE HookRead /\ Goes(t)
  <2>1. hook.darken # <<>> /\ UNCHANGED heap
    BY <1>5 DEF HookRead
  <2> QED
    BY <1>1, <1>2, <1>3, <1>5, <2>1, HookHolds
<1>6. CASE HookRead /\ ~ Goes(t)
  <2>1. UNCHANGED <<heap, hook, todo>> /\ mpc' = "darken" /\ Rest' = Rest
    BY <1>1, <1>6 DEF HookRead, Stay, t, Rest, Hooking
  <2>2. Addr' = Addr /\ Spares(L)
    BY <2>1 DEF Addr, Spares
  <2> QED
    BY <1>1, <2>1, <2>2 DEF Holding
<1>7. CASE HookDarken
  <2>1. hook.darken # <<>> /\ heap' = Coloured(Head(hook.darken), grey) /\ Goes(t)
    BY <1>1, <1>7 DEF HookDarken, At, t
  <2>2. \E x \in L, v \in 0 .. 3 : heap' = Coloured(x, v)
    BY <1>3, <2>1 DEF grey
  <2> QED
    BY <1>1, <1>2, <1>3, <2>1, <2>2, HookHolds
<1>8. CASE HookBlacken
  <2>1. hook.blacken # NULL /\ heap' = Coloured(hook.blacken, black) /\ Goes(b)
    BY <1>1, <1>8 DEF HookBlacken, At, b, Shape, Control
  <2>2. hook.blacken \in L /\ black \in 0 .. 3
    BY <1>3, <1>4, <2>1 DEF OrNull, Colours
  <2>3. \E x \in L, v \in 0 .. 3 : heap' = Coloured(x, v)
    BY <2>1, <2>2
  <2> QED
    BY <1>1, <1>2, <1>3, <2>1, <2>3, HookHolds
<1> QED
  BY <1>5, <1>6, <1>7, <1>8

(* mutator_push_hook looks at chunks of L. *)
LEMMA PushHookIn ==
  ASSUME Ranges, NEW L \in SUBSET Addr, AllClosed(heap, L), NEW l \in L, NEW d \in L, NEW then, PushHook(l, d, then)
  PROVE  \E s \in Seq(L), e \in OrNull(L) : Goes([darken |-> s, blacken |-> e, then |-> then])
<1>1. /\ Looks(l) \in Seq(L) /\ LooksAfter(l) \in Seq(L)
      /\ Looks(d) \in Seq(L) /\ LooksAfter(d) \in Seq(L)
  BY LooksIn, LooksAfterIn DEF OrNull
<1>2. LooksAfter(d) \o Looks(l) \o LooksAfter(l) \in Seq(L)
  BY <1>1
<1>3. Looks(l) \o LooksAfter(l) \o Looks(d) \in Seq(L)
  BY <1>1
<1>4. NULL \in OrNull(L) /\ d \in OrNull(L)
  BY DEF OrNull
<1> QED
  BY <1>2, <1>3, <1>4 DEF PushHook, Hook

LEMMA StartsHold ==
  ASSUME NEW K, NEW o, NEW c, Shape(K, o, c), Queued, NEW L, Holding(L), StartPush \/ LinkHook \/ StartPop
  PROVE  Holding(L)' /\ Spares(L)
<1>0. /\ Ranges /\ L \in SUBSET Addr /\ AllClosed(heap, L) /\ Words(K) /\ K \subseteq Addr /\ NULL \notin Addr
      /\ todo # <<>> /\ mpc \in {"op", "link_hook"} /\ ~ Hooking
      /\ UNCHANGED <<heap, node, registers, bindings, loc, lost>>
  BY DEF Holding, Shape, Words, Addr, NULL, StartPush, LinkHook, StartPop, In, At, AllocatorIdle, Hooking
<1>1. \A x \in Uses(now) \cap DOMAIN loc : loc[x] \in OrNull(L)
  BY <1>0, HeldNow
<1>2. ASSUME NEW s \in Seq(L), NEW e \in OrNull(L), NEW then \in {"alloc", "unlink", "last"},
             s \in Seq(K), e \in OrNull(K), Goes([darken |-> s, blacken |-> e, then |-> then])
      PROVE  Holding(L)' /\ Spares(L)
  <2>1. PICK h : h = [darken |-> s, blacken |-> e, then |-> then]
    OBVIOUS
  <2>2. h \in Hooks(K) /\ Range(h.darken) \subseteq L /\ h.blacken \in OrNull(L) /\ Goes(h)
    BY <1>2, <2>1 DEF Hooks, Range
  <2> QED
    BY <1>0, <2>2, HookHolds
<1>3. ASSUME NEW l \in L \cap K, NEW d \in L \cap K, NEW then \in {"alloc", "unlink", "last"}, PushHook(l, d, then)
      PROVE  Holding(L)' /\ Spares(L)
  <2> DEFINE M == L \cap K
  <2>1. AllClosed(heap, M) /\ M \in SUBSET Addr
    <3>1. AllClosed(heap, K)
      BY <1>0 DEF Words, AllClosed, OrNull, Nodes, Lists, Values
    <3> QED
      BY <1>0, <3>1 DEF AllClosed, OrNull
  <2>2. PICK s \in Seq(M), e \in OrNull(M) : Goes([darken |-> s, blacken |-> e, then |-> then])
    BY <1>0, <1>3, <2>1, PushHookIn
  <2>3. s \in Seq(L) /\ s \in Seq(K) /\ e \in OrNull(L) /\ e \in OrNull(K)
    BY DEF OrNull
  <2> QED
    BY <1>2, <2>2, <2>3
<1>4. CASE StartPush
  <2>1. now.op \in Pushes /\ mpc = "op" /\ PushHook(P, X, "alloc")
    BY <1>4 DEF StartPush, In, At, Pushes
  <2>2. P \in K /\ X \in K /\ now.p \in DOMAIN loc /\ now.x \in DOMAIN loc
    BY <1>0, <2>1, PushKnown DEF Lists, Values, Shape
  <2>3. Uses(now) = {now.p, now.x}
    BY <2>1 DEF Uses, Pushes
  <2>4. P \in L /\ X \in L
    BY <1>0, <1>1, <2>2, <2>3 DEF OrNull, P, X
  <2> QED
    BY <1>3, <2>1, <2>2, <2>4
<1>5. CASE LinkHook
  <2>1. now.op \in Pushes /\ mpc = "link_hook" /\ PushHook(P, node, "last")
    BY <1>5 DEF LinkHook, At, Pushes, Shape, Control
  <2>2. P \in K /\ now.p \in DOMAIN loc /\ node \in K /\ node \in OrNull(L)
    BY <1>0, <2>1, PushKnown DEF Lists, Values, Shape, InHand, HasNode, Linking, Nodes, Holding
  <2>3. Uses(now) = {now.p, now.x}
    BY <2>1 DEF Uses, Pushes
  <2>4. P \in L /\ node \in L
    BY <1>0, <1>1, <2>2, <2>3 DEF OrNull, P
  <2> QED
    BY <1>3, <2>1, <2>2, <2>4
<1>6. CASE StartPop
  <2>1. now.op = "pop_to_register" /\ mpc = "op" /\ PopHook(P, "unlink") /\ ~ Linking
    BY <1>6 DEF StartPop, In, At, Linking, Hooking
  <2>2. /\ P \in Lists(K) /\ P \in K /\ now.p \in DOMAIN loc
        /\ (heap[P].a = NULL <=> heap[P].b = NULL) /\ (IsEmpty(P) <=> heap[P].a = NULL)
        /\ heap[P].a # NULL => heap[P].a \in Nodes(K) /\ heap[heap[P].a].a \in Values(K)
    BY <1>0, <2>1, PopFinds, PopKnown DEF Shape
  <2>3. Uses(now) = {now.p}
    BY <2>1 DEF Uses
  <2>4. P \in L
    BY <1>0, <1>1, <2>2, <2>3 DEF OrNull, P
  <2>5. CASE heap[P].a = NULL
    <3>1. Goes([darken |-> <<>>, blacken |-> NULL, then |-> "unlink"])
      BY <2>1, <2>2, <2>5 DEF PopHook, Hook
    <3>2. <<>> \in Seq(L) /\ <<>> \in Seq(K) /\ NULL \in OrNull(L) /\ NULL \in OrNull(K)
      BY DEF OrNull
    <3>3. \A s \in Seq(L) : s = <<>> /\ s \in Seq(K) /\ Goes([darken |-> s, blacken |-> NULL, then |-> "unlink"])
            => Holding(L)' /\ Spares(L)
      BY <1>2, <3>2
    <3> QED
      BY <3>1, <3>2, <3>3
  <2>6. CASE heap[P].a # NULL
    <3>1. Goes([darken |-> Looks(heap[heap[P].a].a), blacken |-> NULL, then |-> "unlink"])
      BY <2>1, <2>2, <2>6 DEF PopHook, Hook
    <3>2. heap[P].a \in L
      BY <1>0, <2>2, <2>4, <2>6 DEF AllClosed, OrNull, Lists
    <3>3. heap[heap[P].a].a \in L
      BY <1>0, <2>2, <2>6, <3>2 DEF AllClosed, OrNull, Nodes, Values
    <3>4. Looks(heap[heap[P].a].a) \in Seq(L) /\ Looks(heap[heap[P].a].a) \in Seq(K)
      BY <1>0, <2>2, <2>6, <3>3, LooksIn DEF OrNull, Values
    <3> QED
      BY <1>2, <3>1, <3>4 DEF OrNull
  <2> QED
    BY <2>5, <2>6
<1> QED
  BY <1>4, <1>5, <1>6

LEMMA OwnNamed ==
  ASSUME NEW x, OwnLocal(x)
  PROVE  x # Unnamed
BY Zenon DEF OwnLocal, Unnamed

(* An operation is over. *)
LEMMA FinishHolds ==
  ASSUME NEW K, NEW o, NEW c, Shape(K, o, c), Queued, NEW L, Holding(L), todo # <<>>, mpc # "unlink_last",
         Rest' = Tail(todo), NEW M, mpc' = "unlink_last" => P' \in M, L \subseteq M, M \subseteq Addr, AllClosed(heap', M),
         \A i \in M : lost'[i] = 0,
         \/ loc' = loc /\ (now.x \in StillUsed(Tail(todo)) \cap DOMAIN loc => now.x \in Uses(now) \cup Stacks)
         \/ OwnLocal(now.x) /\ \E v \in OrNull(M) : loc' = [y \in DOMAIN loc \cup {now.x} |-> IF y = now.x THEN v ELSE loc[y]],
         {"ds", "cs"} \subseteq DOMAIN loc,
         \A s \in Symbol : bindings'[s] \in OrNull(M), Range(registers') \subseteq M, node' \in OrNull(M), hook' = hook
  PROVE  Holding(M)'
<1>1. \A x \in StillUsed(Tail(todo)) \cap DOMAIN loc : now.x # x \/ x \in Uses(now) => loc[x] \in OrNull(L)
  BY HeldNow
<1>2. Addr' = Addr /\ OrNull(L) \subseteq OrNull(M)
  BY DEF Addr, OrNull
<1>3. Range(hook'.darken) \subseteq M /\ hook'.blacken \in OrNull(M)
  BY <1>2 DEF Holding
<1>4. /\ loc'.ds \in OrNull(M) /\ loc'.cs \in OrNull(M) /\ Unnamed \notin DOMAIN loc'
      /\ \A x \in StillUsed(Tail(todo)) \cap DOMAIN loc' : loc'[x] \in OrNull(M)
  <2>1. loc.ds \in OrNull(M) /\ loc.cs \in OrNull(M)
    BY <1>2 DEF Holding
  <2>2. CASE loc' = loc /\ (now.x \in StillUsed(Tail(todo)) \cap DOMAIN loc => now.x \in Uses(now) \cup Stacks)
    BY <1>1, <1>2, <2>1, <2>2 DEF Stacks, Holding
  <2>3. CASE OwnLocal(now.x) /\ \E v \in OrNull(M) : loc' = [y \in DOMAIN loc \cup {now.x} |-> IF y = now.x THEN v ELSE loc[y]]
    <3>1. PICK v \in OrNull(M) : loc' = [y \in DOMAIN loc \cup {now.x} |-> IF y = now.x THEN v ELSE loc[y]]
      BY <2>3
    <3>2. \A y \in DOMAIN loc \cup {now.x} : loc'[y] = IF y = now.x THEN v ELSE loc[y]
      BY <3>1
    <3>3. DOMAIN loc' = DOMAIN loc \cup {now.x}
      BY <3>1
    <3>4. now.x # Unnamed
      BY <2>3, OwnNamed
    <3>5. Unnamed \notin DOMAIN loc'
      BY <3>3, <3>4 DEF Holding
    <3> QED
      BY <1>1, <1>2, <2>1, <3>2, <3>3, <3>5
  <2> QED
    BY <2>2, <2>3
<1> QED
  BY <1>2, <1>3, <1>4 DEF Holding

(* A word of a chunk of L *)
LEMMA WriteHolds ==
  ASSUME SwapInv, NEW L, Holding(L), NEW x \in L, NEW v \in OrNull(L), heap' = WrittenA(x, v) \/ heap' = WrittenB(x, v)
  PROVE  AllClosed(heap', L) /\ Spares(L)
<1>1. L \subseteq Addr /\ AllClosed(heap, L)
  BY DEF Holding
<1>2. Spares(L)
  BY <1>1 DEF Spares, WrittenA, WrittenB, SwapInv, HeapOfRecords
<1>3. \A i \in L : /\ heap'[i].type = heap[i].type
                   /\ heap'[i].a = heap[i].a \/ heap'[i].a \in OrNull(L)
                   /\ heap'[i].b = heap[i].b \/ heap'[i].b \in OrNull(L)
  <2>1. CASE heap' = WrittenA(x, v)
    <3>1. \A i \in Addr : heap'[i].type = heap[i].type /\ heap'[i].b = heap[i].b /\ heap'[i].a = IF i = x THEN v ELSE heap[i].a
      BY <2>1, WriteA
    <3> QED
      BY <1>1, <3>1
  <2>2. CASE heap' = WrittenB(x, v)
    <3>1. \A i \in Addr : heap'[i].type = heap[i].type /\ heap'[i].a = heap[i].a /\ heap'[i].b = IF i = x THEN v ELSE heap[i].b
      BY <2>2, WriteB
    <3> QED
      BY <1>1, <3>1
  <2> QED
    BY <2>1, <2>2
<1> QED
  BY <1>1, <1>2, <1>3, ClosedStays

LEMMA LinkHolds ==
  ASSUME NEW K, NEW o, NEW c, Shape(K, o, c), Queued, NEW L, Holding(L), LinkFront \/ LinkBack \/ LinkLast
  PROVE  Holding(L)' /\ Spares(L)
<1>1. /\ now.op \in Pushes /\ todo # <<>> /\ mpc \in {"link", "last"} /\ node \in Nodes(K) /\ SwapInv /\ NULL \notin Addr
      /\ L \subseteq Addr /\ AllClosed(heap, L) /\ Addr' = Addr /\ {"ds", "cs"} \subseteq DOMAIN loc
      /\ UNCHANGED <<loc, bindings, registers, hook, lost>>
  BY DEF LinkFront, LinkBack, LinkLast, In, At, Pushes, Shape, Control, InHand, HasNode, Linking, Holding, Addr, NULL,
         AllocatorIdle, Roots0
<1>2. /\ P \in Lists(K) /\ X \in Values(K) /\ now.p \in DOMAIN loc /\ now.x \in DOMAIN loc
  BY <1>1, PushKnown DEF Shape
<1>3. \A x \in Uses(now) \cap DOMAIN loc : loc[x] \in OrNull(L)
  BY <1>1, HeldNow
<1>4. Uses(now) = {now.p, now.x}
  BY <1>1 DEF Uses, Pushes
<1>5. P \in L /\ node \in L
  <2>1. P \in K /\ node \in K /\ K \subseteq Addr
    BY <1>1, <1>2 DEF Lists, Nodes, Shape, Words
  <2> QED
    BY <1>1, <1>2, <1>3, <1>4, <2>1 DEF OrNull, P, Holding
<1>6. node \in OrNull(L) /\ NULL \in OrNull(L) /\ \A s \in Symbol : bindings[s] \in OrNull(L)
  BY <1>5 DEF OrNull, Holding
<1>7. CASE mpc = "link"
  <2>1. \E x \in L : heap' = WrittenA(x, node) \/ heap' = WrittenB(x, node)
    <3>1. heap[P].a # NULL => heap[P].b \in Nodes(K)
      <4>1. LastOf(P) = heap[P].b
        BY <1>7 DEF LastOf, Linking, Hooking
      <4> QED
        BY <1>2, <4>1 DEF Shape, Owned
    <3>2. heap[P].a # NULL => heap[P].b \in L
      <4>1. heap[P].a # NULL => heap[P].b \in Addr
        BY <3>1 DEF Nodes, Shape, Words
      <4> QED
        BY <1>1, <1>2, <1>5, <4>1 DEF AllClosed, OrNull, Lists
    <3> QED
      BY <1>5, <1>7, <3>2 DEF LinkFront, LinkBack, LinkLast, In, At, WrittenA, WrittenB
  <2>2. AllClosed(heap', L) /\ Spares(L)
    BY <1>1, <1>6, <2>1, WriteHolds
  <2>3. mpc' \in {"link_hook", "last"} /\ UNCHANGED <<todo, node>>
    BY <1>7 DEF LinkFront, LinkBack, LinkLast, At, Stay
  <2>4. Rest' = Rest /\ mpc' # "unlink_last"
    BY <1>7, <2>3 DEF Rest
  <2> QED
    BY <1>1, <2>2, <2>3, <2>4 DEF Holding
<1>8. CASE mpc = "last"
  <2>1. /\ heap' = heap \/ heap' = WrittenB(P, node)
        /\ node' = NULL /\ mpc' = "op" /\ todo' = Tail(todo)
    BY <1>8 DEF LinkFront, LinkBack, LinkLast, In, At, WrittenB, Finish
  <2>2. AllClosed(heap', L) /\ Spares(L)
    <3>1. CASE heap' = heap
      BY <1>1, <3>1 DEF Spares
    <3>2. CASE heap' = WrittenB(P, node)
      BY <1>1, <1>5, <1>6, <3>2, WriteHolds
    <3> QED
      BY <2>1, <3>1, <3>2
  <2>3. \A i \in L : lost'[i] = 0
    BY <1>1 DEF Holding
  <2>4. Range(registers') \subseteq L /\ \A s \in Symbol : bindings'[s] \in OrNull(L)
    BY <1>1, <1>6 DEF Holding
  <2>5. Rest' = Tail(todo) /\ mpc' # "unlink_last"
    BY <2>1 DEF Rest
  <2> QED
    BY <1>1, <1>4, <1>6, <1>8, <2>1, <2>2, <2>3, <2>4, <2>5, FinishHolds
<1> QED
  BY <1>1, <1>7, <1>8

LEMMA UnlinkHolds ==
  ASSUME NEW K, NEW o, NEW c, Shape(K, o, c), Queued, NEW L, Holding(L), Unlink
  PROVE  Holding(L)' /\ Spares(L)
<1>1. /\ now.op \in {"pop_to_register", "pop_front"} /\ todo # <<>> /\ mpc \in {"op", "unlink"}
      /\ P \in Lists(K) /\ P \in Addr /\ now.p \in DOMAIN loc /\ NULL \notin Addr /\ K \subseteq Addr
      /\ heap[P].a # NULL => heap[P].a \in Nodes(K) /\ heap[heap[P].a].a \in Values(K)
  BY AtUnlink
<1>2. /\ L \subseteq Addr /\ AllClosed(heap, L) /\ SwapInv /\ {"ds", "cs"} \subseteq DOMAIN loc /\ Addr' = Addr
      /\ UNCHANGED <<bindings, hook, node, lost>> /\ NULL \in OrNull(L)
      /\ \A s \in Symbol : bindings[s] \in OrNull(L)
      /\ \A i \in L : lost[i] = 0
      /\ Range(registers) \subseteq L /\ node \in OrNull(L)
  BY DEF Holding, Shape, Roots0, Addr, Unlink, AllocatorIdle, OrNull
<1>3. PICK d : Typed(Plain, now, c, d) /\ Certified(Plain, Tail(todo), d)
  BY <1>1, TypedNow DEF Shape
<1>4. /\ now.op = "pop_to_register" => TypedPop(now, c, d)
      /\ now.op = "pop_front" => TypedDrop(now, c, d)
  BY <1>3, TypedAs
<1>5. Uses(now) = {now.p}
  BY <1>1 DEF Uses
<1>6. P \in L
  <2>1. \A x \in Uses(now) \cap DOMAIN loc : loc[x] \in OrNull(L)
    BY <1>1, HeldNow
  <2>2. loc[now.p] \in OrNull(L)
    BY <1>1, <1>5, <2>1
  <2> QED
    BY <1>1, <2>2 DEF P, OrNull
<1>7. /\ now.op = "pop_to_register" => heap[P].a # NULL /\ OwnLocal(now.x) /\ now.x # now.p
      /\ now.op = "pop_front" => StillUsed(Tail(todo)) \subseteq Stacks
  <2>1. now.op = "pop_to_register" => heap[P].a # NULL
    BY <1>1, <1>4, PopNonEmpty
  <2>2. now.op = "pop_to_register" => OwnLocal(now.x) /\ now.x # now.p
    BY <1>4 DEF TypedPop, Assigns
  <2>3. now.op = "pop_front" => d.loc = {}
    BY <1>4 DEF TypedDrop
  <2>4. StillUsed(Tail(todo)) \subseteq Names(d) \cup Stacks
    BY <1>3, StillUsedKnown
  <2> QED
    BY <2>1, <2>2, <2>3, <2>4 DEF Names
<1>8. heap[P].a # NULL => /\ heap[P].a \in L /\ heap[heap[P].a].a \in L /\ heap[heap[P].a].b \in OrNull(L)
  <2>1. heap[P].type = "list"
    BY <1>1 DEF Lists
  <2>2. heap[P].a # NULL => heap[P].a \in L
    BY <1>2, <1>6, <2>1 DEF AllClosed, OrNull
  <2>3. heap[P].a # NULL => heap[heap[P].a].type = "node" /\ heap[heap[P].a].a # NULL
    BY <1>1 DEF Nodes, Values
  <2> QED
    BY <1>2, <2>2, <2>3 DEF AllClosed, OrNull
<1>9. /\ IF now.op = "pop_front" \/ heap[P].a = NULL THEN UNCHANGED <<registers, loc>>
         ELSE /\ registers' = Append(registers, heap[heap[P].a].a)
              /\ loc' = [y \in DOMAIN loc \cup {now.x} |-> IF y = now.x THEN heap[heap[P].a].a ELSE loc[y]]
      /\ \/ mpc' = "op" /\ todo' = Tail(todo) /\ (heap' = heap \/ (heap[P].a # NULL /\ heap' = WrittenA(P, heap[heap[P].a].b)))
         \/ mpc' = "unlink_last" /\ todo' = todo /\ heap[P].a # NULL /\ heap' = WrittenA(P, NULL)
  BY DEF Unlink, Finish, Stay, Assign, WrittenA
<1>10. Rest' = Tail(todo)
  BY <1>9 DEF Rest
<1>11. mpc' = "unlink_last" => P' \in L
  <2>1. mpc' = "unlink_last" => P' = loc'[now.p]
    BY <1>9 DEF P, now
  <2>2. loc'[now.p] = P
    BY <1>1, <1>7, <1>9 DEF P
  <2> QED
    BY <1>6, <2>1, <2>2
<1>12. AllClosed(heap', L) /\ Spares(L)
  <2>1. CASE heap' = heap
    BY <1>2, <2>1 DEF Spares
  <2>2. CASE heap' # heap
    <3>1. \E v \in OrNull(L) : heap' = WrittenA(P, v)
      BY <1>2, <1>8, <1>9, <2>2
    <3> QED
      BY <1>2, <1>6, <3>1, WriteHolds
  <2> QED
    BY <2>1, <2>2
<1>13. Range(registers') \subseteq L
  <2>1. registers \in Seq(K)
    BY DEF Shape, Roots0
  <2>2. CASE registers' = registers
    BY <1>2, <2>2
  <2>3. CASE registers' = Append(registers, heap[heap[P].a].a) /\ heap[P].a # NULL
    <3>1. heap[heap[P].a].a \in L
      BY <1>8, <2>3
    <3>2. Range(registers') \subseteq Range(registers) \cup {heap[heap[P].a].a}
      BY <2>1, <2>3 DEF Range
    <3> QED
      BY <1>2, <3>1, <3>2
  <2> QED
    BY <1>9, <2>2, <2>3
<1>14. \/ loc' = loc /\ (now.x \in StillUsed(Tail(todo)) \cap DOMAIN loc => now.x \in Uses(now) \cup Stacks)
       \/ OwnLocal(now.x) /\ \E v \in OrNull(L) : loc' = [y \in DOMAIN loc \cup {now.x} |-> IF y = now.x THEN v ELSE loc[y]]
  <2>1. CASE now.op = "pop_front"
    BY <1>7, <1>9, <2>1
  <2>2. CASE now.op = "pop_to_register"
    <3>1. heap[heap[P].a].a \in OrNull(L) /\ OwnLocal(now.x)
      BY <1>7, <1>8, <2>2 DEF OrNull
    <3> QED
      BY <1>7, <1>9, <2>2, <3>1
  <2> QED
    BY <1>1, <2>1, <2>2
<1>15. (\A i \in L : lost'[i] = 0) /\ (\A s \in Symbol : bindings'[s] \in OrNull(L)) /\ node' \in OrNull(L) /\ hook' = hook
  BY <1>2
<1>16. mpc # "unlink_last"
  BY <1>1
<1> QED
  BY <1>1, <1>2, <1>10, <1>11, <1>12, <1>13, <1>14, <1>15, <1>16, FinishHolds

LEMMA UnlinkLastHolds ==
  ASSUME NEW K, NEW o, NEW c, Shape(K, o, c), NEW L, Holding(L), UnlinkLast
  PROVE  Holding(L)' /\ Spares(L)
<1>1. /\ mpc = "unlink_last" /\ heap' = WrittenB(P, NULL) /\ mpc' = "op" /\ todo' = Tail(todo) /\ SwapInv
      /\ UNCHANGED <<bindings, registers, loc, hook, node, lost>> /\ NULL \in OrNull(L) /\ Addr' = Addr
  BY DEF UnlinkLast, At, WrittenB, Finish, AllocatorIdle, OrNull, Shape, Addr
<1>2. AllClosed(heap', L) /\ Spares(L)
  <2>1. P \in L
    BY <1>1 DEF Holding
  <2> QED
    BY <1>1, <2>1, WriteHolds
<1>3. Rest' = Rest /\ mpc' # "unlink_last"
  BY <1>1 DEF Rest
<1> QED
  BY <1>1, <1>2, <1>3 DEF Holding

LEMMA AllocateHolds ==
  ASSUME NEW K, NEW o, NEW c, Shape(K, o, c), Queued, NEW L, Holding(L), FreeIsFree, Allocate, lost[free_list] = 0,
         NEW M, M = L \cup {free_list}
  PROVE  Holding(M)' /\ Spares(M)
<1>1. /\ Adds1(K, free_list) /\ SameStacks
      /\ heap'[free_list] = Filled /\ UNCHANGED <<bindings, registers, hook, lost>>
      /\ now.op \in Pushes => /\ heap'[free_list].type = "node" /\ mpc' = "link" /\ todo' = todo /\ node' = free_list /\ loc' = loc
      /\ now.op = "new" => /\ mpc' = "op" /\ todo' = Tail(todo) /\ node' = NULL
                           /\ loc' = [y \in DOMAIN loc \cup {now.x} |-> IF y = now.x THEN free_list ELSE loc[y]]
                           /\ \E d : TypedNew(Plain, now, c, d)
  <2>1. PICK n : n = free_list
    OBVIOUS
  <2>2. Adds1(K, n) /\ SameStacks
         /\ heap'[n] = Filled /\ UNCHANGED <<bindings, registers, hook>>
         /\ (now.op \in Pushes => /\ heap'[n].type = "node" /\ mpc' = "link" /\ todo' = todo /\ node' = n /\ loc' = loc)
         /\ (now.op = "new" => /\ mpc' = "op" /\ todo' = Tail(todo) /\ node' = NULL
                               /\ loc' = [y \in DOMAIN loc \cup {now.x} |-> IF y = now.x THEN n ELSE loc[y]]
                               /\ \E d : TypedNew(Plain, now, c, d))
    BY <2>1, AllocateAdds
  <2>3. UNCHANGED lost
    BY DEF Allocate
  <2> QED
    BY <2>1, <2>2, <2>3
<1>2. /\ now.op \in {"new"} \cup Pushes /\ todo # <<>> /\ mpc \in {"op", "alloc", "granted"} /\ node = NULL
      /\ now.op \in Pushes => P \in Lists(K) /\ P \in K /\ X \in Values(K) /\ X \in K
  BY AtAllocation DEF Allocate
<1>3. /\ L \subseteq Addr /\ AllClosed(heap, L) /\ {"ds", "cs"} \subseteq DOMAIN loc /\ Addr' = Addr
      /\ OrNull(L) \subseteq OrNull(M) /\ NULL \in OrNull(M) /\ free_list \in OrNull(M)
      /\ \A s \in Symbol : bindings'[s] \in OrNull(M)
      /\ \A i \in L : lost[i] = 0
      /\ Range(registers') \subseteq M
  BY <1>1 DEF Holding, Shape, Roots0, Addr, OrNull
<1>4. M \subseteq Addr /\ Spares(M) /\ \A i \in M : lost'[i] = 0
  BY <1>1, <1>3 DEF Adds1, Spares
<1>5. \A x \in Uses(now) \cap DOMAIN loc : loc[x] \in OrNull(L)
  BY <1>2, HeldNow
<1>6. now.op \in Pushes => P \in L /\ X \in L
  <2>1. now.op \in Pushes => now.p \in DOMAIN loc /\ now.x \in DOMAIN loc /\ P \in K /\ X \in K
    BY <1>2, PushKnown DEF Shape
  <2>2. now.op \in Pushes => Uses(now) = {now.p, now.x}
    BY DEF Uses, Pushes
  <2>3. NULL \notin K
    BY DEF Shape, Words, Addr, NULL
  <2> QED
    BY <1>5, <2>1, <2>2, <2>3 DEF OrNull, P, X
<1>7. AllClosed(heap', M)
  <2>1. ASSUME NEW i \in M, heap'[i].type \in {"list", "node"}
        PROVE  heap'[i].a \in OrNull(M) /\ heap'[i].b \in OrNull(M)
    <3>1. CASE i # free_list
      <4>1. heap'[i] = heap[i] /\ i \in L
        BY <1>1, <1>3, <3>1 DEF Adds1
      <4> QED
        BY <1>3, <2>1, <4>1 DEF AllClosed
    <3>2. CASE i = free_list /\ now.op \in Pushes
      <4>1. heap'[i] \in {[type |-> "node", colour |-> green, a |-> X, b |-> heap[P].a],
                          [type |-> "node", colour |-> green, a |-> X, b |-> NULL]}
        BY <1>1, <3>2 DEF Filled, Pushes
      <4>2. heap[P].a \in OrNull(L)
        BY <1>2, <1>3, <1>6, <3>2 DEF AllClosed, Lists
      <4> QED
        BY <1>3, <1>6, <3>2, <4>1, <4>2 DEF OrNull
    <3>3. CASE i = free_list /\ now.op = "new"
      <4>1. heap'[i].type = now.p /\ heap'[i].b = NULL /\ (now.p = "list" => heap'[i].a = NULL) /\ now.p # "node"
        <5>1. heap'[i] = [type |-> now.p, colour |-> green, b |-> NULL, a |-> IF now.p = "list" THEN NULL ELSE now.v]
          BY <1>1, <3>3 DEF Filled
        <5>2. now.p # "node"
          BY <1>1, <3>3 DEF TypedNew
        <5> QED
          BY <5>1, <5>2
      <4> QED
        BY <1>3, <2>1, <4>1
    <3> QED
      BY <1>2, <3>1, <3>2, <3>3
  <2> QED
    BY <2>1 DEF AllClosed
<1>8. CASE now.op \in Pushes
  <2>1. Rest' = Rest /\ mpc' # "unlink_last"
    BY <1>1, <1>2, <1>8 DEF Rest
  <2> QED
    BY <1>1, <1>3, <1>4, <1>7, <1>8, <2>1 DEF Holding
<1>9. CASE now.op = "new"
  <2>1. Rest' = Tail(todo) /\ mpc' # "unlink_last" /\ mpc # "unlink_last" /\ OwnLocal(now.x)
    BY <1>1, <1>2, <1>9 DEF Rest, TypedNew
  <2>2. node' \in OrNull(M) /\ L \subseteq M /\ hook' = hook
        /\ \E v \in OrNull(M) : loc' = [y \in DOMAIN loc \cup {now.x} |-> IF y = now.x THEN v ELSE loc[y]]
    BY <1>1, <1>3, <1>9
  <2>3. Holding(M)'
    BY <1>2, <1>3, <1>4, <1>7, <2>1, <2>2, FinishHolds
  <2> QED
    BY <1>4, <2>3
<1> QED
  BY <1>2, <1>8, <1>9

LEMMA HeldInL ==
  ASSUME NEW K, NEW o, NEW c, Shape(K, o, c), Queued, NEW L, Holding(L), todo # <<>>, mpc # "unlink_last",
         now.op \in {"new"} \cup Pushes
  PROVE  Held \in Seq(L)
<1>1. CASE now.op = "new"
  <2>1. Held = <<>>
    BY <1>1, HeldKnown
  <2> QED
    BY <2>1
<1>2. CASE now.op \in Pushes
  <2>1. /\ now.p \in DOMAIN loc /\ now.x \in DOMAIN loc /\ P \in Lists(K) /\ X \in Values(K) /\ NULL \notin K
    <3>1. NULL \notin K
      BY DEF Shape, Words, Addr, NULL
    <3>2. /\ P \in Lists(K) /\ now.p \in DOMAIN loc
          /\ X \in Values(K) /\ now.x \in DOMAIN loc
      BY <1>2, PushKnown DEF Shape
    <3> QED
      BY <3>1, <3>2
  <2>2. Uses(now) = {now.p, now.x}
    BY <1>2 DEF Uses, Pushes
  <2>3. P \in OrNull(L) /\ X \in OrNull(L)
    BY <2>1, <2>2, HeldNow DEF P, X
  <2>4. P \in L /\ X \in L
    BY <2>1, <2>3 DEF OrNull, Lists, Values
  <2>5. Held = <<P, X>>
    BY <1>2, HeldKnown
  <2> QED
    BY <2>4, <2>5
<1> QED
  BY <1>1, <1>2

LEMMA AskHolds ==
  ASSUME NEW K, NEW o, NEW c, Shape(K, o, c), Queued, NEW L, Holding(L), RunOut \/ Resume \/ Retry \/ GiveUp
  PROVE  Holding(L)' /\ Spares(L)
<1>1. /\ UNCHANGED <<heap, bindings, loc, hook, node, todo, lost>>
      /\ todo # <<>> /\ mpc \in {"op", "alloc", "granted"} /\ mpc' \in {"await", "alloc", "granted"}
  BY DEF RunOut, Resume, Retry, GiveUp, At, In, Allocating, Stay, opVars, shared
<1>2. now.op \in {"new"} \cup Pushes
  <2>1. Allocating => now.op \in {"new"} \cup Pushes
    BY AtAllocation
  <2>2. mpc = "granted" => now.op \in {"new"} \cup Pushes
    BY <1>1, NextOperation DEF Control, Pushes, Shape
  <2> QED
    BY <2>1, <2>2 DEF RunOut, Resume, Retry, GiveUp, At
<1>3. registers \in Seq(L)
  <2>1. registers \in Seq(K) /\ Range(registers) \subseteq L
    BY DEF Shape, Roots0, Holding
  <2>2. \A k \in 1 .. Len(registers) : registers[k] \in L
    BY <2>1 DEF Range
  <2> QED
    BY <2>1, <2>2
<1>4. registers' \in Seq(L)
  <2>1. Held \in Seq(L) /\ Len(Held) \in {0, 2}
    BY <1>1, <1>2, HeldInL, HeldKnown
  <2>2. PICK h : h = Held
    OBVIOUS
  <2>3. registers' \in {registers \o h, SubSeq(registers, 1, Len(registers) - Len(h)), registers}
    BY <2>2 DEF RunOut, Resume, Retry, GiveUp
  <2>4. registers \o h \in Seq(L) /\ Len(h) \in Nat /\ SubSeq(registers, 1, Len(registers) - Len(h)) \in Seq(L)
    BY <1>3, <2>1, <2>2
  <2> QED
    BY <1>3, <2>3, <2>4
<1>5. Range(registers') \subseteq L
  BY <1>4 DEF Range
<1>6. Rest' = Rest /\ mpc' # "unlink_last" /\ Spares(L) /\ Addr' = Addr
  BY <1>1 DEF Rest, Spares, Addr
<1> QED
  BY <1>1, <1>5, <1>6 DEF Holding

LEMMA QuietHolds ==
  ASSUME NEW K, NEW o, NEW c, Shape(K, o, c), Queued, NEW L, Holding(L), Fetch \/ Keep \/ BindSymbol
  PROVE  Holding(L)' /\ Spares(L)
<1>1. /\ UNCHANGED <<heap, hook, node, lost>> /\ mpc = "op" /\ mpc' = "op" /\ todo # <<>> /\ todo' = Tail(todo)
      /\ now.op \in {"pop_register", "front", "dereference", "push_register", "release", "bind"}
  <2>1. /\ UNCHANGED <<heap, hook, node, lost>> /\ mpc = "op" /\ mpc' = "op" /\ todo # <<>> /\ todo' = Tail(todo)
        /\ now.op \in {"pop_register", "front", "current_data", "code", "dereference", "argument",
                       "push_register", "release", "bind"}
    BY DEF Fetch, Keep, BindSymbol, In, At, Finish, AllocatorIdle
  <2> QED
    BY <2>1, NextOperation DEF Shape, Pushes
<1>2. PICK d : Typed(Plain, now, c, d) /\ Certified(Plain, Tail(todo), d)
  BY <1>1, TypedNow DEF Shape
<1>3. /\ L \subseteq Addr /\ AllClosed(heap, L) /\ {"ds", "cs"} \subseteq DOMAIN loc /\ Addr' = Addr
      /\ \A s \in Symbol : bindings[s] \in OrNull(L)
      /\ \A i \in L : lost[i] = 0
      /\ Range(registers) \subseteq L /\ node \in OrNull(L) /\ registers \in Seq(K) /\ K \subseteq Addr /\ NULL \notin Addr
      /\ Words(K) /\ Roots0(K) /\ KnowsLocals(K, c) /\ KnowsRegisters(K, c) /\ KnowsBound(K, c) /\ KnowsItems(c)
  BY <1>1 DEF Holding, Shape, Roots0, Addr, Words, NULL, Knows, Linking, Hooking
<1>4. Rest' = Tail(todo) /\ mpc' # "unlink_last" /\ mpc # "unlink_last" /\ L \subseteq L
  BY <1>1 DEF Rest
<1>5. \A x \in Uses(now) \cap DOMAIN loc : loc[x] \in OrNull(L)
  BY <1>1, HeldNow
<1>6. registers # <<>> /\ now.op \in {"pop_register", "release"} => Last(registers) \in L /\ Range(Front(registers)) \subseteq L
  <2>1. registers # <<>> => /\ Last(registers) \in Range(registers) /\ Range(Front(registers)) \subseteq Range(registers)
    BY <1>3 DEF Last, Front, Range
  <2> QED
    BY <1>3, <2>1
<1>7. now.op \in {"pop_register", "release"} => registers # <<>>
  <2>1. now.op \in {"pop_register", "release"} => \E kind : Gives(c, d, kind)
    BY <1>2, TypedAs DEF TypedPopRegister, TypedRelease
  <2>2. \A kind : Gives(c, d, kind) => Len(c.regs) >= 1
    BY DEF Gives
  <2>3. Len(registers) >= Len(c.regs) /\ Len(c.regs) \in Nat
    <3>1. InRegisters = <<>> /\ Len(<<>>) = 0
      BY <1>1 DEF InRegisters
    <3> QED
      BY <1>3, <3>1 DEF KnowsRegisters
  <2> QED
    BY <2>1, <2>2, <2>3, <1>3
<1>8. CASE Fetch
  <2>1. /\ now.op \in {"pop_register", "front", "dereference"} /\ UNCHANGED bindings
        /\ loc' = [y \in DOMAIN loc \cup {now.x} |-> IF y = now.x THEN Fetched ELSE loc[y]]
        /\ registers' = IF now.op = "pop_register" THEN Front(registers) ELSE registers
    BY <1>1, <1>8 DEF Fetch, In, Assign
  <2>2. OwnLocal(now.x)
    BY <1>2, <2>1, TypedAs DEF TypedPopRegister, TypedFront, TypedDereference, Assigns
  <2>3. Fetched \in OrNull(L)
    <3>1. CASE now.op = "pop_register"
      BY <1>6, <1>7, <3>1 DEF Fetched, OrNull
    <3>2. CASE now.op = "front"
      <4>1. now.p = "ds" /\ c.top # <<>>
        BY <1>2, <3>2, TypedAs DEF TypedFront, Shape, Knows
      <4>2. Item1 # NULL /\ Fetched = heap[Item1].a
        BY <1>3, <3>2, <4>1 DEF KnowsItems, KnowsItem, Fetched, Item1, P
      <4>3. loc.ds \in L /\ heap[loc.ds].type = "list"
        BY <1>3 DEF Roots0, Lists, Holding, OrNull
      <4>4. Item1 \in L /\ Item1 \in Nodes(K)
        <5>1. Item1 \in L
          BY <1>3, <4>2, <4>3 DEF AllClosed, OrNull, Item1
        <5>2. Item1 \in Nodes(K)
          BY <1>3, <4>2 DEF Roots0, Words, OrNull, Item1
        <5> QED
          BY <5>1, <5>2
      <4> QED
        BY <1>3, <4>2, <4>4 DEF AllClosed, Nodes
    <3>3. CASE now.op = "dereference"
      <4>1. PICK kind : <<now.v, kind>> \in c.bound
        BY <1>2, <3>3, TypedAs DEF TypedDereference
      <4>2. now.v \in Symbol /\ Fetched = bindings[now.v]
        BY <1>3, <3>3, <4>1 DEF KnowsBound, Fetched
      <4> QED
        BY <1>3, <4>2
    <3> QED
      BY <2>1, <3>1, <3>2, <3>3
  <2>4. Range(registers') \subseteq L
    BY <1>3, <1>6, <1>7, <2>1
  <2>5. \E v \in OrNull(L) : loc' = [y \in DOMAIN loc \cup {now.x} |-> IF y = now.x THEN v ELSE loc[y]]
    BY <2>1, <2>3
  <2>6. AllClosed(heap', L) /\ Spares(L) /\ (\A i \in L : lost'[i] = 0) /\ (\A s \in Symbol : bindings'[s] \in OrNull(L))
        /\ node' \in OrNull(L) /\ hook' = hook
    BY <1>1, <1>3, <2>1 DEF Spares
  <2> QED
    BY <1>1, <1>3, <1>4, <2>2, <2>4, <2>5, <2>6, FinishHolds
<1>9. CASE Keep
  <2>1. /\ now.op \in {"push_register", "release"} /\ UNCHANGED <<loc, bindings>>
        /\ registers' = IF now.op = "release" THEN Front(registers) ELSE Append(registers, P)
    BY <1>9 DEF Keep, In, AllocatorIdle
  <2>2. now.x = Unnamed
    BY <1>2, <2>1, TypedAs DEF TypedKeep, TypedRelease, Unnamed
  <2>3. now.x \notin DOMAIN loc
    BY <2>2 DEF Holding
  <2>4. now.op = "push_register" => P \in L
    <3>1. now.op = "push_register" => Uses(now) = {now.p}
      BY DEF Uses
    <3>2. now.op = "push_register" => now.p \in DOMAIN loc /\ P \in Values(K)
      <4>1. now.op = "push_register" => \E kind : <<now.p, kind>> \in c.loc
        BY <1>2, TypedAs DEF TypedKeep, Is
      <4> QED
        BY <1>3, <4>1 DEF KnowsLocals, P
    <3> QED
      BY <1>3, <1>5, <3>1, <3>2 DEF P, OrNull, Values
  <2>5. Range(registers') \subseteq L
    <3>1. now.op = "push_register" => Range(registers') \subseteq Range(registers) \cup {P}
      BY <1>3, <2>1 DEF Range
    <3> QED
      BY <1>3, <1>6, <1>7, <2>1, <2>4, <3>1
  <2>6. AllClosed(heap', L) /\ Spares(L) /\ (\A i \in L : lost'[i] = 0) /\ (\A s \in Symbol : bindings'[s] \in OrNull(L))
        /\ node' \in OrNull(L) /\ hook' = hook
    BY <1>1, <1>3, <2>1 DEF Spares
  <2> QED
    BY <1>1, <1>3, <1>4, <2>1, <2>3, <2>5, <2>6, FinishHolds
<1>10. CASE BindSymbol
  <2>1. /\ now.op = "bind" /\ UNCHANGED <<loc, registers>> /\ bindings' = [bindings EXCEPT ![heap[P].a] = X]
    BY <1>10 DEF BindSymbol, In, AllocatorIdle
  <2>2. now.x \in Uses(now)
    BY <2>1 DEF Uses
  <2>3. X \in OrNull(L)
    <3>1. now.x \in DOMAIN loc
      <4>1. now.x \in Names(c)
        BY <1>2, <2>1, TypedAs DEF TypedBind
      <4> QED
        BY <1>3, <4>1 DEF KnowsLocals, Names
    <3> QED
      BY <1>5, <2>2, <3>1 DEF X
  <2>4. \A s \in Symbol : bindings'[s] \in OrNull(L)
    <3>1. bindings \in [Symbol -> OrNull(Values(K))]
      BY <1>3 DEF Roots0
    <3> QED
      BY <1>3, <2>1, <2>3, <3>1
  <2>5. AllClosed(heap', L) /\ Spares(L) /\ (\A i \in L : lost'[i] = 0) /\ Range(registers') \subseteq L
        /\ node' \in OrNull(L) /\ hook' = hook
    BY <1>1, <1>3, <2>1 DEF Spares
  <2> QED
    BY <1>1, <1>3, <1>4, <2>1, <2>2, <2>4, <2>5, FinishHolds
<1> QED
  BY <1>8, <1>9, <1>10

LEMMA ClientHolds ==
  ASSUME NEW K, NEW o, NEW c, Shape(K, o, c), NEW L, Holding(L), Call \/ Fail \/ Return \/ UNCHANGED gcVars
  PROVE  Holding(L)' /\ Spares(L)
<1>1. UNCHANGED <<heap, bindings, registers, node, hook, mpc, lost>> /\ Addr' = Addr /\ Spares(L)
  BY DEF Call, Fail, Return, gcVars, shared, opVars, Addr, Spares
<1>2. CASE Call
  <2>1. todo = <<>> /\ mpc # "unlink_last"
    BY <1>2 DEF Call, Idle, Shape, Control
  <2>2. /\ DOMAIN loc' = {"cs", "ds"} /\ loc'.ds = loc.ds /\ loc'.cs = loc.cs
    BY <1>2 DEF Call
  <2>3. Unnamed \notin DOMAIN loc'
    <3>1. {"cs", "ds"} \subseteq DOMAIN loc /\ Unnamed \notin DOMAIN loc
      BY DEF Shape, Roots0, Holding
    <3> QED
      BY <2>2, <3>1
  <2> QED
    BY <1>1, <2>1, <2>2, <2>3 DEF Holding
<1>3. CASE Fail \/ Return \/ UNCHANGED gcVars
  <2>1. UNCHANGED <<loc, todo>> /\ Rest' = Rest /\ P' = P
    BY <1>1, <1>3 DEF Fail, Return, gcVars, opVars, Rest, P, now
  <2> QED
    BY <1>1, <2>1 DEF Holding
<1> QED
  BY <1>2, <1>3

(* What a step of the collector writes outside a handover *)
CollectorWritten ==
  \/ UNCHANGED heap
  \/ \E x \in Addr, v \in 0 .. 3 : heap' = Coloured(x, v)
  \/ Build /\ heap[scan].colour = white /\ scan \in Addr /\ heap' = [heap EXCEPT ![scan] = FreeChunk(collector_list)]

LEMMA CollectorWriting ==
  ASSUME NEW K, NEW o, NEW c, Shape(K, o, c), CollectorInRange, CollectorStep, ~ Handover
  PROVE  CollectorWritten /\ UNCHANGED <<registers, loc, todo, mpc, hook, node, bindings, lost>>
<1>1. UNCHANGED <<registers, loc, todo, mpc, hook, node, bindings, lost>>
  BY DEF CollectorStep, MarkRoot, FindHere, FindNext, FindPassOver, DarkenFirst, DarkenSecond, Darken,
         DarkenWrite, Blacken, Build, Builds, BuildOver, Marking, MutatorIdle, opVars
<1>2. CASE MarkRoot
  <2>1. PICK r : r = RootChunks[scan + 1]
    OBVIOUS
  <2>2. r \in OrNull(K)
    <3>1. /\ Len(RootChunks) \in Nat
          /\ \A k \in 1 .. Len(RootChunks) : RootChunks[k] \in OrNull(Values(K) \cup Lists(K))
      BY RootList DEF Shape
    <3>2. scan + 1 \in 1 .. Len(RootChunks)
      BY <1>2, <3>1 DEF MarkRoot, CollectorInRange
    <3> QED
      BY <2>1, <3>1, <3>2 DEF Values, Lists, OrNull
  <2>3. heap' = IF r = NULL THEN heap ELSE Coloured(r, grey)
    BY <1>2, <2>1 DEF MarkRoot
  <2>4. r = NULL \/ r \in Addr
    BY <2>2 DEF OrNull, Shape, Words
  <2>5. CASE r = NULL
    BY <1>1, <2>3, <2>5 DEF CollectorWritten
  <2>6. CASE r \in Addr /\ r # NULL
    <3>1. grey \in 0 .. 3 /\ heap' = Coloured(r, grey)
      BY <2>3, <2>6 DEF grey
    <3> QED
      BY <1>1, <2>6, <3>1 DEF CollectorWritten
  <2> QED
    BY <2>4, <2>5, <2>6
<1>3. CASE DarkenWrite
  <2>1. scan \in Addr /\ grey \in 0 .. 3 /\ heap' = Coloured(scan, grey)
    BY <1>3 DEF DarkenWrite, Shape, InHand, Greys, Words, grey
  <2> QED
    BY <1>1, <2>1 DEF CollectorWritten
<1>4. CASE Blacken
  <2>1. chunk \in Addr /\ black \in 0 .. 3 /\ heap' = Coloured(chunk, black)
    BY <1>4 DEF Blacken, CollectorInRange, Shape, SwapInv, Colours
  <2> QED
    BY <1>1, <2>1 DEF CollectorWritten
<1>5. CASE FindHere \/ FindNext \/ FindPassOver \/ DarkenFirst \/ DarkenSecond \/ BuildOver
  BY <1>1, <1>5 DEF FindHere, FindNext, FindPassOver, DarkenFirst, DarkenSecond, Darken, BuildOver, CollectorWritten
<1>6. CASE Build
  <2>1. scan \in Addr
    BY <1>6, HeapAssumption DEF Build, Builds, CollectorInRange, Addr
  <2> QED
    BY <1>1, <1>6, <2>1 DEF Build, Builds, CollectorWritten
<1> QED
  BY <1>1, <1>2, <1>3, <1>4, <1>5, <1>6 DEF CollectorStep

LEMMA CollectorHolds ==
  ASSUME NEW K, NEW o, NEW c, Shape(K, o, c), CollectorInRange, CollectorStep, ~ Handover, NEW L, Holding(L)
  PROVE  Holding(L)'
<1>1. CollectorWritten /\ UNCHANGED <<registers, loc, todo, mpc, hook, node, bindings, lost>>
  BY CollectorWriting
<1>2. L \subseteq Addr /\ AllClosed(heap, L) /\ Addr' = Addr
  BY DEF Holding, Addr
<1>3. \A i \in L : heap'[i].type \in {"list", "node"} =>
        heap'[i].type = heap[i].type /\ heap'[i].a = heap[i].a /\ heap'[i].b = heap[i].b
  <2>1. CASE \E x \in Addr, v \in 0 .. 3 : heap' = Coloured(x, v)
    <3>1. PICK x \in Addr, v \in 0 .. 3 : heap' = Coloured(x, v)
      BY <2>1
    <3>2. SameWords(Addr)
      BY <3>1, ColourKeeps DEF Shape
    <3> QED
      BY <1>2, <3>2 DEF SameWords
  <2>2. CASE heap' = [heap EXCEPT ![scan] = FreeChunk(collector_list)]
    BY <1>2, <2>2 DEF Shape, SwapInv, HeapOfRecords, FreeChunk
  <2> QED
    BY <1>1, <2>1, <2>2 DEF CollectorWritten
<1>4. AllClosed(heap', L)
  BY <1>2, <1>3, ClosedStays
<1>5. Rest' = Rest /\ P' = P
  BY <1>1 DEF Rest, P, now
<1> QED
  BY <1>1, <1>2, <1>4, <1>5 DEF Holding

(* At a handover all that matters is what the program can get at. *)
LEMMA HandoverHolds ==
  ASSUME NEW K, NEW o, NEW c, Shape(K, o, c), CollectorInRange, Queued, NEW L, Holding(L), Handover,
         NEW V, V = Live
  PROVE  Holding(V)' /\ V \subseteq Addr /\ AllClosed(heap, V)
<1>1. Live \subseteq K /\ Roots \in SUBSET OrNull(K) /\ K \subseteq Addr
  BY LiveKnown, RootsKnown DEF Shape, Words
<1>2. Roots \ {NULL} \subseteq Live /\ AllClosed(heap, Live) /\ Live \subseteq Addr
  <2>1. Roots \in SUBSET OrNull(Addr)
    BY <1>1 DEF OrNull
  <2>2. HeapOfRecords /\ Ranges
    BY DEF Shape, SwapInv
  <2> QED
    BY <2>1, <2>2, ReachFacts DEF Live
<1>3. /\ UNCHANGED <<registers, loc, hook, node, todo, bindings>> /\ mpc = "await" /\ mpc' = "granted"
      /\ \A i \in Live : lost'[i] = 0
  <2>1. \A i \in Addr : i \in Live => lost'[i] = 0
    BY DEF Handover, HandsOver
  <2> QED
    BY <1>2, <2>1 DEF Handover, HandsOver
<1>4. V \subseteq Addr /\ AllClosed(heap, V) /\ Roots \ {NULL} \subseteq V /\ \A i \in V : lost'[i] = 0
  BY <1>2, <1>3
<1>5. AllClosed(heap', V)
  <2>1. V \subseteq K /\ SameWords(K)
    BY <1>1, HandoverKeeps
  <2>2. \A i \in V : heap'[i].type = heap[i].type /\ heap'[i].a = heap[i].a /\ heap'[i].b = heap[i].b
    BY <2>1 DEF SameWords
  <2> QED
    BY <1>4, <2>2 DEF AllClosed
<1>6. /\ \A s \in Symbol : bindings[s] \in OrNull(V)
      /\ node \in OrNull(V)
      /\ \A x \in LiveLocals : loc[x] \in OrNull(V)
  BY <1>4 DEF Roots, OrNull
<1>7. Range(registers) \subseteq V
  <2>1. \A i \in Range(registers) : i \in Roots /\ i \in K
    BY DEF Roots, Shape, Roots0, Range
  <2>2. NULL \notin K
    BY DEF Shape, Words, Addr, NULL
  <2> QED
    BY <1>4, <2>1, <2>2
<1>8. /\ loc.ds \in OrNull(V) /\ loc.cs \in OrNull(V) /\ Unnamed \notin DOMAIN loc
      /\ \A x \in StillUsed(todo) \cap DOMAIN loc : loc[x] \in OrNull(V)
  BY <1>6 DEF LiveLocals, Holding
<1>9. Range(hook.darken) = {} /\ hook.blacken = NULL
  <2>1. hook = NoHook
    BY <1>3 DEF Shape, InHand, Hooking
  <2> QED
    BY <2>1 DEF NoHook, Range
<1>10. Rest' = todo /\ Addr' = Addr
  BY <1>3 DEF Rest, Addr
<1>11. Holding(V)'
  <2>1. mpc' # "unlink_last" /\ NULL \in OrNull(V)
    BY <1>3 DEF OrNull
  <2> QED
    BY <1>3, <1>4, <1>5, <1>6, <1>7, <1>8, <1>9, <1>10, <2>1 DEF Holding
<1> QED
  BY <1>4, <1>11

LEMMA MutatorHolds ==
  ASSUME NEW K, NEW o, NEW c, Shape(K, o, c), Queued, FreeIsFree, NEW L, Holding(L), MutatorStep,
         Allocate => lost[free_list] = 0
  PROVE  \E M : Holding(M)' /\ Spares(M)
<1>1. CASE HookRead \/ HookDarken \/ HookBlacken
  BY <1>1, HookStepsHold
<1>2. CASE StartPush \/ LinkHook \/ StartPop
  BY <1>2, StartsHold
<1>3. CASE LinkFront \/ LinkBack \/ LinkLast
  BY <1>3, LinkHolds
<1>4. CASE Unlink
  BY <1>4, UnlinkHolds
<1>5. CASE UnlinkLast
  BY <1>5, UnlinkLastHolds
<1>6. CASE Allocate
  <2>1. PICK M : M = L \cup {free_list}
    OBVIOUS
  <2>2. Holding(M)' /\ Spares(M)
    BY <1>6, <2>1, AllocateHolds
  <2> QED
    BY <2>2
<1>7. CASE RunOut \/ Resume \/ Retry \/ GiveUp
  BY <1>7, AskHolds
<1>8. CASE Fetch \/ Keep \/ BindSymbol
  BY <1>8, QuietHolds
<1> QED
  BY <1>1, <1>2, <1>3, <1>4, <1>5, <1>6, <1>7, <1>8, NoBlockSteps DEF MutatorStep

LEMMA MutatorAlone ==
  ASSUME MutatorStep
  PROVE  UNCHANGED <<cpc, chunk, scan, pass, black, white, lost>>
<1>1. CASE HookRead \/ HookDarken \/ HookBlacken \/ StartPush \/ LinkFront \/ LinkHook \/ LinkBack \/ LinkLast
  BY <1>1 DEF HookRead, HookDarken, HookBlacken, StartPush, LinkFront, LinkHook, LinkBack, LinkLast, AllocatorIdle, collectorVars
<1>2. CASE StartPop \/ Unlink \/ UnlinkLast \/ Fetch \/ Keep \/ BindSymbol \/ MoveCurrent
  BY <1>2 DEF StartPop, Unlink, UnlinkLast, Fetch, Keep, BindSymbol, MoveCurrent, AllocatorIdle, collectorVars
<1>3. CASE Allocate \/ RunOut \/ Resume \/ Retry \/ GiveUp \/ Exit
  BY <1>3 DEF Allocate, RunOut, Resume, Retry, GiveUp, Exit, shared, collectorVars
<1> QED
  BY <1>1, <1>2, <1>3 DEF MutatorStep

-----------------------------------------------------------------------------
(* The colours of garbage.  The first handover that finds a chunk garbage  *)
(* may find it in any colour, and it may be marked once more.  The second  *)
(* finds it black, or green, for it hangs on nothing that is marked, and   *)
(* black turns white.  Then the collector builds its list.                 *)
Dead(i) == lost[i] >= 1 /\ heap[i].type # "free"

Fading ==
  \A i \in Addr : Dead(i) =>
    /\ lost[i] >= 2 => heap[i].colour \notin {grey, black}
    /\ lost[i] >= 3 => heap[i].colour = green
    /\ cpc \in {"await", "build"} => heap[i].colour # grey
    /\ cpc = "scan" /\ heap[i].colour = grey => pass = 1 /\ i \in Ahead

(* What hangs on a chunk has not been garbage for longer than the chunk. *)
Outlives ==
  \A p \in Addr : heap[p].type \in {"list", "node"} =>
    \A w \in {heap[p].a, heap[p].b} \ {NULL} : lost[w] <= lost[p]

(* The collector does not work on what has been garbage for longer. *)
WorksOnYoung == (InWork => lost[chunk] <= 1) /\ (Greys => lost[scan] <= 1)

Fades ==
  /\ \A i \in Addr : lost[i] \in 0 .. 3 /\ (lost[i] = 3 => heap[i].type # "free")
  /\ DOMAIN lost = Addr
  /\ Fading /\ Outlives /\ WorksOnYoung

(* Steps that write only what the program can get at *)
LEMMA SparingFades ==
  ASSUME Fades, NEW M, Holding(M)', Spares(M), UNCHANGED <<cpc, chunk, scan, pass, black, lost>>
  PROVE  Fades'
<1>1. M \subseteq Addr /\ AllClosed(heap', M) /\ (\A i \in M : lost[i] = 0) /\ \A i \in Addr \ M : heap'[i] = heap[i]
  BY DEF Holding, Spares, Addr
<1>2. \A i \in Addr : lost[i] \in 0 .. 3 /\ lost'[i] = lost[i]
  BY DEF Fades
<1>3. \A i \in Addr : lost'[i] >= 1 => heap'[i] = heap[i]
  BY <1>1, <1>2
<1>4. Ahead' = Ahead /\ Addr' = Addr
  BY DEF Ahead, Between, Addr
<1>5. Fading'
  <2>1. \A i \in Addr : Dead(i)' => Dead(i) /\ heap'[i] = heap[i]
    BY <1>2, <1>3 DEF Dead
  <2> QED
    BY <1>2, <1>4, <2>1 DEF Fades, Fading
<1>6. Outlives'
  <2>1. ASSUME NEW p \in Addr, heap'[p].type \in {"list", "node"}, NEW w \in {heap'[p].a, heap'[p].b} \ {NULL}
        PROVE  lost'[w] <= lost'[p]
    <3>1. CASE p \in M
      <4>1. w \in M
        BY <1>1, <2>1, <3>1 DEF AllClosed, OrNull
      <4> QED
        BY <1>1, <3>1, <4>1
    <3>2. CASE p \notin M
      BY <1>1, <2>1, <3>2 DEF Fades, Outlives
    <3> QED
      BY <3>1, <3>2
  <2> QED
    BY <1>4, <2>1 DEF Outlives
<1>7. WorksOnYoung'
  BY DEF Fades, WorksOnYoung, InWork, Greys
<1>8. \A i \in Addr : lost'[i] \in 0 .. 3 /\ (lost'[i] = 3 => heap'[i].type # "free")
  BY <1>2, <1>3 DEF Fades
<1> QED
  BY <1>4, <1>5, <1>6, <1>7, <1>8 DEF Fades

(* A grey chunk has not been garbage for longer than once. *)
LEMMA GreyIsYoung ==
  ASSUME NEW K, NEW o, NEW c, Shape(K, o, c), Fades, NEW i \in Addr, heap[i].colour = grey
  PROVE  lost[i] <= 1
<1>1. heap[i].type # "free" /\ lost[i] \in 0 .. 3
  BY DEF Shape, InHand, Words, Fades
<1> QED
  BY <1>1 DEF Fades, Fading, Dead

LEMMA FindFades ==
  ASSUME NEW K, NEW o, NEW c, Shape(K, o, c), CollectorInRange, Fades, FindHere \/ FindNext \/ FindPassOver
  PROVE  Fades'
<1>1. UNCHANGED <<heap, lost, black>> /\ Addr' = Addr /\ chunk \in Addr /\ (cpc = "scan" => scan \in Addr)
  BY DEF FindHere, FindNext, FindPassOver, Marking, Addr, CollectorInRange
<1>2. \/ cpc' = "first" /\ chunk' \in Addr /\ heap[chunk'].colour = grey
      \/ cpc' = "scan" /\ scan' = chunk /\ chunk' = chunk /\ pass' = 1 /\ heap[chunk].colour # grey
      \/ /\ cpc = "scan" /\ cpc' = "scan" /\ scan + 1 # chunk /\ chunk' = chunk /\ pass' = pass
         /\ scan' = (scan + 1) % N /\ heap[scan'].colour # grey
      \/ cpc = "scan" /\ scan + 1 = chunk /\ chunk' = chunk /\ cpc' \in {"scan", "build"}
  <2>1. CASE FindHere
    BY <1>1, <2>1 DEF FindHere
  <2>2. CASE FindNext
    <3>1. cpc = "scan" /\ scan \in Addr /\ chunk \in Addr /\ scan + 1 # chunk
      BY <1>1, <2>2 DEF FindNext
    <3>2. (scan + 1) % N \in Addr
      BY <3>1, RoundTheHeap
    <3> QED
      BY <2>2, <3>1, <3>2 DEF FindNext
  <2>3. CASE FindPassOver
    BY <2>3 DEF FindPassOver
  <2> QED
    BY <2>1, <2>2, <2>3
<1>3. \A i \in Addr : lost[i] \in 0 .. 3 /\ lost'[i] = lost[i] /\ heap'[i] = heap[i] /\ (Dead(i)' <=> Dead(i))
  BY <1>1 DEF Fades, Dead
<1>4. Fading'
  <2>1. ASSUME cpc' \in {"await", "build"} => \A i \in Addr : Dead(i) => heap[i].colour # grey,
               cpc' = "scan" => \A i \in Addr : Dead(i) /\ heap[i].colour = grey => pass' = 1 /\ i \in Ahead'
        PROVE  Fading'
    BY <1>1, <1>3, <2>1 DEF Fading, Fades
  <2>2. CASE cpc' = "first"
    BY <2>1, <2>2
  <2>3. CASE cpc' = "scan" /\ scan' = chunk /\ chunk' = chunk /\ pass' = 1 /\ heap[chunk].colour # grey
    <3>1. Ahead' = Addr \ {chunk}
      BY <1>1, <2>3, RoundTheHeap DEF Ahead, Between
    <3> QED
      BY <2>1, <2>3, <3>1
  <2>4. CASE /\ cpc = "scan" /\ cpc' = "scan" /\ scan + 1 # chunk /\ chunk' = chunk /\ pass' = pass
             /\ scan' = (scan + 1) % N /\ heap[scan'].colour # grey
    <3>1. \A g \in Ahead : g = scan' \/ g \in Ahead'
      BY <1>1, <2>4, RoundTheHeap DEF Ahead, Between
    <3> QED
      BY <2>1, <2>4, <3>1 DEF Fades, Fading
  <2>5. CASE cpc = "scan" /\ scan + 1 = chunk /\ chunk' = chunk /\ cpc' \in {"scan", "build"}
    <3>1. Ahead = {}
      BY <1>1, <2>5, RoundTheHeap DEF Ahead
    <3>2. \A i \in Addr : Dead(i) => heap[i].colour # grey
      BY <2>5, <3>1 DEF Fades, Fading
    <3> QED
      BY <2>1, <2>5, <3>2
  <2> QED
    BY <1>2, <2>2, <2>3, <2>4, <2>5
<1>5. WorksOnYoung'
  <2>1. cpc' = "first" => lost[chunk'] <= 1
    BY <1>2, GreyIsYoung
  <2> QED
    BY <1>1, <1>2, <2>1 DEF WorksOnYoung, InWork, Greys
<1>6. Outlives'
  BY <1>1 DEF Fades, Outlives
<1> QED
  BY <1>1, <1>4, <1>5, <1>6 DEF Fades

(* Marking colours young garbage at most. *)
LEMMA ColourFades ==
  ASSUME SwapInv, Ranges, Fades, NEW x \in Addr, NEW v \in 0 .. 3, UNCHANGED heap \/ (heap' = Coloured(x, v) /\ lost[x] <= 1),
         UNCHANGED <<black, lost>>, cpc' \notin {"await", "scan", "build"}, WorksOnYoung'
  PROVE  Fades'
<1>1. /\ \A i \in Addr : lost[i] \in 0 .. 3 /\ lost'[i] = lost[i] /\ (lost[i] >= 2 => heap'[i] = heap[i])
      /\ \A i \in Addr : heap'[i].type = heap[i].type /\ heap'[i].a = heap[i].a /\ heap'[i].b = heap[i].b
  <2>1. \A i \in Addr : lost[i] \in 0 .. 3 /\ lost'[i] = lost[i]
    BY DEF Fades
  <2>2. CASE heap' = Coloured(x, v) /\ lost[x] <= 1
    <3>1. /\ \A i \in Addr : heap'[i].type = heap[i].type /\ heap'[i].a = heap[i].a /\ heap'[i].b = heap[i].b
          /\ \A i \in Addr : i # x => heap'[i] = heap[i]
      BY <2>2 DEF SwapInv, HeapOfRecords, Record, Coloured
    <3> QED
      BY <2>1, <2>2, <3>1
  <2> QED
    BY <2>1, <2>2
<1>2. Addr' = Addr
  BY DEF Addr
<1>3. Fading'
  <2>1. \A i \in Addr : Dead(i)' => (Dead(i) /\ (lost[i] >= 2 => heap'[i] = heap[i]) /\ lost'[i] = lost[i] /\ lost[i] \in 0 .. 3)
    BY <1>1 DEF Dead
  <2> QED
    BY <1>2, <2>1 DEF Fades, Fading
<1>4. Outlives'
  BY <1>1, <1>2 DEF Fades, Outlives
<1> QED
  BY <1>1, <1>2, <1>3, <1>4 DEF Fades

LEMMA RootHeld ==
  ASSUME NEW K, NEW o, NEW c, Shape(K, o, c), NEW L, Holding(L), NEW j \in 1 .. Len(RootChunks)
  PROVE  RootChunks[j] \in OrNull(L)
<1>1. /\ Len(RootChunks) = Cardinality(Symbol) + 2 /\ Len(RootChunks) \in Nat
      /\ RootChunks[1] = loc.ds /\ RootChunks[2] = loc.cs
      /\ \A s \in Symbol : RootChunks[s + 3] = bindings[s]
  BY RootList DEF Shape
<1> DEFINE r == RootChunks
<1> HIDE DEF r
<1>2. j \in Nat /\ Cardinality(Symbol) \in Nat /\ Symbol = 0 .. Cardinality(Symbol) - 1
  BY <1>1, SymbolAssumption, FS_CardinalityType
<1>3. CASE j \in {1, 2}
  BY <1>1, <1>3 DEF Holding
<1>4. CASE j \notin {1, 2}
  <2>1. j - 3 \in Symbol /\ (j - 3) + 3 = j
    BY <1>1, <1>2, <1>4
  <2>2. RootChunks[j] = bindings[j - 3]
    BY <1>1, <2>1
  <2> QED
    BY <2>1, <2>2 DEF Holding
<1> QED
  BY <1>3, <1>4

LEMMA MarkingFades ==
  ASSUME NEW K, NEW o, NEW c, Shape(K, o, c), CollectorInRange, Fades, NEW L, Holding(L),
         MarkRoot \/ DarkenFirst \/ DarkenSecond \/ DarkenWrite \/ Blacken
  PROVE  Fades'
<1>1. UNCHANGED <<lost, black>> /\ cpc' \notin {"await", "scan", "build"} /\ SwapInv /\ Ranges /\ 0 \in Addr
  BY HeapAssumption DEF MarkRoot, DarkenFirst, DarkenSecond, Darken, DarkenWrite, Blacken, Marking, Shape, Addr
<1>2. grey \in 0 .. 3 /\ black \in 0 .. 3
  BY <1>1 DEF grey, SwapInv, Colours
<1>3. CASE MarkRoot
  <2>1. PICK r : r = RootChunks[scan + 1]
    OBVIOUS
  <2>2. r \in OrNull(L)
    <3>1. Len(RootChunks) \in Nat
      BY RootList DEF Shape
    <3>2. scan + 1 \in 1 .. Len(RootChunks)
      BY <1>3, <3>1 DEF MarkRoot, CollectorInRange
    <3> QED
      BY <2>1, <3>2, RootHeld
  <2>3. heap' = (IF r = NULL THEN heap ELSE Coloured(r, grey)) /\ cpc' \in {"root", "find"}
    BY <1>3, <2>1 DEF MarkRoot
  <2>4. WorksOnYoung'
    BY <2>3 DEF WorksOnYoung, InWork, Greys
  <2>5. r # NULL => r \in Addr /\ lost[r] <= 1
    BY <2>2 DEF Holding, OrNull
  <2> QED
    BY <1>1, <1>2, <2>3, <2>4, <2>5, ColourFades
<1>4. CASE DarkenFirst \/ DarkenSecond
  <2>1. PICK k \in {1, 2} : /\ UNCHANGED <<heap, chunk>> /\ InWork
                            /\ (Len(Successors(chunk)) = 2 /\ scan' = Word(k) /\ Darkens(Word(k))) \/ ~ Greys'
    BY <1>4 DEF DarkenFirst, DarkenSecond, Darken, InWork, Greys
  <2>0. UNCHANGED <<heap, chunk>> /\ InWork /\ chunk \in Addr /\ chunk \in K /\ heap[chunk].type # "block"
    <3>1. UNCHANGED <<heap, chunk>> /\ InWork
      BY <2>1
    <3>2. chunk \in Addr
      BY DEF CollectorInRange
    <3>3. chunk \in K
      BY <3>1 DEF Shape, InHand
    <3> QED
      BY <3>1, <3>2, <3>3 DEF Shape, Ranges
  <2>2. lost[chunk] <= 1 /\ chunk \in Addr /\ lost[chunk] \in 0 .. 3
    BY <2>0 DEF Fades, WorksOnYoung
  <2>3. Greys' => lost[scan'] <= 1
    <3>1. SUFFICES ASSUME Greys' PROVE lost[scan'] <= 1
      OBVIOUS
    <3>2. Len(Successors(chunk)) = 2 /\ scan' = Successors(chunk)[k] /\ scan' # NULL
      BY <2>1, <3>1 DEF Word, Darkens
    <3>3. scan' \in {heap[chunk].a, heap[chunk].b} /\ heap[chunk].type \in {"list", "node"}
      <4>1. Words(K)
        BY DEF Shape
      <4> QED
        BY <2>0, <3>2, <4>1, WordKnown DEF Nodes, Lists
    <3>4. scan' \in Addr
      BY <2>2, <3>2, <3>3 DEF Shape, Ranges, Pointer
    <3>5. lost[scan'] <= lost[chunk] /\ lost[scan'] \in 0 .. 3
      BY <2>2, <3>2, <3>3, <3>4 DEF Fades, Outlives
    <3> QED
      BY <2>2, <3>5
  <2>4. WorksOnYoung'
    BY <1>1, <2>0, <2>2, <2>3 DEF WorksOnYoung
  <2> QED
    BY <1>1, <1>2, <2>0, <2>4, ColourFades
<1>5. CASE DarkenWrite
  <2>1. Greys /\ InWork /\ heap' = Coloured(scan, grey) /\ cpc' \in {"second", "blacken"} /\ chunk' = chunk
    BY <1>5 DEF DarkenWrite, Greys, InWork
  <2>2. scan \in Addr /\ lost[scan] <= 1 /\ lost[chunk] <= 1
    BY <2>1 DEF Fades, WorksOnYoung, Shape, InHand, Words
  <2>3. WorksOnYoung'
    BY <1>1, <2>1, <2>2 DEF WorksOnYoung, Greys
  <2> QED
    BY <1>1, <1>2, <2>1, <2>2, <2>3, ColourFades
<1>6. CASE Blacken
  <2>1. InWork /\ heap' = Coloured(chunk, black) /\ cpc' = "find"
    BY <1>6 DEF Blacken, InWork
  <2>2. chunk \in Addr /\ lost[chunk] <= 1
    BY <2>1 DEF Fades, WorksOnYoung, CollectorInRange
  <2>3. WorksOnYoung'
    BY <2>1 DEF WorksOnYoung, InWork, Greys
  <2> QED
    BY <1>1, <1>2, <2>1, <2>2, <2>3, ColourFades
<1> QED
  BY <1>3, <1>4, <1>5, <1>6

LEMMA BuildFades ==
  ASSUME SwapInv, Fades, Build \/ BuildOver
  PROVE  Fades'
<1>1. UNCHANGED <<lost, black>> /\ cpc = "build" /\ cpc' \in {"build", "await"} /\ Addr' = Addr
  BY DEF Build, Builds, BuildOver, Marking, Addr
<1>2. \A i \in Addr : heap'[i] = heap[i] \/ (heap'[i].type = "free" /\ heap[i].colour = white)
  <2>1. DOMAIN heap = Addr
    BY DEF SwapInv, HeapOfRecords
  <2>2. CASE BuildOver
    BY <2>2 DEF BuildOver
  <2>3. CASE Build
    BY <2>1, <2>3 DEF Build, Builds, FreeChunk
  <2> QED
    BY <2>2, <2>3
<1>3. \A i \in Addr : lost[i] \in 0 .. 3 /\ lost'[i] = lost[i] /\ (lost[i] = 3 => heap'[i] = heap[i])
  <2>1. \A i \in Addr : lost[i] \in 0 .. 3 /\ lost'[i] = lost[i]
    BY <1>1 DEF Fades
  <2>2. ASSUME NEW i \in Addr, lost[i] = 3 PROVE heap'[i] = heap[i]
    <3>1. heap[i].colour = green
      BY <2>2 DEF Fades, Fading, Dead
    <3>2. white # green
      BY DEF SwapInv, Colours, green
    <3> QED
      BY <1>2, <3>1, <3>2
  <2> QED
    BY <2>1, <2>2
<1>4. Fading'
  <2>1. \A i \in Addr : Dead(i)' => (Dead(i) /\ heap'[i] = heap[i] /\ lost'[i] = lost[i])
    BY <1>2, <1>3 DEF Dead
  <2> QED
    BY <1>1, <2>1 DEF Fades, Fading
<1>5. Outlives'
  BY <1>1, <1>2 DEF Fades, Outlives
<1>6. WorksOnYoung'
  BY <1>1 DEF WorksOnYoung, InWork, Greys
<1> QED
  BY <1>1, <1>3, <1>4, <1>5, <1>6 DEF Fades

LEMMA HandoverFades ==
  ASSUME NEW K, NEW o, NEW c, Shape(K, o, c), CollectorInRange, Queued, NEW L, Holding(L), Fades, Handover,
         NEW V, V = Live
  PROVE  Fades'
<1>1. Holding(V)' /\ V \subseteq Addr /\ AllClosed(heap, V)
  BY HandoverHolds
<1>2. /\ cpc = "await" /\ cpc' = "root" /\ black' = white
      /\ \A i \in Addr : lost'[i] = IF i \notin InUse \ V THEN 0 ELSE IF lost[i] = 3 THEN 3 ELSE lost[i] + 1
      /\ DOMAIN lost' = Addr /\ Addr' = Addr
      /\ UNCHANGED <<registers>>
  BY DEF Handover, HandsOver, Addr
<1>3. \A i \in Addr : \/ heap'[i] = heap[i]
                      \/ /\ i \in V
                         /\ heap'[i].type = heap[i].type /\ heap'[i].a = heap[i].a /\ heap'[i].b = heap[i].b
  <2>1. Range(registers) \subseteq V
    BY <1>1, <1>2 DEF Holding
  <2>2. \A i \in Addr : heap'[i] = IF i \in Range(registers) THEN [heap[i] EXCEPT !.colour = grey] ELSE heap[i]
    BY DEF Handover, HandsOver
  <2>3. \A i \in Addr : /\ [heap[i] EXCEPT !.colour = grey].type = heap[i].type
                        /\ [heap[i] EXCEPT !.colour = grey].a = heap[i].a
                        /\ [heap[i] EXCEPT !.colour = grey].b = heap[i].b
    BY DEF Shape, SwapInv, HeapOfRecords, Record
  <2> QED
    BY <2>1, <2>2, <2>3
<1>4. \A i \in Addr : lost[i] \in 0 .. 3 /\ heap[i].colour # white /\ heap[i].colour \in 0 .. 3
  BY <1>2 DEF Fades, Shape, SwapInv, NothingWhiteAtSwap, White, Ranges
<1>5. \A i \in Addr : lost'[i] \in 0 .. 3 /\ (i \in V \/ heap[i].type = "free" => lost'[i] = 0)
  BY <1>2, <1>4 DEF InUse
<1>6. \A i \in Addr : lost'[i] >= 1 => i \notin V /\ heap[i].type # "free" /\ heap'[i] = heap[i]
  BY <1>3, <1>5
<1>7. Fading'
  <2>1. ASSUME NEW i \in Addr, lost'[i] >= 2
        PROVE  /\ heap'[i].colour \notin {grey, white}
               /\ lost'[i] >= 3 => heap'[i].colour = green
    <3>1. i \in InUse \ V /\ heap'[i] = heap[i] /\ heap[i].type # "free"
      BY <1>2, <1>5, <1>6, <2>1 DEF InUse
    <3>2. lost[i] >= 1 /\ (lost'[i] >= 3 => lost[i] >= 2)
      BY <1>2, <1>4, <2>1, <3>1
    <3>3. Dead(i)
      BY <3>1, <3>2 DEF Dead
    <3>4. heap[i].colour # grey /\ (lost[i] >= 2 => heap[i].colour \notin {grey, black})
      BY <1>2, <3>3 DEF Fades, Fading
    <3>5. lost[i] >= 2 => heap[i].colour = green
      BY <1>4, <3>4 DEF Shape, SwapInv, Colours, grey, green
    <3> QED
      BY <1>4, <3>1, <3>2, <3>4, <3>5
  <2>2. \A i \in Addr : lost'[i] >= 3 => lost'[i] >= 2
    BY <1>5
  <2> QED
    BY <1>2, <2>1, <2>2 DEF Fading, Dead
<1>8. Outlives'
  <2>1. ASSUME NEW p \in Addr, heap'[p].type \in {"list", "node"}, NEW w \in {heap'[p].a, heap'[p].b} \ {NULL}
        PROVE  lost'[w] <= lost'[p]
    <3>1. heap[p].type \in {"list", "node"} /\ w \in {heap[p].a, heap[p].b} /\ w # NULL
      BY <1>3, <2>1
    <3>2. w \in Addr
      BY <3>1 DEF Shape, Ranges, Pointer
    <3>3. lost[w] <= lost[p]
      BY <3>1 DEF Fades, Outlives
    <3>4. p \in V => w \in V
      BY <1>1, <3>1 DEF AllClosed, OrNull
    <3>5. p \notin V => p \in InUse \ V
      BY <3>1 DEF InUse
    <3> QED
      BY <1>2, <1>4, <1>5, <3>2, <3>3, <3>4, <3>5
  <2> QED
    BY <1>2, <2>1 DEF Outlives
<1>9. WorksOnYoung'
  BY <1>2 DEF WorksOnYoung, InWork, Greys
<1>10. \A i \in Addr : lost'[i] = 3 => heap'[i].type # "free"
  BY <1>6
<1> QED
  BY <1>2, <1>5, <1>7, <1>8, <1>9, <1>10 DEF Fades

(* A chunk that allocate_chunk hands out counts as garbage no longer. *)
FreeIsNew == \A i \in Free : lost[i] = 0

LEMMA LostStays ==
  ASSUME [Next]_vars, ~ Handover
  PROVE  UNCHANGED lost
<1>1. CASE MutatorStep
  BY <1>1, MutatorAlone
<1>2. CASE CollectorStep
  BY <1>2 DEF CollectorStep, MarkRoot, FindHere, FindNext, FindPassOver, DarkenFirst, DarkenSecond, Darken,
         DarkenWrite, Blacken, Build, Builds, BuildOver, Marking
<1>3. CASE Call \/ Fail \/ Return \/ UNCHANGED gcVars
  BY <1>3 DEF Call, Fail, Return, gcVars
<1> QED
  BY <1>1, <1>2, <1>3 DEF Next, Mutator, Collector, Ended, vars

LEMMA FreeStaysNew ==
  ASSUME [Next]_vars, FreeIsNew, Listed, Free \subseteq Addr, Spare \subseteq Addr, Moved
  PROVE  FreeIsNew'
<1>1. CASE Handover
  <2>1. Free' = Spare
    <3>1. ~ Allocate /\ ~ Build /\ ~ Quiet
      <4>1. mpc = "await" /\ cpc = "await" /\ mpc' = "granted" /\ cpc' = "root"
        BY <1>1 DEF Handover, HandsOver
      <4>2. ~ Allocate /\ ~ Build
        BY <4>1 DEF Allocate, Allocating, In, At, Build, Builds
      <4>3. ~ Quiet
        <5>1. ~ (MutatorStep /\ ~ Allocate)
          BY <4>1, MutatorAlone
        <5>2. ~ (Call \/ Fail \/ Return \/ UNCHANGED gcVars)
          BY <4>1 DEF Call, Fail, Return, gcVars, opVars, collectorVars
        <5> QED
          BY <1>1, <5>1, <5>2 DEF Quiet
      <4> QED
        BY <4>2, <4>3
    <3> QED
      BY <3>1 DEF Moved
  <2>2. \A i \in Spare : i \in Addr /\ heap[i].type = "free"
    BY DEF Listed, FreeChunks
  <2>3. \A i \in Addr : heap[i].type = "free" => lost'[i] = 0
    BY <1>1 DEF Handover, HandsOver, InUse
  <2> QED
    BY <2>1, <2>2, <2>3 DEF FreeIsNew
<1>2. CASE ~ Handover
  <2>1. Free' \subseteq Free
    BY <1>2 DEF Moved
  <2>2. lost' = lost
    BY <1>2, LostStays
  <2> QED
    BY <2>1, <2>2 DEF FreeIsNew
<1> QED
  BY <1>1, <1>2

LEMMA StepFades ==
  ASSUME NEW K, NEW o, NEW c, NEW S, Sound(K, o, c, S), Listed, Queued, NEW L, Holding(L), Fades, FreeIsNew,
         [Next]_vars, Moved
  PROVE  (\E M : Holding(M)') /\ Fades' /\ FreeIsNew'
<1>1. Shape(K, o, c) /\ CollectorInRange /\ SwapInv /\ Ranges /\ Addr' = Addr
  BY DEF Sound, Shape, Addr
<1>2. WellLinked(heap) /\ FreeIsFree /\ Free \subseteq Addr /\ Spare \subseteq Addr
  <2>1. WellLinked(heap)
    BY <1>1, HeapWellLinked DEF SwapInv
  <2> QED
    BY <2>1, ListedFree, ListedIntact
<1>3. FreeIsNew'
  BY <1>2, FreeStaysNew
<1>4. CASE MutatorStep
  <2>1. Allocate => lost[free_list] = 0
    <3>1. SUFFICES ASSUME Allocate PROVE lost[free_list] = 0
      OBVIOUS
    <3>2. free_list \in Addr /\ free_list # NULL
      BY <1>2, <3>1 DEF Allocate, FreeIsFree, OrNull
    <3>3. free_list \in Free
      BY <1>2, <3>2, FollowIsLeast, HeapLinked DEF Free
    <3> QED
      BY <3>3 DEF FreeIsNew
  <2>2. PICK M : Holding(M)' /\ Spares(M)
    BY <1>1, <1>2, <1>4, <2>1, MutatorHolds
  <2>3. Fades'
    BY <1>4, <2>2, MutatorAlone, SparingFades
  <2> QED
    BY <1>3, <2>2, <2>3
<1>5. CASE CollectorStep /\ Handover
  <2>1. PICK V : V = Live
    OBVIOUS
  <2>2. Holding(V)' /\ Fades'
    BY <1>1, <1>5, <2>1, HandoverHolds, HandoverFades
  <2> QED
    BY <1>3, <2>2
<1>6. CASE CollectorStep /\ ~ Handover
  <2>1. Holding(L)'
    BY <1>1, <1>6, CollectorHolds
  <2>2. CASE FindHere \/ FindNext \/ FindPassOver
    BY <1>1, <1>3, <2>1, <2>2, FindFades
  <2>3. CASE MarkRoot \/ DarkenFirst \/ DarkenSecond \/ DarkenWrite \/ Blacken
    BY <1>1, <1>3, <2>1, <2>3, MarkingFades
  <2>4. CASE Build \/ BuildOver
    BY <1>1, <1>3, <2>1, <2>4, BuildFades
  <2> QED
    BY <1>6, <2>2, <2>3, <2>4 DEF CollectorStep
<1>7. CASE Call \/ Fail \/ Return \/ UNCHANGED gcVars
  <2>1. Holding(L)' /\ Spares(L)
    BY <1>1, <1>7, ClientHolds
  <2>2. UNCHANGED <<cpc, chunk, scan, pass, black, lost>>
    BY <1>7 DEF Call, Fail, Return, gcVars, collectorVars, shared
  <2> QED
    BY <1>3, <2>1, <2>2, SparingFades
<1> QED
  BY <1>4, <1>5, <1>6, <1>7 DEF Next, Mutator, Collector, Ended, vars

-----------------------------------------------------------------------------
(* A new chunk is green, as free chunks are.  The program pushes it at     *)
(* once, or it is a list that read_line puts into a register first.        *)
LineFrom(k) == SubSeq(read_line, k, Len(read_line))

Sends(ops) ==
  \A k \in 1 .. Len(ops) : ops[k].op = "new" =>
    k < Len(ops) /\ ops[k + 1].op \in Pushes /\ ops[k + 1].x = ops[k].x

NewSent == (\E k \in 1 .. 9 : todo = LineFrom(k)) \/ ((\E T : todo \in Seq(T)) /\ Sends(todo))

LEMMA LineOperations ==
  /\ Len(read_line) = 8 /\ \E T : read_line \in Seq(T)
  /\ read_line[1].op = "new" /\ read_line[1].x = "list"
  /\ read_line[2].op = "push_register" /\ read_line[2].p = "list"
  /\ read_line[3].op = "push_register" /\ read_line[3].p = "list"
  /\ read_line[4].op = "new" /\ read_line[4].x = "i"
  /\ read_line[5].op = "pop_register" /\ read_line[5].x = "list"
  /\ read_line[6].op = "push_back" /\ read_line[6].p = "list" /\ read_line[6].x = "i"
  /\ read_line[7].op = "push_front" /\ read_line[8].op = "release"
<1>1. read_line \in Seq({New("list", "list", 0), PushRegister("list"),
        New("integer", "i", 0), PopRegister("list"),
        Returning(PushBack("list", "i")), PushFront("ds", "list"), Release})
  BY DEF read_line
<1> DEFINE a == New("list", "list", 0)
           b == PushRegister("list")
           c == New("integer", "i", 0)
           d == PopRegister("list")
           e == Returning(PushBack("list", "i"))
           f == PushFront("ds", "list")
           g == Release
<1>2. /\ a.op = "new" /\ a.x = "list" /\ b.op = "push_register" /\ b.p = "list"
      /\ c.op = "new" /\ c.x = "i" /\ d.op = "pop_register" /\ d.x = "list"
      /\ e.op = "push_back" /\ e.p = "list" /\ e.x = "i" /\ f.op = "push_front" /\ g.op = "release"
  BY DEF New, PushRegister, PopRegister, Returning, PushBack, PushFront, Release, Op
<1>3. read_line = <<a, b, b, c, d, e, f, g>>
  BY DEF read_line
<1> HIDE DEF a, b, c, d, e, f, g
<1>4. /\ Len(read_line) = 8 /\ read_line[1] = a /\ read_line[2] = b /\ read_line[3] = b /\ read_line[4] = c
      /\ read_line[5] = d /\ read_line[6] = e /\ read_line[7] = f /\ read_line[8] = g
  BY <1>3
<1> QED
  BY <1>1, <1>2, <1>4

(* What is left of a sequence goes on like this. *)
LEMMA LeftOver ==
  ASSUME NEW T, NEW s \in Seq(T), NEW k \in 1 .. Len(s)
  PROVE  /\ SubSeq(s, k, Len(s)) \in Seq(T) /\ SubSeq(s, k, Len(s)) # <<>> /\ Head(SubSeq(s, k, Len(s))) = s[k]
         /\ Tail(SubSeq(s, k, Len(s))) = SubSeq(s, k + 1, Len(s))
<1> DEFINE u == SubSeq(s, k, Len(s))
<1>1. u \in Seq(T) /\ Len(u) = Len(s) - k + 1 /\ \A j \in 1 .. Len(u) : u[j] = s[k + j - 1]
  OBVIOUS
<1>3. SubSeq(s, k + 1, Len(s)) = Tail(u)
  OBVIOUS
<1> HIDE DEF u
<1>2. u # <<>> /\ Len(u) >= 1 /\ Head(u) = s[k]
  <2>1. Len(s) \in Nat /\ k \in Nat /\ k <= Len(s)
    OBVIOUS
  <2>2. Len(u) >= 1 /\ k + 1 - 1 = k
    BY <1>1, <2>1
  <2>3. u # <<>> /\ Head(u) = u[1]
    BY <1>1, <2>2
  <2> QED
    BY <1>1, <2>2, <2>3
<1> QED
  BY <1>1, <1>2, <1>3 DEF u

LEMMA LineStep ==
  ASSUME NEW k \in 1 .. 8
  PROVE  LineFrom(k) # <<>> /\ Head(LineFrom(k)) = read_line[k] /\ Tail(LineFrom(k)) = LineFrom(k + 1)
<1>1. PICK T : read_line \in Seq(T)
  BY LineOperations
<1>2. k \in 1 .. Len(read_line)
  BY LineOperations
<1> QED
  BY <1>1, <1>2, LeftOver DEF LineFrom

NoNew(ops) == \A k \in 1 .. Len(ops) : ops[k].op # "new"

LEMMA JoinNoNew ==
  ASSUME NEW T, NEW s \in Seq(T), NEW t \in Seq(T), NoNew(s), NoNew(t), NEW w, w = s \o t
  PROVE  w \in Seq(T) /\ NoNew(w)
<1>1. w \in Seq(T) /\ Len(w) = Len(s) + Len(t)
      /\ \A k \in 1 .. Len(w) : w[k] = IF k <= Len(s) THEN s[k] ELSE t[k - Len(s)]
  OBVIOUS
<1> QED
  BY <1>1 DEF NoNew

LEMMA OperationNames ==
  /\ \A l, x : /\ PopToRegister(l, x).op = "pop_to_register" /\ FirstItem(l, x).op = "front"
              /\ PushFront(l, x).op = "push_front" /\ PushFront(l, x).x = x
              /\ PushBack(l, x).op = "push_back" /\ Bind(l, x).op = "bind"
              /\ Returning(PushFront(l, x)).op = "push_front"
  /\ \A x : /\ PopFront(x).op = "pop_front" /\ PushRegister(x).op = "push_register"
           /\ PopRegister(x).op = "pop_register"
  /\ \A s, x : Dereference(s, x).op = "dereference" /\ NewBlock(s, x).op = "new_block" /\ Code(s, x).op = "code"
  /\ \A t, x, v : New(t, x, v).op = "new" /\ New(t, x, v).x = x
  /\ Release.op = "release"
BY DEF PopToRegister, PopFront, PushFront, PushBack, Returning, PushRegister, PopRegister, Release,
       FirstItem, Dereference, Bind, New, NewBlock, Code, Op

LEMMA QuietBuiltins ==
  /\ NoNew(list_head) /\ NoNew(list_prepend) /\ NoNew(print_string) /\ NoNew(print_int) /\ NoNew(drop)
  /\ NoNew(_dup) /\ NoNew(append) /\ NoNew(roll) /\ NoNew(swap) /\ NoNew(bind_symbol) /\ NoNew(if_not)
  /\ \A s : NoNew(symbol_data(s))
<1>1. NoNew(list_head)
  BY OperationNames DEF NoNew, list_head
<1>2. NoNew(list_prepend)
  BY OperationNames DEF NoNew, list_prepend
<1>3. NoNew(print_string) /\ NoNew(print_int) /\ NoNew(drop) /\ NoNew(_dup)
  BY OperationNames DEF NoNew, print_string, print_int, drop, _dup
<1>4. NoNew(append) /\ NoNew(bind_symbol) /\ NoNew(if_not)
  BY OperationNames DEF NoNew, append, bind_symbol, if_not
<1>5. NoNew(roll)
  BY OperationNames DEF NoNew, roll
<1>6. NoNew(swap)
  BY OperationNames DEF NoNew, swap
<1>7. ASSUME NEW s PROVE NoNew(symbol_data(s))
  BY OperationNames DEF NoNew, symbol_data
<1> QED
  BY <1>1, <1>2, <1>3, <1>4, <1>5, <1>6, <1>7

LEMMA SendingBuiltins ==
  /\ Sends(unary) /\ Sends(binary) /\ Sends(list_new) /\ \A s : Sends(escaped_symbol(s))
<1>1. Sends(unary)
  BY OperationNames DEF Sends, Pushes, unary
<1>2. Sends(binary)
  BY OperationNames DEF Sends, Pushes, binary
<1>3. Sends(list_new)
  BY OperationNames DEF Sends, Pushes, list_new
<1>4. ASSUME NEW s PROVE Sends(escaped_symbol(s))
  BY OperationNames DEF Sends, Pushes, escaped_symbol
<1> QED
  BY <1>1, <1>2, <1>3, <1>4

LEMMA BlockBuiltins == NoNew(call) /\ NoNew(if_block)
<1> DEFINE a == <<PopToRegister("ds", "bc")>>
           b == execute_block("bc")
           c == <<Release>>
           d == <<PopToRegister("ds", "ch"), PopToRegister("ds", "ic")>>
           e == execute_block("ch")
           f == <<Release, Release>>
           T == {PopToRegister("ds", "bc"), PopToRegister("ds", "ch"), PopToRegister("ds", "ic"), Release,
                 PushRegister("bc"), Code("bc", "code"), NewBlock("code", "newblock"), PushFront("cs", "newblock"),
                 PopRegister("bc"), PushRegister("ch"), Code("ch", "code"), PopRegister("ch")}
<1>1. /\ NoNew(a) /\ NoNew(b) /\ NoNew(c) /\ NoNew(d) /\ NoNew(e) /\ NoNew(f)
  BY OperationNames DEF NoNew, execute_block
<1>2. a \in Seq(T) /\ b \in Seq(T) /\ c \in Seq(T) /\ d \in Seq(T) /\ e \in Seq(T) /\ f \in Seq(T)
  BY DEF execute_block
<1>3. call = a \o b \o c /\ if_block = d \o e \o f
  BY DEF call, if_block
<1> HIDE DEF a, b, c, d, e, f, T
<1>4. PICK u, v : u = a \o b /\ v = d \o e
  OBVIOUS
<1>5. u \in Seq(T) /\ NoNew(u) /\ v \in Seq(T) /\ NoNew(v)
  BY <1>1, <1>2, <1>4, JoinNoNew
<1>6. call = u \o c /\ if_block = v \o f
  BY <1>3, <1>4
<1> QED
  BY <1>1, <1>2, <1>5, <1>6, JoinNoNew

LEMMA BuiltinsSend ==
  ASSUME NEW name \in (BuiltinFunctions \ {"if", "break", "loop"}) \cup {"if-not", "if-block"}, NEW ops, ops = Program(name)
  PROVE  ops = LineFrom(1) \/ Sends(ops)
<1> USE DEF Program
<1>0. ASSUME NEW w, NoNew(w) PROVE Sends(w)
  BY <1>0 DEF NoNew, Sends
<1>1. CASE name \in {"char-to-upper", "char-is-alpha", "not", "list-is-empty"}
  BY <1>1, SendingBuiltins DEF char_to_upper, char_is_alpha, _not, list_is_empty
<1>2. CASE name \in {"add", "sub", "mod", "equals"}
  BY <1>2, SendingBuiltins DEF add, sub, mod, equals
<1>3. CASE name \in {"print-string", "list-head", "list-prepend", "print-int", "drop", "dup"}
  BY <1>0, <1>3, QuietBuiltins
<1>4. CASE name \in {"append", "list-append", "roll", "swap", "bind", "if-not"}
  BY <1>0, <1>4, QuietBuiltins
<1>5. CASE name \in {"call", "if-block"}
  BY <1>0, <1>5, BlockBuiltins
<1>6. CASE name = "list-new"
  BY <1>6, SendingBuiltins
<1>7. CASE name = "read-line"
  <2>1. PICK T : read_line \in Seq(T)
    BY LineOperations
  <2>2. SubSeq(read_line, 1, Len(read_line)) = read_line
    BY <2>1
  <2> QED
    BY <1>7, <2>2 DEF LineFrom
<1> QED
  BY <1>1, <1>2, <1>3, <1>4, <1>5, <1>6, <1>7 DEF BuiltinFunctions

LEMMA TailSends ==
  ASSUME NewSent, todo # <<>>, todo' = Tail(todo)
  PROVE  NewSent'
<1>1. CASE \E k \in 1 .. 9 : todo = LineFrom(k)
  <2>1. PICK k \in 1 .. 9 : todo = LineFrom(k)
    BY <1>1
  <2>2. k # 9
    <3>1. PICK T : read_line \in Seq(T)
      BY LineOperations
    <3>2. LineFrom(9) = <<>>
      BY <3>1, LineOperations DEF LineFrom
    <3> QED
      BY <2>1, <3>2
  <2>3. k \in 1 .. 8 /\ k + 1 \in 1 .. 9
    BY <2>2
  <2>4. Tail(LineFrom(k)) = LineFrom(k + 1)
    BY <2>3, LineStep
  <2>5. todo' = LineFrom(k + 1)
    BY <2>1, <2>4
  <2>6. LineFrom(k + 1)' = LineFrom(k + 1)
    BY DEF LineFrom
  <2> QED
    BY <2>3, <2>5, <2>6 DEF NewSent
<1>2. CASE (\E T : todo \in Seq(T)) /\ Sends(todo)
  <2>1. PICK T : todo \in Seq(T)
    BY <1>2
  <2> DEFINE r == Tail(todo)
  <2>2. Len(r) = Len(todo) - 1 /\ Len(todo) \in Nat /\ r \in Seq(T) /\ \A k \in 1 .. Len(r) : r[k] = todo[k + 1]
    BY <2>1, TailFacts
  <2> HIDE DEF r
  <2>3. Sends(r)
    <3>1. SUFFICES ASSUME NEW k \in 1 .. Len(r), r[k].op = "new"
                   PROVE  k < Len(r) /\ r[k + 1].op \in Pushes /\ r[k + 1].x = r[k].x
      BY DEF Sends
    <3>2. k + 1 \in 1 .. Len(todo) /\ todo[k + 1].op = "new" /\ r[k] = todo[k + 1]
      BY <2>2, <3>1
    <3>3. k + 1 < Len(todo) /\ todo[k + 1 + 1].op \in Pushes /\ todo[k + 1 + 1].x = todo[k + 1].x
      BY <1>2, <3>2 DEF Sends
    <3>4. k + 1 \in 1 .. Len(r)
      BY <2>2, <3>1, <3>3
    <3>5. r[k + 1] = todo[k + 1 + 1]
      BY <2>2, <3>4
    <3> QED
      BY <2>2, <3>2, <3>3, <3>5
  <2>4. todo' = r
    BY DEF r
  <2> QED
    BY <2>2, <2>3, <2>4 DEF NewSent
<1> QED
  BY <1>1, <1>2 DEF NewSent

LEMMA StatementSends ==
  ASSUME NEW K, NEW o, NEW c, Shape(K, o, c), mpc = "op", NEW name \in Calls, NEW ops \in Statements(name)
  PROVE  (\E k \in 1 .. 9 : ops = LineFrom(k)) \/ ((\E T : ops \in Seq(T)) /\ Sends(ops))
<1>0. ASSUME NEW w, NoNew(w) PROVE Sends(w)
  BY <1>0 DEF NoNew, Sends
<1>1. \E T : ops \in Seq(T)
  BY StatementKnown DEF Certified
<1>2. CASE name = "escaped-symbol"
  BY <1>1, <1>2, SendingBuiltins DEF Statements
<1>3. CASE name = "symbol"
  <2>1. PICK s \in Symbol : ops \in Bound(Meant(s))
    BY <1>3 DEF Statements
  <2>2. PICK m : m = Meant(s)
    OBVIOUS
  <2>3. ops \in BoundIn(heap, bindings, m)
    BY <2>1, <2>2 DEF Bound
  <2>4. ops = symbol_block(m) \/ ops = escaped_symbol(heap[bindings[m]].a) \/ ops = symbol_data(m)
    BY <2>3 DEF BoundIn
  <2>5. NoNew(symbol_block(m))
    <3> DEFINE a == <<Dereference(m, "header")>>
               b == execute_block("header")
               T == {Dereference(m, "header"), PushRegister("header"), Code("header", "code"),
                     NewBlock("code", "newblock"), PushFront("cs", "newblock"), PopRegister("header")}
    <3>1. a \in Seq(T) /\ b \in Seq(T) /\ NoNew(a) /\ NoNew(b)
      BY OperationNames DEF NoNew, execute_block
    <3>2. symbol_block(m) = a \o b
      BY DEF symbol_block
    <3> HIDE DEF a, b, T
    <3> QED
      BY <3>1, <3>2, JoinNoNew
  <2> QED
    BY <1>0, <1>1, <2>4, <2>5, SendingBuiltins, QuietBuiltins
<1>4. CASE name \notin {"escaped-symbol", "symbol"}
  <2>1. ops = Program(name)
    BY <1>4 DEF Statements
  <2>2. name \in (BuiltinFunctions \ {"if", "break", "loop"}) \cup {"if-not", "if-block"}
    BY <1>4, CallsAssumption
  <2> QED
    BY <1>1, <2>1, <2>2, BuiltinsSend
<1> QED
  BY <1>2, <1>3, <1>4

-----------------------------------------------------------------------------
(* A chunk that is not a node is green only until it has been pushed: as   *)
(* long as it is, it is a stack, or the operation to come pushes it or     *)
(* pushes to it, or it is where read_line keeps it.                        *)
UsedGreen(i) == heap[i].type \notin {"free", "node"} /\ heap[i].colour = green

InPush(i) == todo # <<>> /\ now.op \in Pushes /\ i \in {P, X}

InLine(i) ==
  \/ todo \in {LineFrom(2), LineFrom(3)} /\ "list" \in DOMAIN loc /\ i = loc["list"]
  \/ todo \in {LineFrom(4), LineFrom(5)} /\ registers # <<>> /\ i = Last(registers)
  \/ todo = LineFrom(5) /\ "i" \in DOMAIN loc /\ i = loc["i"]

Placed(i) == i \in {loc.ds, loc.cs} \/ InPush(i) \/ InLine(i)

GreenHeld == \A i \in Addr : UsedGreen(i) => Placed(i)

(* Once the hook of a push has run, neither the list nor the item is green. *)
PushSeen ==
  todo # <<>> /\ now.op \in Pushes /\ mpc # "op" =>
    /\ heap[P].colour = green => Hooking /\ hook.then = "alloc" /\ P \in Range(hook.darken)
    /\ heap[X].colour = green => Hooking /\ hook.then = "alloc" /\ X \in Range(hook.darken) \cup {hook.blacken}

LineOps == {"push_register", "new", "pop_register"}

LEMMA LineHeads ==
  ASSUME NEW k \in 2 .. 5, todo = LineFrom(k)
  PROVE  todo # <<>> /\ now = read_line[k] /\ now.op \in LineOps
<1>1. todo # <<>> /\ now = read_line[k]
  BY LineStep DEF now
<1> QED
  BY <1>1, LineOperations DEF LineOps

LEMMA InLineHeads ==
  ASSUME NEW i, InLine(i)
  PROVE  todo # <<>> /\ now.op \in LineOps
<1>1. PICK k \in 2 .. 5 : todo = LineFrom(k)
  BY DEF InLine
<1> QED
  BY <1>1, LineHeads

LEMMA GreenStays ==
  ASSUME GreenHeld, SameStacks, \A i \in Addr : UsedGreen(i)' => UsedGreen(i),
         \A i \in Addr : UsedGreen(i) /\ UsedGreen(i)' /\ (InPush(i) \/ InLine(i)) => Placed(i)'
  PROVE  GreenHeld'
<1> SUFFICES ASSUME NEW i \in Addr, UsedGreen(i)' PROVE Placed(i)'
  BY DEF GreenHeld, Addr
<1>1. UsedGreen(i) /\ Placed(i)
  BY DEF GreenHeld
<1> QED
  BY <1>1 DEF Placed, SameStacks

(* Outside a push and the beginning of read_line only the stacks are green. *)
LEMMA GreenElsewhere ==
  ASSUME GreenHeld, SameStacks, \A i \in Addr : UsedGreen(i)' => UsedGreen(i),
         todo # <<>> => now.op \notin Pushes \cup LineOps
  PROVE  GreenHeld'
BY GreenStays, InLineHeads DEF InPush

LEMMA GreenSame ==
  ASSUME GreenHeld, {"ds", "cs"} \subseteq DOMAIN loc, \A i \in Addr : UsedGreen(i)' => UsedGreen(i),
         UNCHANGED <<todo, loc>>,
         registers' = registers \/ (todo # <<>> /\ now.op \in Pushes)
  PROVE  GreenHeld'
<1>1. SameStacks
  BY DEF SameStacks
<1>2. ASSUME NEW i, InPush(i) PROVE Placed(i)'
  BY <1>2 DEF InPush, Placed, now, P, X
<1>3. ASSUME NEW i, InLine(i) PROVE Placed(i)'
  <2>1. registers' = registers
    BY <1>3, InLineHeads DEF LineOps, Pushes
  <2> QED
    BY <1>3, <2>1 DEF InLine, Placed, LineFrom
<1> QED
  BY <1>1, <1>2, <1>3, GreenStays

LEMMA GreenWrites ==
  ASSUME UsedOnly
  PROVE  \A i \in Addr : UsedGreen(i)' => UsedGreen(i)
BY DEF UsedOnly, UsedGreen

(* What is green is held. *)
LEMMA GreenIsHeld ==
  ASSUME NEW K, NEW o, NEW c, Shape(K, o, c), Queued, NEW L, Holding(L), GreenHeld, NEW i \in Addr, UsedGreen(i)
  PROVE  i \in L
<1>0. NULL \notin Addr /\ i # NULL
  BY DEF Addr, NULL
<1>1. Placed(i)
  BY DEF GreenHeld
<1>2. CASE i \in {loc.ds, loc.cs}
  BY <1>0, <1>2 DEF Holding, OrNull
<1>3. CASE InPush(i)
  <2>1. todo # <<>> /\ now.op \in Pushes /\ mpc # "unlink_last"
    BY <1>3 DEF InPush, Shape, Control, Pushes
  <2>2. now.p \in DOMAIN loc /\ now.x \in DOMAIN loc
    BY <2>1, PushKnown DEF Shape
  <2>3. Uses(now) = {now.p, now.x}
    BY <2>1 DEF Uses, Pushes
  <2>4. P \in OrNull(L) /\ X \in OrNull(L)
    BY <2>1, <2>2, <2>3, HeldNow DEF P, X
  <2> QED
    BY <1>0, <1>3, <2>4 DEF InPush, OrNull
<1>4. CASE InLine(i)
  <2>1. todo # <<>> /\ now.op \in LineOps /\ mpc # "unlink_last"
    <3>1. todo # <<>> /\ now.op \in LineOps
      BY <1>4, InLineHeads
    <3> QED
      BY <3>1 DEF LineOps, Shape, Control
  <2>2. CASE todo \in {LineFrom(2), LineFrom(3)} /\ "list" \in DOMAIN loc /\ i = loc["list"]
    <3>1. now.op = "push_register" /\ now.p = "list"
      BY <2>2, LineHeads, LineOperations
    <3>2. Uses(now) = {"list"}
      BY <3>1 DEF Uses
    <3>3. loc["list"] \in OrNull(L)
      BY <2>1, <2>2, <3>2, HeldNow
    <3> QED
      BY <1>0, <2>2, <3>3 DEF OrNull
  <2>3. CASE registers # <<>> /\ i = Last(registers)
    <3>1. registers \in Seq(K)
      BY DEF Shape, Roots0
    <3>2. Last(registers) \in Range(registers)
      BY <2>3, <3>1 DEF Last, Range
    <3> QED
      BY <2>3, <3>2 DEF Holding
  <2>4. CASE todo = LineFrom(5) /\ "i" \in DOMAIN loc /\ i = loc["i"]
    <3>1. Tail(todo) = LineFrom(6) /\ LineFrom(6) # <<>> /\ Head(LineFrom(6)) = read_line[6]
      <4>1. 5 \in 1 .. 8 /\ 6 \in 1 .. 8 /\ 5 + 1 = 6
        OBVIOUS
      <4> QED
        BY <2>4, <4>1, LineStep
    <3>2. Uses(Head(Tail(todo))) = {"list", "i"}
      BY <3>1, LineOperations DEF Uses
    <3>3. PICK T : todo \in Seq(T)
      BY TodoSequence
    <3>4. Tail(todo) \in Seq(T) /\ Tail(todo) # <<>>
      BY <2>1, <3>1, <3>3
    <3>5. Uses(Head(Tail(todo))) \subseteq StillUsed(Tail(todo))
      BY <3>4, UsesNow
    <3>6. now.x = "list"
      BY <2>4, LineHeads, LineOperations
    <3>7. loc["i"] \in OrNull(L)
      BY <2>1, <2>4, <3>2, <3>5, <3>6, HeldNow
    <3> QED
      BY <1>0, <2>4, <3>7 DEF OrNull
  <2> QED
    BY <1>4, <2>2, <2>3, <2>4 DEF InLine
<1> QED
  BY <1>1, <1>2, <1>3, <1>4 DEF Placed

-----------------------------------------------------------------------------
(* Steps that leave the place of what is green                              *)

LEMMA LineConstant ==
  \A k \in 1 .. 9 : LineFrom(k)' = LineFrom(k)
BY DEF LineFrom

LEMMA FetchGreen ==
  ASSUME NEW K, NEW o, NEW c, Shape(K, o, c), GreenHeld, Fetch
  PROVE  GreenHeld'
<1>1. todo # <<>> /\ mpc = "op" /\ todo' = Tail(todo) /\ UNCHANGED <<heap>>
      /\ loc' = [y \in DOMAIN loc \cup {now.x} |-> IF y = now.x THEN Fetched ELSE loc[y]]
      /\ now.op \in {"pop_register", "front", "current_data", "code", "dereference", "argument"}
  BY DEF Fetch, In, At, Finish, Assign
<1>2. OwnLocal(now.x)
  <2>1. now.op \in Pushes \cup {"pop_to_register", "pop_front", "new", "push_register", "release",
                                 "pop_register", "front", "dereference", "bind"}
    BY <1>1, NextOperation DEF Shape
  <2>2. now.op \in {"pop_register", "front", "dereference"}
    BY <1>1, <2>1 DEF Pushes
  <2>3. PICK e : Typed(Plain, now, c, e)
    BY <1>1, TypedNow DEF Shape
  <2> QED
    BY <2>2, <2>3, TypedAs DEF TypedPopRegister, TypedFront, TypedDereference, Assigns
<1>3. SameStacks /\ \A i \in Addr : UsedGreen(i)' => UsedGreen(i)
  BY <1>1, <1>2 DEF SameStacks, OwnLocal, Stacks, Shape, Roots0, UsedGreen
<1>4. CASE now.op # "pop_register"
  BY <1>1, <1>3, <1>4, GreenElsewhere DEF LineOps, Pushes
<1>5. CASE now.op = "pop_register"
  <2>1. ASSUME NEW i \in Addr, InPush(i) \/ InLine(i) PROVE Placed(i)'
    <3>1. InLine(i)
      BY <1>5, <2>1 DEF InPush, Pushes
    <3>2. PICK k \in 2 .. 5 : todo = LineFrom(k) /\ now = read_line[k]
      BY <3>1, LineHeads DEF InLine
    <3>3. k = 5
      BY <1>5, <3>2, LineOperations
    <3>4. todo' = LineFrom(6) /\ todo' # <<>> /\ Head(todo') = read_line[6]
      <4>1. 5 \in 1 .. 8 /\ 6 \in 1 .. 8 /\ 5 + 1 = 6
        OBVIOUS
      <4> QED
        BY <1>1, <3>2, <3>3, <4>1, LineStep
    <3>5. now'.op = "push_back" /\ now'.p = "list" /\ now'.x = "i" /\ now.x = "list"
      BY <3>2, <3>3, <3>4, LineOperations DEF now
    <3>6. loc'["list"] = Last(registers) /\ ("i" \in DOMAIN loc => loc'["i"] = loc["i"])
      BY <1>1, <1>5, <3>5 DEF Fetched
    <3>7. i = Last(registers) \/ ("i" \in DOMAIN loc /\ i = loc["i"])
      <4>1. todo \notin {LineFrom(2), LineFrom(3)}
        <5>1. ASSUME NEW j \in {2, 3}, todo = LineFrom(j) PROVE FALSE
          BY <1>5, <5>1, LineHeads, LineOperations
        <5> QED
          BY <5>1
      <4> QED
        BY <3>1, <4>1 DEF InLine
    <3>8. InPush(i)'
      BY <3>4, <3>5, <3>6, <3>7 DEF InPush, P, X, Pushes
    <3> QED
      BY <3>8 DEF Placed
  <2> QED
    BY <1>3, <2>1, GreenStays
<1> QED
  BY <1>4, <1>5

LEMMA KeepGreen ==
  ASSUME NEW K, NEW o, NEW c, Shape(K, o, c), GreenHeld, Keep
  PROVE  GreenHeld'
<1>1. todo # <<>> /\ mpc = "op" /\ todo' = Tail(todo) /\ UNCHANGED <<heap, loc>>
      /\ now.op \in {"push_register", "release"}
      /\ registers' = (IF now.op = "release" THEN Front(registers) ELSE Append(registers, P))
  BY DEF Keep, In, At, Finish
<1>2. SameStacks /\ \A i \in Addr : UsedGreen(i)' => UsedGreen(i)
  BY <1>1 DEF SameStacks, Shape, Roots0, UsedGreen
<1>3. CASE now.op = "release"
  BY <1>1, <1>2, <1>3, GreenElsewhere DEF LineOps, Pushes
<1>4. CASE now.op = "push_register"
  <2>1. ASSUME NEW i \in Addr, InPush(i) \/ InLine(i) PROVE Placed(i)'
    <3>1. InLine(i)
      BY <1>4, <2>1 DEF InPush, Pushes
    <3>2. PICK k \in 2 .. 5 : todo = LineFrom(k) /\ now = read_line[k]
      BY <3>1, LineHeads DEF InLine
    <3>3. k \in {2, 3}
      BY <1>4, <3>2, LineOperations
    <3>4. todo' = LineFrom(k + 1) /\ LineFrom(k + 1)' = LineFrom(k + 1)
      <4>1. k \in 1 .. 8 /\ k + 1 \in 1 .. 9
        OBVIOUS
      <4> QED
        BY <1>1, <3>2, <4>1, LineStep, LineConstant
    <3>5. now.p = "list"
      BY <3>2, <3>3, LineOperations
    <3>6. \A j \in {4, 5} : todo # LineFrom(j)
      <4>1. ASSUME NEW j \in {4, 5}, todo = LineFrom(j) PROVE FALSE
        BY <1>4, <4>1, LineHeads, LineOperations
      <4> QED
        BY <4>1
    <3>7. "list" \in DOMAIN loc /\ i = loc["list"]
      BY <3>1, <3>6 DEF InLine
    <3>8. CASE k = 2
      <4>1. todo' = LineFrom(3)' /\ "list" \in DOMAIN loc' /\ i = loc'["list"]
        BY <1>1, <3>4, <3>7, <3>8
      <4> QED
        BY <4>1 DEF Placed, InLine
    <3>9. CASE k = 3
      <4>1. todo' = LineFrom(4)'
        BY <3>4, <3>9
      <4>2. registers' = Append(registers, i) /\ registers \in Seq(K)
        BY <1>1, <1>4, <3>5, <3>7 DEF P, Shape, Roots0
      <4>3. registers' # <<>> /\ Last(registers') = i
        <5>1. /\ Len(registers') = Len(registers) + 1 /\ Len(registers) \in Nat
              /\ registers'[Len(registers) + 1] = i
          BY <4>2
        <5> QED
          BY <5>1 DEF Last
      <4> QED
        BY <4>1, <4>3 DEF Placed, InLine
    <3> QED
      BY <3>3, <3>8, <3>9
  <2> QED
    BY <1>2, <2>1, GreenStays
<1> QED
  BY <1>1, <1>3, <1>4

(* A new chunk is a node, or else it is pushed next. *)
LEMMA AllocateGreen ==
  ASSUME NEW K, NEW o, NEW c, Shape(K, o, c), FreeIsFree, GreenHeld, NewSent, Allocate
  PROVE  GreenHeld'
<1>1. PICK n : n = free_list
  OBVIOUS
<1>2. /\ Adds1(K, n) /\ SameStacks /\ UNCHANGED registers
      /\ now.op \in Pushes => heap'[n].type = "node" /\ todo' = todo /\ loc' = loc
      /\ now.op = "new" => /\ todo' = Tail(todo)
                           /\ loc' = [y \in DOMAIN loc \cup {now.x} |-> IF y = now.x THEN n ELSE loc[y]]
  <2>1. /\ Adds1(K, n) /\ SameStacks
        /\ heap'[n] = Filled /\ UNCHANGED <<cpc, chunk, scan, bindings, registers, hook>>
        /\ now.op \in Pushes => /\ heap'[n].type = "node" /\ mpc' = "link" /\ todo' = todo /\ node' = n /\ loc' = loc
        /\ now.op = "new" => /\ heap'[n].type = now.p /\ mpc' = "op" /\ todo' = Tail(todo) /\ node' = NULL
                             /\ loc' = [y \in DOMAIN loc \cup {now.x} |-> IF y = now.x THEN n ELSE loc[y]]
                             /\ \E d : TypedNew(Plain, now, c, d)
    BY <1>1, AllocateAdds
  <2> QED
    BY <2>1
<1>3. now.op \in {"new"} \cup Pushes /\ todo # <<>>
  BY AtAllocation DEF Allocate
<1>4. n \in Addr /\ \A i \in Addr : i # n => (UsedGreen(i)' <=> UsedGreen(i))
  BY <1>2 DEF Adds1, UsedGreen
<1>5. SUFFICES ASSUME NEW i \in Addr, UsedGreen(i)' PROVE Placed(i)'
  BY DEF GreenHeld, Addr
<1>6. i # n => Placed(i)
  BY <1>4, <1>5 DEF GreenHeld
<1>7. CASE now.op \in Pushes
  <2>1. i # n
    BY <1>2, <1>5, <1>7 DEF UsedGreen
  <2>2. UNCHANGED <<todo, loc, registers>>
    BY <1>2, <1>7
  <2> QED
    BY <1>6, <2>1, <2>2 DEF Placed, InPush, InLine, LineFrom, now, P, X
<1>8. CASE now.op = "new"
  <2>1. todo' = Tail(todo) /\ loc' = [y \in DOMAIN loc \cup {now.x} |-> IF y = now.x THEN n ELSE loc[y]]
    BY <1>2, <1>8
  <2>2. CASE i = n
    <3>1. CASE \E k \in 1 .. 9 : todo = LineFrom(k)
      <4>1. PICK k \in 1 .. 9 : todo = LineFrom(k)
        BY <3>1
      <4>2. k \in {1, 4} /\ now = read_line[k]
        <5>1. k # 9
          <6>1. PICK T : read_line \in Seq(T)
            BY LineOperations
          <6>2. LineFrom(9) = <<>>
            BY <6>1, LineOperations DEF LineFrom
          <6> QED
            BY <1>3, <4>1, <6>2
        <5>2. k \in 1 .. 8
          BY <5>1
        <5>3. now = read_line[k]
          BY <4>1, <5>2, LineStep DEF now
        <5> QED
          BY <1>8, <5>2, <5>3, LineOperations DEF Pushes
      <4>3. todo' = LineFrom(k + 1) /\ LineFrom(k + 1)' = LineFrom(k + 1)
        <5>1. k \in 1 .. 8 /\ k + 1 \in 1 .. 9
          BY <4>2
        <5> QED
          BY <2>1, <4>1, <5>1, LineStep, LineConstant
      <4>4. CASE k = 1
        <5>1. todo' = LineFrom(2)' /\ now.x = "list"
          BY <4>2, <4>3, <4>4, LineOperations
        <5>2. "list" \in DOMAIN loc' /\ loc'["list"] = n
          BY <2>1, <5>1
        <5> QED
          BY <2>2, <5>1, <5>2 DEF Placed, InLine
      <4>5. CASE k = 4
        <5>1. todo' = LineFrom(5)' /\ now.x = "i"
          BY <4>2, <4>3, <4>5, LineOperations
        <5>2. "i" \in DOMAIN loc' /\ loc'["i"] = n
          BY <2>1, <5>1
        <5> QED
          BY <2>2, <5>1, <5>2 DEF Placed, InLine
      <4> QED
        BY <4>2, <4>4, <4>5
    <3>2. CASE (\E T : todo \in Seq(T)) /\ Sends(todo)
      <4>1. PICK T : todo \in Seq(T)
        BY <3>2
      <4>2. Len(todo) \in Nat /\ 1 \in 1 .. Len(todo) /\ now = todo[1]
        BY <1>3, <4>1 DEF now
      <4>3. 1 < Len(todo) /\ todo[1 + 1].op \in Pushes /\ todo[1 + 1].x = now.x
        BY <1>8, <3>2, <4>2 DEF Sends
      <4>4. todo' # <<>> /\ now' = todo[1 + 1]
        <5>1. PICK r : r = Tail(todo)
          OBVIOUS
        <5>2. r \in Seq(T) /\ Len(r) = Len(todo) - 1 /\ \A k \in 1 .. Len(r) : r[k] = todo[k + 1]
          BY <1>3, <4>1, <5>1, TailFacts
        <5>3. 1 \in 1 .. Len(r)
          BY <4>2, <4>3, <5>2
        <5>4. r # <<>> /\ Head(r) = r[1] /\ r[1] = todo[1 + 1]
          BY <5>2, <5>3
        <5> QED
          BY <2>1, <5>1, <5>4 DEF now
      <4>5. loc'[now'.x] = n
        BY <2>1, <4>3, <4>4
      <4>6. InPush(n)'
        BY <4>3, <4>4, <4>5 DEF InPush, X, Pushes
      <4> QED
        BY <2>2, <4>6 DEF Placed
    <3> QED
      BY <3>1, <3>2 DEF NewSent
  <2>3. CASE i # n
    <3>1. i \in {loc.ds, loc.cs} \/ InLine(i)
      BY <1>6, <1>8, <2>3 DEF Placed, InPush, Pushes
    <3>2. CASE i \in {loc.ds, loc.cs}
      BY <1>2, <3>2 DEF SameStacks, Placed
    <3>3. CASE InLine(i)
      <4>1. PICK k \in 2 .. 5 : todo = LineFrom(k) /\ now = read_line[k]
        BY <3>3, LineHeads DEF InLine
      <4>2. k = 4
        BY <1>8, <4>1, LineOperations
      <4>3. \A j \in {2, 3, 5} : todo # LineFrom(j)
        <5>1. ASSUME NEW j \in {2, 3, 5}, todo = LineFrom(j) PROVE FALSE
          BY <1>8, <5>1, LineHeads, LineOperations
        <5> QED
          BY <5>1
      <4>4. registers # <<>> /\ i = Last(registers)
        BY <3>3, <4>3 DEF InLine
      <4>5. todo' = LineFrom(5)'
        <5>1. 4 \in 1 .. 8 /\ 4 + 1 = 5 /\ 5 \in 1 .. 9
          OBVIOUS
        <5> QED
          BY <2>1, <4>1, <4>2, <5>1, LineStep, LineConstant
      <4>6. registers' = registers
        BY <1>2
      <4> QED
        BY <4>4, <4>5, <4>6 DEF Placed, InLine
    <3> QED
      BY <3>1, <3>2, <3>3
  <2> QED
    BY <2>2, <2>3
<1> QED
  BY <1>3, <1>7, <1>8

LEMMA CallGreen ==
  ASSUME NEW K, NEW o, NEW c, Shape(K, o, c), GreenHeld, Call
  PROVE  GreenHeld'
<1>1. todo = <<>> /\ loc' = [x \in {"cs", "ds"} |-> loc[x]] /\ UNCHANGED heap
  BY DEF Call, Idle
<1>2. SameStacks /\ \A i \in Addr : UsedGreen(i)' => UsedGreen(i)
  BY <1>1 DEF SameStacks, UsedGreen
<1> QED
  BY <1>1, <1>2, GreenElsewhere

LEMMA PushOverGreen ==
  ASSUME NEW K, NEW o, NEW c, Shape(K, o, c), GreenHeld, PushSeen, LinkLast
  PROVE  GreenHeld'
<1>1. todo # <<>> /\ mpc = "last" /\ UNCHANGED <<loc>> /\ ~ Hooking /\ now.op \in Pushes
  BY DEF LinkLast, At, Hooking, Shape, Control, HasNode, Linking
<1>2. SameStacks
  BY <1>1 DEF SameStacks, Shape, Roots0
<1>3. \A i \in Addr : UsedGreen(i)' => UsedGreen(i)
  <2>1. ~ Allocate /\ MutatorStep
    BY <1>1 DEF Allocate, Allocating, At, In, MutatorStep
  <2> QED
    BY <2>1, MutatorWrites, GreenWrites
<1>4. ASSUME NEW i, UsedGreen(i) PROVE ~ (InPush(i) \/ InLine(i))
  <2>1. ~ InPush(i)
    BY <1>1, <1>4 DEF PushSeen, InPush, UsedGreen
  <2>2. ~ InLine(i)
    BY <1>1, InLineHeads DEF LineOps, Pushes
  <2> QED
    BY <2>1, <2>2
<1> QED
  BY <1>2, <1>3, <1>4, GreenStays

(* An operation that neither pushes nor is one of the first of read_line *)
LEMMA OthersGreen ==
  ASSUME NEW K, NEW o, NEW c, Shape(K, o, c), GreenHeld, Unlink \/ UnlinkLast \/ BindSymbol
  PROVE  GreenHeld'
<1>1. todo # <<>> /\ mpc \in {"op", "unlink", "unlink_last"} /\ now.op \in {"pop_to_register", "pop_front", "bind"}
  BY DEF Unlink, UnlinkLast, BindSymbol, At, In, Shape, Control
<1>2. \A i \in Addr : UsedGreen(i)' => UsedGreen(i)
  <2>1. ~ Allocate /\ MutatorStep
    BY <1>1 DEF Allocate, Allocating, At, In, MutatorStep
  <2> QED
    BY <2>1, MutatorWrites, GreenWrites
<1>3. SameStacks
  <2>1. CASE UNCHANGED loc
    BY <2>1 DEF SameStacks, Shape, Roots0
  <2>2. CASE loc' # loc
    <3>1. Unlink /\ now.op = "pop_to_register" /\ heap[P].a # NULL /\ mpc # "unlink_last"
      <4>1. Unlink /\ heap[P].a # NULL /\ now.op # "pop_front"
        BY <2>2 DEF Unlink, UnlinkLast, BindSymbol
      <4> QED
        BY <4>1, AtUnlink
    <3>2. PICK v : loc' = [y \in DOMAIN loc \cup {now.x} |-> IF y = now.x THEN v ELSE loc[y]]
      BY <3>1 DEF Unlink, Assign
    <3>3. OwnLocal(now.x)
      <4>1. PICK d : Typed(Plain, now, c, d)
        BY <1>1, <3>1, TypedNow DEF Shape
      <4> QED
        BY <3>1, <4>1, TypedAs DEF TypedPop, Assigns
    <3> QED
      BY <3>2, <3>3 DEF SameStacks, OwnLocal, Stacks, Shape, Roots0
  <2> QED
    BY <2>1, <2>2
<1> QED
  BY <1>1, <1>2, <1>3, GreenElsewhere DEF LineOps, Pushes

LEMMA WithinGreen ==
  ASSUME NEW K, NEW o, NEW c, Shape(K, o, c), GreenHeld,
         \/ HookRead \/ HookDarken \/ HookBlacken \/ StartPush \/ LinkFront \/ LinkHook \/ LinkBack \/ StartPop
         \/ RunOut \/ Resume \/ Retry \/ GiveUp
  PROVE  GreenHeld'
<1>1. {"ds", "cs"} \subseteq DOMAIN loc
  BY DEF Shape, Roots0
<1>2. \A i \in Addr : UsedGreen(i)' => UsedGreen(i)
  <2>1. ~ Allocate \/ UNCHANGED heap
    <3>1. CASE RunOut \/ Resume \/ Retry \/ GiveUp
      BY <3>1 DEF RunOut, Resume, Retry, GiveUp
    <3>2. CASE ~ (RunOut \/ Resume \/ Retry \/ GiveUp)
      <4>1. mpc = "op" => todo # <<>> /\ now.op \in Pushes \cup {"pop_to_register"}
        BY <3>2 DEF HookRead, HookDarken, HookBlacken, StartPush, LinkFront, LinkHook, LinkBack, StartPop, At, In, Pushes
      <4>2. mpc # "alloc"
        BY <3>2 DEF HookRead, HookDarken, HookBlacken, StartPush, LinkFront, LinkHook, LinkBack, StartPop, At, In
      <4> QED
        BY <4>1, <4>2 DEF Allocate, Allocating, At, In, Pushes
    <3> QED
      BY <3>1, <3>2
  <2>2. CASE ~ Allocate
    BY <2>2, MutatorWrites, GreenWrites DEF MutatorStep
  <2>3. CASE UNCHANGED heap
    BY <2>3 DEF UsedGreen
  <2> QED
    BY <2>1, <2>2, <2>3
<1>3. UNCHANGED <<todo, loc>>
  <2>1. CASE HookRead \/ HookDarken \/ HookBlacken
    BY <2>1 DEF HookRead, HookDarken, HookBlacken, Goes, Stay
  <2>2. CASE StartPush \/ LinkHook \/ StartPop
    BY <2>2 DEF StartPush, LinkHook, StartPop, PushHook, PopHook, Hook, Goes, Stay
  <2>3. CASE LinkFront \/ LinkBack
    BY <2>3 DEF LinkFront, LinkBack, Stay
  <2>4. CASE RunOut \/ Resume \/ Retry \/ GiveUp
    BY <2>4 DEF RunOut, Resume, Retry, GiveUp, Stay, opVars
  <2> QED
    BY <2>1, <2>2, <2>3, <2>4
<1>4. registers' = registers \/ (todo # <<>> /\ now.op \in Pushes)
  <2>1. CASE RunOut \/ Resume
    <3>1. todo # <<>> /\ mpc # "unlink_last" /\ mpc \in {"op", "alloc", "granted"}
      BY <2>1 DEF RunOut, Resume, Allocating, At, In
    <3>2. now.op \in {"new"} \cup Pushes
      <4>1. now.op \in Pushes \cup {"pop_to_register", "pop_front", "new", "push_register", "release",
                                    "pop_register", "front", "dereference", "bind"}
        BY <3>1, NextOperation DEF Shape
      <4>2. now.op \in {"new", "new_block"} \cup Pushes
        BY <2>1 DEF RunOut, Resume, Allocating, At, In, Shape, Control
      <4> QED
        BY <4>1, <4>2 DEF Pushes
    <3>3. CASE now.op = "new"
      <4>1. Held = <<>> /\ registers \in Seq(K)
        BY <3>1, <3>3, HeldKnown DEF Shape, Roots0
      <4>2. registers' = registers \o <<>> \/ registers' = SubSeq(registers, 1, Len(registers) - 0)
        BY <2>1, <4>1 DEF RunOut, Resume
      <4> QED
        BY <4>1, <4>2
    <3> QED
      BY <3>1, <3>2, <3>3
  <2>2. CASE ~ (RunOut \/ Resume)
    BY <2>2 DEF HookRead, HookDarken, HookBlacken, StartPush, LinkHook, StartPop, LinkFront, LinkBack, Retry, GiveUp
  <2> QED
    BY <2>1, <2>2
<1> QED
  BY <1>1, <1>2, <1>3, <1>4, GreenSame

LEMMA MutatorGreen ==
  ASSUME NEW K, NEW o, NEW c, Shape(K, o, c), FreeIsFree, GreenHeld, PushSeen, NewSent, MutatorStep
  PROVE  GreenHeld'
<1>1. ~ MoveCurrent /\ ~ Exit
  BY NoBlockSteps
<1> QED
  BY <1>1, WithinGreen, PushOverGreen, OthersGreen, AllocateGreen, FetchGreen, KeepGreen DEF MutatorStep

(* What the collector leaves green was green before, or it is free. *)
LEMMA CollectorGreens ==
  ASSUME NEW K, NEW o, NEW c, Shape(K, o, c), CollectorInRange, CollectorStep
  PROVE  /\ \A i \in Addr : UsedGreen(i)' => UsedGreen(i)
         /\ \A i \in Addr : heap'[i].colour = green => heap[i].colour = green \/ (heap[i].colour = white /\ Build)
<1>1. CASE ~ Build
  <2>1. UsedOnly
    BY <1>1, CollectorWrites
  <2>2. \A i \in Addr : UsedGreen(i)' => UsedGreen(i)
    BY <2>1, GreenWrites
  <2>3. \A i \in Addr : heap'[i].colour = green => heap[i].colour = green
    BY <2>1 DEF UsedOnly
  <2> QED
    BY <2>2, <2>3
<1>2. CASE Build
  <2>1. UNCHANGED heap \/ (heap[scan].colour = white /\ heap' = [heap EXCEPT ![scan] = FreeChunk(collector_list)])
    BY <1>2 DEF Build, Builds
  <2>2. ASSUME NEW i \in Addr PROVE heap'[i] = heap[i] \/ (heap'[i].type = "free" /\ heap[i].colour = white)
    BY <2>1 DEF FreeChunk, Shape, SwapInv, HeapOfRecords
  <2> QED
    BY <1>2, <2>2 DEF UsedGreen
<1> QED
  BY <1>1, <1>2

LEMMA CollectorGreen ==
  ASSUME NEW K, NEW o, NEW c, Shape(K, o, c), CollectorInRange, GreenHeld, CollectorStep
  PROVE  GreenHeld'
<1>1. {"ds", "cs"} \subseteq DOMAIN loc
  BY DEF Shape, Roots0
<1>2. UNCHANGED <<todo, loc, registers>>
  BY DEF CollectorStep, Handover, HandsOver, MarkRoot, FindHere, FindNext, FindPassOver, DarkenFirst, DarkenSecond, Darken,
         DarkenWrite, Blacken, Build, Builds, BuildOver, Marking, MutatorIdle, opVars
<1> QED
  BY <1>1, <1>2, CollectorGreens, GreenSame

LEMMA ClientGreen ==
  ASSUME NEW K, NEW o, NEW c, Shape(K, o, c), GreenHeld, Call \/ Fail \/ Return \/ UNCHANGED gcVars
  PROVE  GreenHeld'
<1>1. CASE Call
  BY <1>1, CallGreen
<1>2. CASE Fail \/ Return \/ UNCHANGED gcVars
  <2>1. UNCHANGED <<heap, todo, loc, registers>> /\ {"ds", "cs"} \subseteq DOMAIN loc
    BY <1>2 DEF Fail, Return, gcVars, opVars, Shape, Roots0
  <2>2. \A i \in Addr : UsedGreen(i)' => UsedGreen(i)
    BY <2>1 DEF UsedGreen
  <2> QED
    BY <2>1, <2>2, GreenSame
<1> QED
  BY <1>1, <1>2

(* New chunks go on being sent. *)
LEMMA NewSentStays ==
  ASSUME NEW K, NEW o, NEW c, Shape(K, o, c), NewSent, [Next]_vars
  PROVE  NewSent'
<1>0. UNCHANGED todo => NewSent'
  BY DEF NewSent, LineFrom, Sends
<1>1. CASE MutatorStep
  <2>1. CASE HookRead \/ HookDarken \/ HookBlacken
    BY <1>0, <2>1 DEF HookRead, HookDarken, HookBlacken, Goes, Stay
  <2>2. CASE StartPush \/ LinkHook \/ StartPop
    BY <1>0, <2>2 DEF StartPush, LinkHook, StartPop, PushHook, PopHook, Hook, Goes, Stay
  <2>3. CASE LinkFront \/ LinkBack \/ RunOut \/ Resume \/ Retry \/ GiveUp \/ Exit
    BY <1>0, <2>3 DEF LinkFront, LinkBack, RunOut, Resume, Retry, GiveUp, Exit, Stay, opVars
  <2>4. CASE LinkLast \/ Unlink \/ UnlinkLast \/ Allocate \/ Fetch \/ Keep \/ BindSymbol \/ MoveCurrent
    <3>1. todo # <<>> /\ (todo' = todo \/ todo' = Tail(todo))
      BY <2>4 DEF LinkLast, Unlink, UnlinkLast, Allocate, Allocating, Fetch, Keep, BindSymbol, MoveCurrent, At, In, Stay, Finish
    <3> QED
      BY <1>0, <3>1, TailSends
  <2> QED
    BY <1>1, <2>1, <2>2, <2>3, <2>4 DEF MutatorStep
<1>2. CASE CollectorStep
  BY <1>0, <1>2 DEF CollectorStep, Handover, HandsOver, MarkRoot, FindHere, FindNext, FindPassOver, DarkenFirst, DarkenSecond,
         Darken, DarkenWrite, Blacken, Build, Builds, BuildOver, Marking, MutatorIdle, opVars
<1>3. CASE Call
  <2>1. PICK name \in Calls : \E ops \in Statements(name) : todo' = ops
    BY <1>3 DEF Call
  <2>2. PICK ops \in Statements(name) : todo' = ops
    BY <2>1
  <2>3. mpc = "op"
    BY <1>3 DEF Call, Idle, Shape, Control
  <2>4. (\E k \in 1 .. 9 : ops = LineFrom(k)) \/ ((\E T : ops \in Seq(T)) /\ Sends(ops))
    BY <2>3, StatementSends
  <2>5. CASE \E k \in 1 .. 9 : ops = LineFrom(k)
    BY <2>2, <2>5, LineConstant DEF NewSent
  <2>6. CASE (\E T : ops \in Seq(T)) /\ Sends(ops)
    BY <2>2, <2>6 DEF NewSent
  <2> QED
    BY <2>4, <2>5, <2>6
<1>4. CASE Fail \/ Return \/ UNCHANGED gcVars
  BY <1>0, <1>4 DEF Fail, Return, gcVars, opVars
<1> QED
  BY <1>1, <1>2, <1>3, <1>4 DEF Next, Mutator, Collector, Ended, vars

-----------------------------------------------------------------------------
(* Nothing a push works on turns green again.                               *)

PushStays ==
  todo # <<>> /\ now.op \in Pushes /\ mpc # "op" =>
    /\ heap'[P].colour = green => heap[P].colour = green
    /\ heap'[X].colour = green => heap[X].colour = green

LEMMA PushAt ==
  ASSUME NEW K, NEW o, NEW c, Shape(K, o, c), todo # <<>>, now.op \in Pushes
  PROVE  P \in K /\ X \in K /\ K \subseteq Addr /\ mpc \notin {"unlink", "unlink_last"}
<1>1. mpc \notin {"unlink", "unlink_last"}
  BY DEF Shape, Control, Pushes
<1>2. P \in Lists(K) /\ X \in Values(K)
  BY <1>1, PushKnown DEF Shape
<1> QED
  BY <1>1, <1>2 DEF Lists, Values, Shape, Words

LEMMA MutatorPushStays ==
  ASSUME NEW K, NEW o, NEW c, Shape(K, o, c), FreeIsFree, MutatorStep
  PROVE  PushStays
<1> SUFFICES ASSUME todo # <<>>, now.op \in Pushes
             PROVE  /\ heap'[P].colour = green => heap[P].colour = green
                    /\ heap'[X].colour = green => heap[X].colour = green
  BY DEF PushStays
<1>1. P \in K /\ X \in K /\ K \subseteq Addr
  BY PushAt
<1>2. CASE ~ Allocate
  BY <1>1, <1>2, MutatorWrites DEF UsedOnly
<1>3. CASE Allocate
  <2>1. PICK n : n = free_list
    OBVIOUS
  <2>2. Adds1(K, n)
    BY <1>3, <2>1, AllocateAdds
  <2> QED
    BY <1>1, <2>2 DEF Adds1
<1> QED
  BY <1>2, <1>3

LEMMA CollectorPushStays ==
  ASSUME NEW K, NEW o, NEW c, NEW S, Sound(K, o, c, S), CollectorStep
  PROVE  PushStays
<1> SUFFICES ASSUME todo # <<>>, now.op \in Pushes
             PROVE  /\ heap'[P].colour = green => heap[P].colour = green
                    /\ heap'[X].colour = green => heap[X].colour = green
  BY DEF PushStays
<1>1. Shape(K, o, c) /\ CollectorInRange
  BY DEF Sound
<1>2. P \in K /\ X \in K /\ K \subseteq Addr
  BY <1>1, PushAt
<1>3. ASSUME Build, NEW i \in K PROVE heap[i].colour # white
  <2>1. ~ Marks
    BY <1>3 DEF Build, Builds, Marks
  <2> QED
    BY <1>3, <2>1 DEF Sound, NoWhite
<1> QED
  BY <1>1, <1>2, <1>3, CollectorGreens

(* The hook is over, or it has not come to the allocation. *)
LEMMA SeenStays ==
  ASSUME PushSeen, PushStays, UNCHANGED <<todo, loc>>, mpc' # "op" => mpc # "op",
         Hooking /\ hook.then = "alloc" => Hooking' /\ hook' = hook
  PROVE  PushSeen'
<1> SUFFICES ASSUME todo' # <<>>, now'.op \in Pushes, mpc' # "op"
             PROVE  /\ heap'[P'].colour = green => Hooking' /\ hook'.then = "alloc" /\ P' \in Range(hook'.darken)
                    /\ heap'[X'].colour = green => Hooking' /\ hook'.then = "alloc" /\ X' \in Range(hook'.darken) \cup {hook'.blacken}
  BY DEF PushSeen, Pushes
<1>1. todo # <<>> /\ now' = now /\ now.op \in Pushes /\ mpc # "op" /\ P' = P /\ X' = X
  BY DEF now, P, X
<1>2. /\ heap[P].colour = green => Hooking /\ hook.then = "alloc" /\ P \in Range(hook.darken)
      /\ heap[X].colour = green => Hooking /\ hook.then = "alloc" /\ X \in Range(hook.darken) \cup {hook.blacken}
  BY <1>1 DEF PushSeen
<1>3. /\ heap'[P].colour = green => heap[P].colour = green
      /\ heap'[X].colour = green => heap[X].colour = green
  BY <1>1 DEF PushStays
<1> QED
  BY <1>1, <1>2, <1>3

(* What the hook of a push has to look at *)
Covers(h) ==
  /\ heap[P].colour = green => P \in Range(h.darken)
  /\ heap[X].colour = green => X \in Range(h.darken) \cup {h.blacken}

LEMMA CoversSeen ==
  ASSUME NEW h, Goes(h), h.then = "alloc", Covers(h)', UNCHANGED <<todo, loc>>, NULL \notin {P, X}
  PROVE  PushSeen'
<1>1. P' = P /\ X' = X
  BY DEF P, X, now
<1>2. /\ heap'[P].colour = green => P \in Range(h.darken)
      /\ heap'[X].colour = green => X \in Range(h.darken) \cup {h.blacken}
  BY <1>1 DEF Covers
<1>3. CASE h.darken = <<>> /\ h.blacken = NULL
  <2>1. Range(h.darken) = {}
    BY <1>3 DEF Range
  <2>2. heap'[P].colour # green /\ heap'[X].colour # green
    BY <1>2, <1>3, <2>1
  <2> QED
    BY <1>1, <2>2 DEF PushSeen
<1>4. CASE ~ (h.darken = <<>> /\ h.blacken = NULL)
  <2>1. mpc' = "hook" /\ hook' = h
    BY <1>4 DEF Goes, Stay
  <2> QED
    BY <1>1, <1>2, <2>1 DEF PushSeen, Hooking
<1> QED
  BY <1>3, <1>4

LEMMA StartSeen ==
  ASSUME NEW K, NEW o, NEW c, Shape(K, o, c), StartPush
  PROVE  PushSeen'
<1>1. todo # <<>> /\ now.op \in Pushes /\ PushHook(P, X, "alloc") /\ UNCHANGED <<heap, loc>>
  BY DEF StartPush, In, At, Pushes
<1>2. P \in K /\ X \in K /\ K \subseteq Addr /\ NULL \notin Addr
  BY <1>1, PushAt DEF Addr, NULL
<1>3. Ranges /\ AllClosed(heap, K)
  <2>1. AllClosed(heap, K)
    BY DEF Shape, Words, AllClosed, Nodes, Lists, Values, OrNull
  <2> QED
    BY <2>1 DEF Shape
<1>4. PICK a, l, d : a = LooksAfter(X) /\ l = Looks(P) /\ d = Looks(X)
  OBVIOUS
<1>5. PICK e : e = LooksAfter(P)
  OBVIOUS
<1>6. a \in Seq(K) /\ e \in Seq(K) /\ l \in Seq(K) /\ d \in Seq(K)
  <2>1. P \in OrNull(K) /\ X \in OrNull(K)
    BY <1>2 DEF OrNull
  <2> QED
    BY <1>2, <1>3, <1>4, <1>5, <2>1, LooksIn, LooksAfterIn
<1>7. /\ heap[P].colour = green => P \in Range(l)
      /\ heap[X].colour = green => X \in Range(d)
  <2>1. ASSUME NEW i \in Addr, heap[i].colour = green PROVE i \in Range(Looks(i))
    <3>1. Looks(i) = <<i>>
      BY <1>2, <2>1 DEF Looks, Darkens
    <3> QED
      BY <3>1 DEF Range
  <2> QED
    BY <1>2, <1>4, <2>1
<1>8. CASE heap[X].colour = green
  <2>1. PICK s : s = a \o l \o e
    OBVIOUS
  <2>2. Range(l) \subseteq Range(s)
    <3>1. PICK t : t = a \o l
      OBVIOUS
    <3>2. t \in Seq(K) /\ Range(l) \subseteq Range(t)
      BY <1>6, <3>1, RangeOfJoin
    <3>3. s = t \o e
      BY <2>1, <3>1
    <3> QED
      BY <1>6, <3>2, <3>3, RangeOfJoin
  <2>3. PICK h : h = [darken |-> s, blacken |-> X, then |-> "alloc"]
    OBVIOUS
  <2>4. Goes(h)
    BY <1>1, <1>4, <1>5, <1>8, <2>1, <2>3 DEF PushHook, Hook
  <2>5. h.then = "alloc" /\ h.blacken = X /\ Range(l) \subseteq Range(h.darken) /\ todo' = todo
    BY <2>2, <2>3, <2>4 DEF Goes, Stay
  <2>6. Covers(h)'
    BY <1>1, <1>7, <2>5 DEF Covers, P, X, now
  <2> QED
    BY <1>1, <1>2, <2>4, <2>5, <2>6, CoversSeen
<1>9. CASE heap[X].colour # green
  <2>1. PICK s : s = l \o e \o d
    OBVIOUS
  <2>2. Range(l) \subseteq Range(s)
    <3>1. PICK t : t = l \o e
      OBVIOUS
    <3>2. t \in Seq(K) /\ Range(l) \subseteq Range(t)
      BY <1>6, <3>1, RangeOfJoin
    <3>3. s = t \o d
      BY <2>1, <3>1
    <3> QED
      BY <1>6, <3>2, <3>3, RangeOfJoin
  <2>3. PICK h : h = [darken |-> s, blacken |-> NULL, then |-> "alloc"]
    OBVIOUS
  <2>4. Goes(h)
    BY <1>1, <1>4, <1>5, <1>9, <2>1, <2>3 DEF PushHook, Hook
  <2>5. h.then = "alloc" /\ Range(l) \subseteq Range(h.darken) /\ todo' = todo
    BY <2>2, <2>3, <2>4 DEF Goes, Stay
  <2>6. Covers(h)'
    BY <1>1, <1>7, <1>9, <2>5 DEF Covers, P, X, now
  <2> QED
    BY <1>1, <1>2, <2>4, <2>5, <2>6, CoversSeen
<1> QED
  BY <1>8, <1>9

LEMMA HookSeen ==
  ASSUME NEW K, NEW o, NEW c, Shape(K, o, c), PushSeen, hook.then = "alloc", HookRead \/ HookDarken \/ HookBlacken
  PROVE  PushSeen'
<1>1. Hooking /\ mpc # "op" /\ todo # <<>> /\ UNCHANGED loc
  BY DEF HookRead, HookDarken, HookBlacken, At, Hooking
<1>2. now.op \in Pushes
  BY <1>1 DEF Shape, Control
<1>3. P \in K /\ X \in K /\ K \subseteq Addr /\ NULL \notin {P, X}
  BY <1>1, <1>2, PushAt DEF Addr, NULL
<1>4. Covers(hook)
  BY <1>1, <1>2 DEF PushSeen, Covers
<1>5. hook.darken \in Seq(K) /\ DOMAIN heap = Addr
  BY <1>1, HookInHooks DEF Shape, Hooks, SwapInv, HeapOfRecords
<1>6. ASSUME hook.darken # <<>>, NEW x, x = Head(hook.darken), NEW t, t = Tail(hook.darken)
      PROVE  Range(hook.darken) \subseteq Range(t) \cup {x} /\ x \in K
  <2>1. PICK s : s = hook.darken
    OBVIOUS
  <2>2. s \in Seq(K) /\ s # <<>> /\ x = Head(s) /\ t = Tail(s)
    BY <1>5, <1>6, <2>1
  <2>3. ASSUME NEW y \in Range(s) PROVE y \in Range(t) \cup {x}
    <3>1. PICK k \in 1 .. Len(s) : y = s[k]
      BY <2>2 DEF Range
    <3>2. Len(s) \in Nat /\ Head(s) = s[1] /\ t \in Seq(K) /\ Len(t) = Len(s) - 1 /\ \A j \in 1 .. Len(t) : t[j] = s[j + 1]
      BY <2>2, TailFacts
    <3>3. CASE k = 1
      BY <2>2, <3>1, <3>2, <3>3
    <3>4. CASE k # 1
      <4>1. k - 1 \in 1 .. Len(t) /\ k - 1 + 1 = k
        BY <3>2, <3>4
      <4>2. t[k - 1] = y
        BY <3>1, <3>2, <4>1
      <4> QED
        BY <3>2, <4>1, <4>2 DEF Range
    <3> QED
      BY <3>3, <3>4
  <2> QED
    BY <2>1, <2>2, <2>3
<1>7. CASE HookRead \/ HookDarken
  <2>1. hook.darken # <<>>
    <3>1. HookDarken => mpc = "darken"
      BY DEF HookDarken, At
    <3> QED
      BY <1>7, <3>1 DEF HookRead, Shape, Control
  <2>2. PICK x, t : x = Head(hook.darken) /\ t = Tail(hook.darken)
    OBVIOUS
  <2>3. Range(hook.darken) \subseteq Range(t) \cup {x} /\ x \in K
    BY <1>6, <2>1, <2>2
  <2>4. PICK h : h = [hook EXCEPT !.darken = Tail(@)]
    OBVIOUS
  <2>5. h.then = "alloc" /\ h.darken = t /\ h.blacken = hook.blacken
    BY <2>2, <2>4 DEF Shape, SwapInv, HookReturns
  <2>6. CASE HookRead /\ Darkens(x)
    <3>1. UNCHANGED <<heap, todo, loc, hook>> /\ mpc' = "darken"
      BY <2>2, <2>6 DEF HookRead, Stay
    <3>2. PushStays
      BY <3>1 DEF PushStays
    <3> QED
      BY <1>1, <3>1, <3>2, SeenStays DEF Hooking
  <2>7. CASE HookRead /\ ~ Darkens(x)
    <3>1. heap' = heap /\ Goes(h) /\ todo' = todo
      BY <2>2, <2>4, <2>7 DEF HookRead, Goes, Stay
    <3>2. heap[x].colour # green
      BY <1>3, <2>3, <2>7 DEF Darkens, Addr, NULL
    <3>3. Covers(h)'
      BY <1>1, <1>4, <2>3, <2>5, <3>1, <3>2 DEF Covers, P, X, now
    <3> QED
      BY <1>1, <1>3, <2>5, <3>1, <3>3, CoversSeen
  <2>8. CASE HookDarken
    <3>1. heap' = Coloured(x, grey) /\ Goes(h) /\ todo' = todo
      BY <2>2, <2>4, <2>8 DEF HookDarken, Goes, Stay
    <3>2. \A i \in K : heap'[i].colour = green => heap[i].colour = green /\ i # x
      BY <1>3, <1>5, <3>1 DEF Coloured, grey, green, Shape, SwapInv, HeapOfRecords, Record
    <3>3. Covers(h)'
      BY <1>1, <1>3, <1>4, <2>3, <2>5, <3>1, <3>2 DEF Covers, P, X, now
    <3> QED
      BY <1>1, <1>3, <2>5, <3>1, <3>3, CoversSeen
  <2> QED
    BY <1>7, <2>6, <2>7, <2>8
<1>8. CASE HookBlacken
  <2>1. hook.darken = <<>> /\ heap' = Coloured(hook.blacken, black)
    BY <1>8 DEF HookBlacken
  <2>2. PICK h : h = [hook EXCEPT !.blacken = NULL]
    OBVIOUS
  <2>3. Goes(h) /\ todo' = todo /\ h.then = "alloc" /\ h.darken = <<>>
    BY <1>8, <2>1, <2>2 DEF HookBlacken, Goes, Stay, Shape, SwapInv, HookReturns
  <2>4. \A i \in K : heap'[i].colour = green => heap[i].colour = green /\ i # hook.blacken
    <3>1. black # green
      BY DEF Shape, SwapInv, Colours, green
    <3> QED
      BY <1>3, <1>5, <2>1, <3>1 DEF Coloured, Shape, SwapInv, HeapOfRecords, Record
  <2>5. Range(hook.darken) = {}
    BY <2>1 DEF Range
  <2>6. heap'[P].colour # green /\ heap'[X].colour # green
    BY <1>3, <1>4, <2>4, <2>5 DEF Covers
  <2>7. Covers(h)'
    BY <1>1, <2>3, <2>6 DEF Covers, P, X, now
  <2> QED
    BY <1>1, <1>3, <2>3, <2>7, CoversSeen
<1> QED
  BY <1>7, <1>8

LEMMA MutatorSeen ==
  ASSUME NEW K, NEW o, NEW c, Shape(K, o, c), FreeIsFree, PushSeen, MutatorStep
  PROVE  PushSeen'
<1>1. ~ MoveCurrent /\ ~ Exit /\ PushStays
  BY NoBlockSteps, MutatorPushStays
<1>2. mpc' = "op" => PushSeen'
  BY DEF PushSeen
<1>3. todo' = todo /\ todo # <<>> /\ now.op \notin Pushes => PushSeen'
  BY DEF PushSeen, now, Pushes
<1>4. UNCHANGED <<todo, loc>> /\ mpc # "op" /\ ~ (Hooking /\ hook.then = "alloc") => PushSeen'
  BY <1>1, SeenStays
<1>5. CASE StartPush
  BY <1>5, StartSeen
<1>6. CASE HookRead \/ HookDarken \/ HookBlacken
  <2>1. mpc # "op" /\ UNCHANGED <<todo, loc>>
    BY <1>6 DEF HookRead, HookDarken, HookBlacken, At, Goes, Stay
  <2> QED
    BY <1>4, <1>6, <2>1, HookSeen
<1>7. CASE LinkFront \/ LinkBack \/ LinkHook
  <2>1. mpc # "op" /\ UNCHANGED <<todo, loc>> /\ ~ Hooking
    BY <1>7 DEF LinkFront, LinkBack, LinkHook, At, In, Stay, PushHook, Hook, Goes, Hooking
  <2> QED
    BY <1>4, <2>1
<1>8. CASE StartPop
  <2>1. todo' = todo /\ todo # <<>> /\ now.op \notin Pushes
    BY <1>8 DEF StartPop, At, In, PopHook, Hook, Goes, Stay, Pushes
  <2> QED
    BY <1>3, <2>1
<1>9. CASE LinkLast \/ UnlinkLast \/ Fetch \/ Keep \/ BindSymbol
  BY <1>2, <1>9 DEF LinkLast, UnlinkLast, Fetch, Keep, BindSymbol, Finish
<1>10. CASE Unlink
  <2>1. todo # <<>> /\ now.op \notin Pushes /\ (mpc' = "op" \/ todo' = todo)
    <3>1. now.op \in {"pop_to_register", "pop_front"} /\ todo # <<>>
      BY <1>10, AtUnlink
    <3> QED
      BY <1>10, <3>1 DEF Unlink, Stay, Finish, Pushes
  <2> QED
    BY <1>2, <1>3, <2>1
<1>11. CASE Allocate \/ RunOut
  <2>1. todo # <<>> /\ (mpc = "alloc" \/ now.op \notin Pushes) /\ ~ (mpc = "alloc" /\ Hooking)
    BY <1>11 DEF Allocate, RunOut, Allocating, At, In, Hooking, Pushes
  <2>2. mpc' = "op" \/ UNCHANGED <<todo, loc>>
    BY <1>11 DEF Allocate, RunOut, Stay, Finish
  <2> QED
    BY <1>2, <1>3, <1>4, <2>1, <2>2
<1>12. CASE Resume \/ Retry \/ GiveUp
  <2>1. mpc # "op" /\ ~ Hooking /\ UNCHANGED <<todo, loc>>
    BY <1>12 DEF Resume, Retry, GiveUp, At, Stay, opVars, Hooking
  <2> QED
    BY <1>4, <2>1
<1> QED
  BY <1>1, <1>5, <1>6, <1>7, <1>8, <1>9, <1>10, <1>11, <1>12 DEF MutatorStep

LEMMA CollectorSeen ==
  ASSUME NEW K, NEW o, NEW c, NEW S, Sound(K, o, c, S), PushSeen, CollectorStep
  PROVE  PushSeen'
<1>1. PushStays
  BY CollectorPushStays
<1>2. UNCHANGED <<todo, loc, hook>>
  BY DEF CollectorStep, Handover, HandsOver, MarkRoot, FindHere, FindNext, FindPassOver, DarkenFirst, DarkenSecond, Darken,
         DarkenWrite, Blacken, Build, Builds, BuildOver, Marking, MutatorIdle, opVars
<1>3. mpc' = mpc \/ (mpc = "await" /\ mpc' = "granted")
  BY DEF CollectorStep, Handover, HandsOver, MarkRoot, FindHere, FindNext, FindPassOver, DarkenFirst, DarkenSecond, Darken,
         DarkenWrite, Blacken, Build, Builds, BuildOver, Marking, MutatorIdle, opVars
<1> QED
  BY <1>1, <1>2, <1>3, SeenStays DEF Hooking

LEMMA ClientSeen ==
  ASSUME NEW K, NEW o, NEW c, Shape(K, o, c), PushSeen, Call \/ Fail \/ Return \/ UNCHANGED gcVars
  PROVE  PushSeen'
<1>1. CASE Call
  <2>1. mpc' = "op"
    BY <1>1 DEF Call, Idle, Shape, Control
  <2> QED
    BY <2>1 DEF PushSeen
<1>2. CASE Fail \/ Return \/ UNCHANGED gcVars
  <2>1. UNCHANGED <<heap, todo, loc, mpc, hook>>
    BY <1>2 DEF Fail, Return, gcVars, opVars
  <2> QED
    BY <2>1, SeenStays DEF PushStays, Hooking
<1> QED
  BY <1>1, <1>2

-----------------------------------------------------------------------------
(* The whole invariant about garbage                                        *)

Reclaims ==
  /\ \E L : Holding(L)
  /\ Fades /\ FreeIsNew /\ GreenHeld /\ PushSeen /\ NewSent

(* While the heap is set up, there is nothing but the stacks. *)
OnlyStacks(b) ==
  /\ \A i \in Addr : heap[i].type # "free" => i \in 0 .. b - 1
  /\ lost = [i \in Addr |-> 0]

GarbageInv ==
  \/ \E b : Booting(b) /\ OnlyStacks(b)
  \/ (\E K, o, c, S : Sound(K, o, c, S)) /\ Reclaims

LEMMA ReclaimsStep ==
  ASSUME Listed, Queued, Moved, NEW K, NEW o, NEW c, NEW S, Sound(K, o, c, S), Reclaims, [Next]_vars
  PROVE  (\E M, q, d, T : Sound(M, q, d, T)') /\ Reclaims'
<1>1. Shape(K, o, c) /\ CollectorInRange /\ SwapInv /\ GreenHeld /\ PushSeen /\ NewSent
  BY DEF Sound, Shape, Reclaims
<1>2. FreeIsFree /\ collector_list \in Pointer
  <2>1. WellLinked(heap)
    BY <1>1, HeapWellLinked DEF Shape, SwapInv
  <2> QED
    BY <2>1, ListedFree DEF Listed, OrNull, Pointer
<1>3. (\E M : Holding(M)') /\ Fades' /\ FreeIsNew' /\ NewSent'
  <2>1. PICK L : Holding(L)
    BY DEF Reclaims
  <2>2. Fades /\ FreeIsNew
    BY DEF Reclaims
  <2>3. (\E M : Holding(M)') /\ Fades' /\ FreeIsNew'
    BY <2>1, <2>2, StepFades
  <2>4. NewSent'
    BY <1>1, NewSentStays
  <2> QED
    BY <2>3, <2>4
<1>4. ASSUME GreenHeld', PushSeen' PROVE Reclaims'
  BY <1>3, <1>4 DEF Reclaims
<1>5. CASE MutatorStep
  <2>1. \E M, q, d, T : Sound(M, q, d, T)'
    BY <1>2, <1>5, MutatorSound
  <2>2. GreenHeld' /\ PushSeen'
    BY <1>1, <1>2, <1>5, MutatorGreen, MutatorSeen
  <2> QED
    BY <1>4, <2>1, <2>2
<1>6. CASE CollectorStep
  <2>1. \E M, q, d, T : Sound(M, q, d, T)'
    BY <1>2, <1>6, CollectorSound
  <2>2. GreenHeld' /\ PushSeen'
    BY <1>1, <1>6, CollectorGreen, CollectorSeen
  <2> QED
    BY <1>4, <2>1, <2>2
<1>7. CASE Call \/ Fail \/ Return \/ UNCHANGED gcVars
  <2>1. \E M, q, d, T : Sound(M, q, d, T)'
    BY <1>7, ClientSound
  <2>2. GreenHeld' /\ PushSeen'
    BY <1>1, <1>7, ClientGreen, ClientSeen
  <2> QED
    BY <1>4, <2>1, <2>2
<1> QED
  BY <1>5, <1>6, <1>7 DEF Next, Mutator, Collector, Ended, vars

(* Garbage that has been garbage three times is green, and what is green   *)
(* and no node is held.                                                    *)
LEMMA ReclaimsAll ==
  ASSUME Queued, NEW K, NEW o, NEW c, NEW S, Sound(K, o, c, S), Reclaims
  PROVE  GarbageReclaimed
<1>1. SUFFICES ASSUME NEW i \in Addr, ~ (lost[i] < 3) PROVE Leaked(i)
  BY DEF GarbageReclaimed
<1>2. PICK L : Holding(L)
  BY DEF Reclaims
<1>3. lost[i] \in 0 .. 3 /\ (lost[i] = 3 => heap[i].type # "free") /\ Fading /\ GreenHeld
  BY DEF Reclaims, Fades
<1>4. lost[i] = 3 /\ heap[i].type # "free"
  BY <1>1, <1>3
<1>5. heap[i].colour = green
  BY <1>3, <1>4 DEF Fading, Dead
<1>6. i \notin L
  BY <1>2, <1>4 DEF Holding
<1>7. heap[i].type = "node"
  <2>1. SUFFICES ASSUME heap[i].type # "node" PROVE FALSE
    OBVIOUS
  <2>2. UsedGreen(i)
    BY <1>4, <1>5, <2>1 DEF UsedGreen
  <2>3. Shape(K, o, c)
    BY DEF Sound
  <2> QED
    BY <1>2, <1>3, <1>6, <2>2, <2>3, GreenIsHeld
<1> QED
  BY <1>5, <1>7 DEF Leaked

LEMMA GarbageInitially == Init => GarbageInv
<1> SUFFICES ASSUME Init PROVE GarbageInv
  OBVIOUS
<1>1. Booting(0)
  BY InitBoots
<1>2. lost = [i \in Addr |-> 0]
  BY DEF Init, GCInit
<1>3. ASSUME NEW i \in Addr PROVE heap[i].type = "free"
  BY DEF Init, GCInit, FreeChunk
<1> QED
  BY <1>1, <1>2, <1>3 DEF GarbageInv, OnlyStacks

(* Both stacks are there: they are all the program has, and all it uses. *)
LEMMA BootReclaims ==
  ASSUME Booting(1), OnlyStacks(1), SwapInv, Allocate, Listed', SwapInv'
  PROVE  Reclaims'
<1>1. /\ heap'[1] = Stack /\ \A i \in Addr \ {1} : heap'[i] = heap[i]
      /\ loc' = [x \in {"cs", "ds"} |-> IF x = "cs" THEN 0 ELSE 1]
      /\ todo' = <<>>
      /\ UNCHANGED <<bindings, registers, hook, node, cpc, chunk, scan, pass, mpc>>
  BY BootAllocates
<1>2. {0, 1} \subseteq Addr /\ Addr' = Addr /\ Pointer' = Pointer /\ NULL \notin Addr
  BY HeapAssumption DEF Addr, Pointer, NULL
<1>3. heap'[0] = Stack
  BY <1>1, <1>2 DEF Booting
<1>4. loc'.cs = 0 /\ loc'.ds = 1 /\ DOMAIN loc' = {"cs", "ds"}
  BY <1>1
<1>5. mpc' = "op" /\ hook' = NoHook /\ node' = NULL /\ cpc' = "await"
      /\ registers' = <<>> /\ bindings' = [s \in Symbol |-> NULL]
  BY <1>1 DEF Booting
<1>6. DOMAIN lost' = Addr /\ \A i \in Addr : lost'[i] = 0
  BY DEF Allocate, OnlyStacks
<1>7. \A i \in Addr : heap'[i].type # "free" => i \in {0, 1}
  BY <1>1 DEF OnlyStacks
<1>8. Holding({0, 1})'
  <2>1. AllClosed(heap', {0, 1})
    BY <1>1, <1>3 DEF AllClosed, Stack, OrNull
  <2>2. Range(registers') = {} /\ Range(hook'.darken) = {} /\ hook'.blacken = NULL
    BY <1>5 DEF Range, NoHook
  <2>3. Unnamed \notin DOMAIN loc'
    <3>1. Unnamed # "cs" /\ Unnamed # "ds"
      BY Zenon DEF Unnamed
    <3> QED
      BY <1>4, <3>1
  <2>4. StillUsed(Rest') = {}
    BY <1>1, <1>5 DEF Rest, StillUsed
  <2> QED
    BY <1>2, <1>4, <1>5, <1>6, <2>1, <2>2, <2>3, <2>4 DEF Holding, OrNull
<1>9. Fades'
  <2>1. Ranges'
    BY <1>1, <1>2 DEF Booting, Ranges, Stack, Types, Pointer, green
  <2>2. Fading' /\ WorksOnYoung'
    BY <1>2, <1>5, <1>6 DEF Fading, Dead, WorksOnYoung, InWork, Greys
  <2>3. ASSUME NEW p \in Addr, heap'[p].type \in {"list", "node"}, NEW w \in {heap'[p].a, heap'[p].b} \ {NULL}
        PROVE  lost'[w] <= lost'[p]
    <3>1. p \in {0, 1}
      BY <1>7, <2>3
    <3>2. heap'[p] = Stack
      BY <1>1, <1>3, <3>1
    <3> QED
      BY <2>3, <3>2 DEF Stack
  <2>4. Outlives'
    BY <1>2, <2>3 DEF Outlives
  <2> QED
    BY <1>2, <1>6, <2>2, <2>4 DEF Fades
<1>10. FreeIsNew'
  <2>1. Free' \subseteq Addr
    BY <1>2 DEF Listed, FreeChunks
  <2> QED
    BY <1>6, <2>1 DEF FreeIsNew
<1>11. GreenHeld'
  BY <1>2, <1>4, <1>7 DEF GreenHeld, UsedGreen, Placed
<1>12. PushSeen'
  BY <1>5 DEF PushSeen
<1>13. NewSent'
  <2>1. <<>> \in Seq({}) /\ 1 .. Len(<<>>) = {}
    OBVIOUS
  <2>2. Sends(todo') /\ \E T : todo' \in Seq(T)
    BY <1>1, <2>1 DEF Sends
  <2> QED
    BY <2>2 DEF NewSent, Sends
<1> QED
  BY <1>8, <1>9, <1>10, <1>11, <1>12, <1>13 DEF Reclaims

LEMMA GarbageStep == Inv /\ Inv' /\ Moved /\ GarbageInv /\ [Next]_vars => GarbageInv'
<1> SUFFICES ASSUME Inv, Inv', Moved, GarbageInv, [Next]_vars PROVE GarbageInv'
  OBVIOUS
<1>1. SwapInv /\ SwapInv' /\ Listed /\ Listed' /\ Queued
  BY DEF Inv
<1>2. CASE \E b : Booting(b) /\ OnlyStacks(b)
  <2>1. PICK b : Booting(b) /\ OnlyStacks(b)
    BY <1>2
  <2>2. b \in {0, 1} /\ (Allocate \/ UNCHANGED vars)
    BY <2>1, BootsBy DEF Booting
  <2>3. CASE UNCHANGED vars
    <3>1. UNCHANGED <<heap, free_list, collector_list, bindings, registers, loc, mpc, hook, node, todo, cpc, chunk, scan, pass, lost>>
      BY <2>3 DEF vars, gcVars, shared, opVars, collectorVars
    <3>2. Booting(b)' /\ OnlyStacks(b)'
      BY <2>1, <3>1 DEF Booting, OnlyStacks, Ranges, Pointer, Addr
    <3> QED
      BY <3>2 DEF GarbageInv
  <2>4. CASE Allocate /\ b = 0
    <3>1. Booting(1)' /\ heap'[0] = Stack /\ (\A i \in Addr \ {0} : heap'[i] = heap[i])
      BY <1>1, <2>1, <2>4, BootKeeps, BootAllocates
    <3>2. lost' = lost /\ Addr' = Addr
      BY <2>4 DEF Allocate, Addr
    <3>3. OnlyStacks(1)'
      BY <2>1, <2>4, <3>1, <3>2 DEF OnlyStacks
    <3> QED
      BY <3>1, <3>3 DEF GarbageInv
  <2>5. CASE Allocate /\ b = 1
    <3>1. \E M, q, d, T : Sound(M, q, d, T)'
      BY <1>1, <2>1, <2>5, BootEnds
    <3>2. Reclaims'
      BY <1>1, <2>1, <2>5, BootReclaims
    <3> QED
      BY <3>1, <3>2 DEF GarbageInv
  <2> QED
    BY <2>2, <2>3, <2>4, <2>5
<1>3. CASE (\E K, o, c, S : Sound(K, o, c, S)) /\ Reclaims
  <2>1. PICK K, o, c, S : Sound(K, o, c, S)
    BY <1>3
  <2>2. (\E M, q, d, T : Sound(M, q, d, T)') /\ Reclaims'
    BY <1>1, <1>3, <2>1, ReclaimsStep
  <2> QED
    BY <2>2 DEF GarbageInv
<1> QED
  BY <1>2, <1>3 DEF GarbageInv

LEMMA GarbageSafe == Inv /\ GarbageInv => GarbageReclaimed
<1> SUFFICES ASSUME Inv, GarbageInv PROVE GarbageReclaimed
  OBVIOUS
<1>1. CASE \E b : Booting(b) /\ OnlyStacks(b)
  BY <1>1 DEF OnlyStacks, GarbageReclaimed
<1>2. CASE (\E K, o, c, S : Sound(K, o, c, S)) /\ Reclaims
  BY <1>2, ReclaimsAll DEF Inv
<1> QED
  BY <1>1, <1>2 DEF GarbageInv

(* Garbage does not float: no chunk is garbage at three handovers in a row *)
(* (the collections in between reclaim it), but for the nodes that         *)
(* sinavm_push_back leaves green.                                          *)
THEOREM GarbageIsReclaimed == Spec => []GarbageReclaimed
<1>1. Init => Inv /\ GarbageInv
  BY InvInitially, GarbageInitially
<1>2. (Inv /\ GarbageInv) /\ [Next]_vars => (Inv /\ GarbageInv)'
  BY InvStep, GarbageStep
<1>3. Inv /\ GarbageInv => GarbageReclaimed
  BY GarbageSafe
<1> QED
  BY <1>1, <1>2, <1>3, PTL DEF Spec

=============================================================================
