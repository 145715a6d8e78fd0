---------------------------- MODULE MarkingProofs ----------------------------
(***************************************************************************)
(* Why the marking collector never reclaims a chunk that the program can   *)
(* still get at, however its steps fall between those of the mutator.      *)
(***************************************************************************)
EXTENDS AnyBuiltin, ChunksProofs

-----------------------------------------------------------------------------
(***************************************************************************)
(* What the mutator knows of the heap while it is inside a builtin.        *)
(*                                                                         *)
(* K is a set of chunks that holds every chunk the program can get at and  *)
(* that no chunk of it leads out of.  Chunks outside K are garbage, or     *)
(* free: what their words say means nothing.                               *)
(***************************************************************************)

(* Nothing is white when the colours swap.                                 *)

Allocators == {"new", "new_block", "push_front", "push_back"}

(* Only an operation that allocates waits for a chunk. *)
AllocatorsAllocate ==
  mpc \in {"alloc", "await", "granted"} \/ (mpc \in {"hook", "darken"} /\ hook.then = "alloc")
  => todo # <<>> /\ now.op \in Allocators

Record(c) == [type |-> c.type, colour |-> c.colour, a |-> c.a, b |-> c.b]

HeapOfRecords ==
  /\ DOMAIN heap = Addr
  /\ \A i \in Addr : heap[i] = Record(heap[i])

Colours == (black = 0 /\ white = 2) \/ (black = 2 /\ white = 0)

(* What the collector has built its list from is not white any more. *)
BuiltNotWhite ==
  cpc = "build" => scan \in 0 .. N /\ \A i \in 0 .. scan - 1 : heap[i].colour # white

HookReturns ==
  DOMAIN hook = {"darken", "blacken", "then"} /\ hook.then \in {"op", "alloc", "last", "unlink"}

SwapInv ==
  /\ HeapOfRecords /\ HookReturns /\ Colours /\ AllocatorsAllocate
  /\ BuiltNotWhite /\ NothingWhiteAtSwap

LEMMA SwapInitially == Init => SwapInv
<1> SUFFICES ASSUME Init PROVE SwapInv
  OBVIOUS
<1> USE HeapAssumption DEF Init, GCInit
<1>1. HeapOfRecords
  BY DEF HeapOfRecords, Record, FreeChunk
<1>2. NothingWhiteAtSwap
  BY DEF NothingWhiteAtSwap, White, FreeChunk, green
<1> QED
  BY <1>1, <1>2 DEF SwapInv, HookReturns, NoHook, Colours, AllocatorsAllocate, BuiltNotWhite

LEMMA ColoursAfter ==
  ASSUME HeapOfRecords, NEW x, NEW c, heap' = Coloured(x, c)
  PROVE  /\ HeapOfRecords'
         /\ \A i \in Addr : heap'[i].colour = (IF i = x THEN c ELSE heap[i].colour)
<1> USE DEF Coloured, HeapOfRecords
<1> DOMAIN heap' = Addr /\ Addr' = Addr
  BY DEF Addr
<1>1. ASSUME NEW i \in Addr, i # x PROVE heap'[i] = heap[i]
  BY <1>1
<1>2. ASSUME NEW i \in Addr, i = x
      PROVE  heap'[i] = [type |-> heap[i].type, colour |-> c, a |-> heap[i].a, b |-> heap[i].b]
  BY <1>2 DEF Record
<1> QED
  BY <1>1, <1>2 DEF Record

LEMMA WordsAfter ==
  ASSUME HeapOfRecords, NEW v, NEW x,
         \/ heap' = [heap EXCEPT ![x].a = v]
         \/ heap' = [heap EXCEPT ![x].b = v]
  PROVE  /\ HeapOfRecords'
         /\ \A i \in Addr : heap'[i].colour = heap[i].colour
<1> USE DEF HeapOfRecords
<1> DOMAIN heap' = Addr /\ Addr' = Addr
  BY DEF Addr
<1>1. ASSUME NEW i \in Addr, i # x PROVE heap'[i] = heap[i]
  BY <1>1
<1>2. ASSUME NEW i \in Addr, i = x
      PROVE  \/ heap'[i] = [type |-> heap[i].type, colour |-> heap[i].colour, a |-> v, b |-> heap[i].b]
             \/ heap'[i] = [type |-> heap[i].type, colour |-> heap[i].colour, a |-> heap[i].a, b |-> v]
  BY <1>2 DEF Record
<1> QED
  BY <1>1, <1>2 DEF Record

(* Whatever the mutator does, no chunk turns white. *)
NoneWhitened ==
  \A i \in Addr : heap'[i].colour \in {heap[i].colour, grey, green, black}

(* A hook that goes on goes where it went. *)
LEMMA GoesOn ==
  ASSUME HookReturns,
         \/ Goes([hook EXCEPT !.darken = Tail(@)])
         \/ Goes([hook EXCEPT !.blacken = NULL])
  PROVE  /\ HookReturns' /\ todo' = todo /\ mpc' \in {"hook", hook.then}
         /\ mpc' = "hook" => hook'.then \in {hook.then, "op"}
<1> DEFINE d == [hook EXCEPT !.darken = Tail(@)]
           b == [hook EXCEPT !.blacken = NULL]
<1>1. DOMAIN d = {"darken", "blacken", "then"} /\ d.then = hook.then
  BY DEF HookReturns
<1>2. DOMAIN b = {"darken", "blacken", "then"} /\ b.then = hook.then
  BY DEF HookReturns
<1> HIDE DEF d, b
<1>3. Goes(d) \/ Goes(b)
  BY DEF d, b
<1> QED
  BY <1>1, <1>2, <1>3 DEF Goes, Stay, NoHook, HookReturns

LEMMA MutatorNeverWhitens ==
  ASSUME SwapInv, MutatorStep
  PROVE  HeapOfRecords' /\ NoneWhitened /\ HookReturns' /\ AllocatorsAllocate' /\ UNCHANGED <<black, white, cpc, scan>>
<1> USE DEF SwapInv, AllocatorIdle, collectorVars, NoneWhitened, HookReturns
<1>a. ASSUME UNCHANGED heap PROVE HeapOfRecords' /\ NoneWhitened
  BY <1>a DEF HeapOfRecords, Record, Addr
<1>1. CASE HookRead
  BY <1>1, <1>a, GoesOn DEF HookRead, At, Stay, AllocatorsAllocate, now
<1>2. CASE HookDarken
  BY <1>2, ColoursAfter, GoesOn DEF HookDarken, At, AllocatorsAllocate, now
<1>3. CASE HookBlacken
  BY <1>3, ColoursAfter, GoesOn DEF HookBlacken, At, AllocatorsAllocate, now
<1>4. CASE StartPush
  BY <1>4, <1>a DEF StartPush, In, At, PushHook, Hook, Stay, Goes, AllocatorsAllocate, Allocators, NoHook, now
<1>5. CASE LinkFront
  BY <1>5, WordsAfter DEF LinkFront, At, Stay, AllocatorsAllocate
<1>6. CASE LinkHook
  BY <1>6, <1>a DEF LinkHook, At, PushHook, Hook, Stay, Goes, AllocatorsAllocate, NoHook
<1>7. CASE LinkBack
  BY <1>7, WordsAfter DEF LinkBack, At, Stay, AllocatorsAllocate
<1>8. CASE LinkLast
  BY <1>8, <1>a, WordsAfter DEF LinkLast, Finish, AllocatorsAllocate
<1>9. CASE StartPop
  BY <1>9, <1>a DEF StartPop, In, At, PopHook, Hook, Stay, Goes, AllocatorsAllocate, NoHook
<1>10. CASE Unlink
  BY <1>10, <1>a, WordsAfter DEF Unlink, Stay, Finish, AllocatorsAllocate
<1>11. CASE UnlinkLast
  BY <1>11, WordsAfter DEF UnlinkLast, Finish, AllocatorsAllocate
<1>12. CASE Allocate
  <2>1. now.op \in Allocators
    BY <1>12 DEF Allocate, Allocating, In, At, AllocatorsAllocate, Allocators
  <2>2. Filled = Record(Filled) /\ Filled.colour = green
    BY <2>1 DEF Filled, Allocators, Record
  <2>3. DOMAIN heap' = Addr /\ Addr' = Addr
    BY <1>12 DEF Allocate, HeapOfRecords, Addr
  <2>4. \A i \in Addr : heap'[i] = IF i = free_list THEN Filled ELSE heap[i]
    BY <1>12 DEF Allocate, HeapOfRecords
  <2>5. HeapOfRecords' /\ NoneWhitened
    BY <2>2, <2>3, <2>4 DEF HeapOfRecords, Record
  <2> QED
    BY <1>12, <2>5 DEF Allocate, Stay, Finish, AllocatorsAllocate
<1>13. CASE RunOut
  BY <1>13, <1>a DEF RunOut, shared, Allocating, In, At, Stay, AllocatorsAllocate, Allocators, now
<1>14. CASE Resume \/ Retry \/ GiveUp
  BY <1>14, <1>a DEF Resume, Retry, GiveUp, shared, opVars, At, Stay, AllocatorsAllocate, now
<1>15. CASE Fetch \/ Keep \/ BindSymbol
  BY <1>15, <1>a DEF Fetch, Keep, BindSymbol, Finish, AllocatorsAllocate
<1>16. CASE MoveCurrent
  BY <1>16, WordsAfter DEF MoveCurrent, Finish, AllocatorsAllocate
<1>17. CASE Exit
  BY <1>17, <1>a DEF Exit, shared, opVars, AllocatorsAllocate, now
<1> QED
  BY <1>1, <1>2, <1>3, <1>4, <1>5, <1>6, <1>7, <1>8, <1>9, <1>10, <1>11, <1>12, <1>13, <1>14,
     <1>15, <1>16, <1>17 DEF MutatorStep

LEMMA MutatorKeepsSwapInv == SwapInv /\ MutatorStep => SwapInv'
<1> SUFFICES ASSUME SwapInv, MutatorStep PROVE SwapInv'
  OBVIOUS
<1>1. HeapOfRecords' /\ NoneWhitened /\ HookReturns' /\ AllocatorsAllocate' /\ UNCHANGED <<black, white, cpc, scan>>
  BY MutatorNeverWhitens
<1> QED
  BY <1>1, HeapAssumption DEF SwapInv, NoneWhitened, Colours, BuiltNotWhite, NothingWhiteAtSwap, White, Addr,
     grey, green

LEMMA CollectorKeepsSwapInv == SwapInv /\ CollectorStep => SwapInv'
<1> SUFFICES ASSUME SwapInv, CollectorStep PROVE SwapInv'
  OBVIOUS
<1> USE DEF SwapInv, Marking, MutatorIdle, opVars
<1>a. ASSUME UNCHANGED heap PROVE HeapOfRecords'
  BY <1>a DEF HeapOfRecords, Record, Addr
<1>b. ASSUME UNCHANGED <<mpc, hook, todo>> PROVE HookReturns' /\ AllocatorsAllocate'
  BY <1>b DEF HookReturns, AllocatorsAllocate, now
<1>c. ASSUME UNCHANGED <<black, white>>, cpc' \notin {"await", "build"}
      PROVE  Colours' /\ BuiltNotWhite' /\ NothingWhiteAtSwap'
  BY <1>c DEF Colours, BuiltNotWhite, NothingWhiteAtSwap
<1>1. CASE Handover
  <2>1. HeapOfRecords'
    <3>1. DOMAIN heap' = Addr /\ Addr' = Addr
      BY <1>1 DEF Handover, HandsOver, Addr
    <3>2. ASSUME NEW i \in Addr PROVE heap'[i] = Record(heap'[i])
      <4>1. heap[i] = Record(heap[i])
        BY DEF HeapOfRecords
      <4>2. heap'[i] \in {heap[i], [heap[i] EXCEPT !.colour = grey]}
        BY <1>1 DEF Handover, HandsOver
      <4> QED
        BY <4>1, <4>2 DEF Record
    <3> QED
      BY <3>1, <3>2 DEF HeapOfRecords
  <2>2. HookReturns' /\ AllocatorsAllocate'
    BY <1>1 DEF Handover, HandsOver, HookReturns, AllocatorsAllocate, now
  <2>3. Colours' /\ BuiltNotWhite' /\ NothingWhiteAtSwap'
    BY <1>1 DEF Handover, HandsOver, Colours, BuiltNotWhite, NothingWhiteAtSwap
  <2> QED
    BY <2>1, <2>2, <2>3
<1>2. CASE MarkRoot
  <2>1. UNCHANGED heap \/ \E i : heap' = Coloured(i, grey)
    BY <1>2 DEF MarkRoot
  <2>2. HeapOfRecords'
    BY <1>a, <2>1, ColoursAfter
  <2> QED
    BY <1>2, <1>b, <1>c, <2>2 DEF MarkRoot
<1>3. CASE FindHere \/ FindNext \/ DarkenFirst \/ DarkenSecond
  BY <1>3, <1>a, <1>b, <1>c DEF FindHere, FindNext, DarkenFirst, DarkenSecond, Darken
<1>4. CASE FindPassOver
  <2>1. cpc' \in {"scan", "build"} /\ (cpc' = "build" => scan' = 0) /\ UNCHANGED <<heap, black, white>>
    BY <1>4 DEF FindPassOver
  <2>2. Colours' /\ BuiltNotWhite' /\ NothingWhiteAtSwap'
    BY <2>1, HeapAssumption DEF Colours, BuiltNotWhite, NothingWhiteAtSwap
  <2> QED
    BY <1>4, <1>a, <1>b, <2>1, <2>2 DEF FindPassOver
<1>5. CASE DarkenWrite \/ Blacken
  <2>1. \E i, c : heap' = Coloured(i, c)
    BY <1>5 DEF DarkenWrite, Blacken
  <2>2. HeapOfRecords'
    BY <2>1, ColoursAfter
  <2> QED
    BY <1>5, <1>b, <1>c, <2>2 DEF DarkenWrite, Blacken
<1>6. CASE Build
  <2>0. cpc = "build" /\ cpc' = "build" /\ scan < N /\ scan' = scan + 1 /\ scan \in Addr /\ UNCHANGED <<black, white>>
    BY <1>6, HeapAssumption DEF Build, Builds, BuiltNotWhite, Addr
  <2>1. CASE heap[scan].colour = white
    <3>1. heap' = [heap EXCEPT ![scan] = FreeChunk(collector_list)]
      BY <1>6, <2>1 DEF Build, Builds
    <3>2. DOMAIN heap' = Addr /\ Addr' = Addr
      BY <3>1 DEF HeapOfRecords, Addr
    <3>3. \A i \in Addr : heap'[i] = IF i = scan THEN FreeChunk(collector_list) ELSE heap[i]
      BY <3>1 DEF HeapOfRecords
    <3>4. HeapOfRecords'
      BY <3>2, <3>3 DEF HeapOfRecords, Record, FreeChunk
    <3>5. BuiltNotWhite'
      BY <2>0, <3>3, HeapAssumption DEF BuiltNotWhite, FreeChunk, green, Colours, Addr
    <3> QED
      BY <1>6, <1>b, <2>0, <3>4, <3>5 DEF Build, Builds, Colours, NothingWhiteAtSwap
  <2>2. CASE heap[scan].colour # white
    <3>1. UNCHANGED heap
      BY <1>6, <2>2 DEF Build, Builds
    <3>2. BuiltNotWhite'
      BY <2>0, <2>2, <3>1, HeapAssumption DEF BuiltNotWhite, Addr
    <3> QED
      BY <1>6, <1>a, <1>b, <2>0, <3>1, <3>2 DEF Build, Builds, Colours, NothingWhiteAtSwap
  <2> QED
    BY <2>1, <2>2
<1>7. CASE BuildOver
  BY <1>7, <1>a, <1>b, HeapAssumption
     DEF BuildOver, Colours, BuiltNotWhite, NothingWhiteAtSwap, White, Addr
<1> QED
  BY <1>1, <1>2, <1>3, <1>4, <1>5, <1>6, <1>7 DEF CollectorStep

(* What the program and the end of the process leave alone *)
LEMMA OthersKeepSwapInv ==
  ASSUME SwapInv, UNCHANGED <<heap, black, white, cpc, scan, hook, mpc>>,
         todo = <<>> \/ UNCHANGED todo
  PROVE  SwapInv'
  BY DEF SwapInv, HeapOfRecords, Record, Addr, HookReturns, Colours, AllocatorsAllocate, BuiltNotWhite,
     NothingWhiteAtSwap, White, now

LEMMA SwapStep == SwapInv /\ [Next]_vars => SwapInv'
<1> SUFFICES ASSUME SwapInv, [Next]_vars PROVE SwapInv'
  OBVIOUS
<1>1. CASE MutatorStep
  BY <1>1, MutatorKeepsSwapInv
<1>2. CASE CollectorStep
  BY <1>2, CollectorKeepsSwapInv
<1>3. CASE Call \/ Fail \/ Return \/ UNCHANGED gcVars
  BY <1>3, OthersKeepSwapInv DEF Call, Fail, Return, Idle, gcVars, shared, opVars, collectorVars
<1> QED
  BY <1>1, <1>2, <1>3 DEF Next, Mutator, Collector, Ended, vars

-----------------------------------------------------------------------------
(* What is known of the heap.                                              *)

Nodes(K)  == {i \in K : heap[i].type = "node"}
Lists(K)  == {i \in K : heap[i].type = "list"}
Values(K) == {i \in K : heap[i].type # "node" /\ i # loc.ds /\ i # loc.cs}

OrNull(S) == S \cup {NULL}

(* All chunks; there are no blocks without a program's code.               *)
Ranges ==
  \A i \in Addr :
    /\ heap[i].type \in Types /\ heap[i].type # "block"
    /\ heap[i].colour \in 0 .. 3
    /\ heap[i].a \in Pointer \cup Nat /\ heap[i].b \in Pointer
    /\ heap[i].type \in {"list", "node"} => heap[i].a \in Pointer

(* Known chunks lead to known chunks. *)
Words(K) ==
  /\ K \subseteq Addr
  /\ \A i \in K : heap[i].type # "free"
  /\ \A i \in Nodes(K) : heap[i].a \in Values(K) /\ heap[i].b \in OrNull(Nodes(K))
  /\ \A i \in Lists(K) : heap[i].a \in OrNull(Nodes(K)) /\ heap[i].b \in OrNull(Nodes(K))
  /\ \A i \in K : heap[i].type \in {"symbol", "escaped"} => heap[i].a \in Symbol

Roots0(K) ==
  /\ {"ds", "cs"} \subseteq DOMAIN loc
  /\ loc.ds \in Lists(K) /\ loc.cs \in Lists(K) /\ loc.ds # loc.cs /\ loc.cs = 0
  /\ bindings \in [Symbol -> OrNull(Values(K))]
  /\ registers \in Seq(K)

(* Where the mutator is in a push, and whether the new node is in its list *)
Hooking == mpc \in {"hook", "darken"}
Linking == mpc \in {"link_hook", "last"} \/ (Hooking /\ hook.then = "last")
HasNode == mpc = "link" \/ Linking

InWork == cpc \in {"first", "second", "grey_first", "grey_second", "blacken"}
Greys  == cpc \in {"grey_first", "grey_second"}

Hooks(K) == [darken : Seq(K), blacken : OrNull(K), then : {"alloc", "unlink", "last"}]

InHand(K) ==
  /\ IF Hooking THEN hook \in Hooks(K) ELSE hook = NoHook
  /\ IF HasNode THEN node \in Nodes(K) ELSE node = NULL
  /\ \A i \in Addr : heap[i].colour = grey => i \in K
  /\ InWork => chunk \in K
  /\ Greys => scan \in K

Control ==
  /\ mpc # "op" => todo # <<>>
  /\ mpc \in {"op", "hook", "darken", "alloc", "await", "granted", "link", "link_hook", "last",
              "unlink", "unlink_last"}
  /\ mpc = "darken" => hook.darken # <<>>
  /\ mpc = "hook" => hook.darken # <<>> \/ hook.blacken # NULL
  /\ mpc \in {"alloc", "await", "granted"} => now.op \in {"new", "new_block"} \cup Pushes
  /\ HasNode \/ (Hooking /\ hook.then = "alloc") => now.op \in Pushes
  /\ mpc = "link_hook" \/ (Hooking /\ hook.then = "last") => now.op = "push_front"
  /\ mpc = "unlink" \/ (Hooking /\ hook.then = "unlink") => now.op = "pop_to_register"
  /\ mpc = "unlink_last" => now.op \in {"pop_to_register", "pop_front"}

(* The last node of a list, seen through a push or a pop that is under way *)
LastOf(l) ==
  IF Linking /\ l = P
  THEN IF now.op = "push_back" \/ heap[l].b = NULL THEN node ELSE heap[l].b
  ELSE IF mpc = "unlink_last" /\ l = P THEN NULL ELSE heap[l].b

(* The nodes of a list belong to it, and lead to its last one; nodes that  *)
(* were popped still do.  o tells the list a node belongs to.              *)
Owned(K, o) ==
  /\ \A n \in Nodes(K) : o[n] \in OrNull(Lists(K))
  /\ \A l \in Lists(K) : heap[l].a = NULL <=> LastOf(l) = NULL
  /\ \A l \in Lists(K) : heap[l].a # NULL =>
        /\ o[heap[l].a] = l
        /\ LastOf(l) \in Nodes(K) /\ o[LastOf(l)] = l /\ heap[LastOf(l)].b = NULL
  /\ \A n \in Nodes(K) : o[n] # NULL /\ heap[n].b = NULL => n = LastOf(o[n])
  /\ \A n \in Nodes(K) : o[n] # NULL /\ heap[n].b # NULL => o[heap[n].b] = o[n]

(* Nobody knows the new node yet. *)
Fresh(K, o) ==
  mpc = "link" =>
    /\ o[node] = NULL /\ heap[node].colour = green /\ heap[node].a = X
    /\ heap[node].b = (IF now.op = "push_front" THEN heap[P].a ELSE NULL)
    /\ \A i \in Nodes(K) \cup Lists(K) : heap[i].a # node /\ heap[i].b # node
    /\ (InWork => chunk # node) /\ (Greys => scan # node)

(* What has been written so far *)
Halfway(K) ==
  /\ Linking /\ now.op = "push_front" => heap[P].a = node
  /\ mpc = "unlink_last" => now.p \in DOMAIN loc /\ P \in Lists(K) /\ heap[P].a = NULL

-----------------------------------------------------------------------------
(* The context of the operations to come.                                  *)

Rest == IF mpc = "unlink_last" THEN Tail(todo) ELSE todo

InRegisters == IF mpc \in {"await", "granted"} THEN Held ELSE <<>>

KnowsLocals(K, c) ==
  \A e \in c.loc : /\ e[1] \in DOMAIN loc /\ e[1] \notin Stacks
                   /\ loc[e[1]] \in Values(K) /\ IsA(heap, loc[e[1]], e[2])

KnowsRegisters(K, c) ==
  /\ c.regs \in Seq(Kept)
  /\ Len(registers) = Len(c.regs) + Len(InRegisters)
  /\ \A k \in 1 .. Len(c.regs) :
       registers[k] \in Values(K) /\ IsA(heap, registers[k], c.regs[k])

Item1 == heap[loc.ds].a
Item2 == heap[Item1].b
Item3 == heap[Item2].b

KnowsItem(item, kind) == item # NULL /\ IsA(heap, heap[item].a, kind)

KnowsItems(c) ==
  /\ c.top \in Seq(Kinds) /\ Len(c.top) \in 0 .. 3
  /\ Len(c.top) >= 1 => KnowsItem(Item1, c.top[1])
  /\ Len(c.top) >= 2 => KnowsItem(Item2, c.top[2])
  /\ Len(c.top) >= 3 => KnowsItem(Item3, c.top[3])

KnowsBound(K, c) ==
  \A e \in c.bound : /\ e[1] \in Symbol /\ bindings[e[1]] \in Values(K)
                     /\ e[2] # "list+" /\ IsA(heap, bindings[e[1]], e[2])

Plain == [symbols |-> Symbol, literals |-> FALSE]

Knows(K, c) ==
  /\ Certified(Plain, Rest, c)
  /\ ~ c.code
  /\ KnowsLocals(K, c) /\ KnowsRegisters(K, c) /\ KnowsBound(K, c)
  /\ (~ Linking /\ ~ (mpc \in {"alloc", "await", "granted", "link"})) => KnowsItems(c)
  /\ mpc = "unlink_last" /\ P \notin {loc.ds, loc.cs} =>
       c.top = <<>> /\ \A e \in c.loc : e[2] # "list+"

Shape(K, o, c) ==
  /\ SwapInv /\ Ranges /\ Words(K) /\ Roots0(K) /\ InHand(K) /\ Control
  /\ Owned(K, o) /\ Fresh(K, o) /\ Halfway(K) /\ Knows(K, c)

-----------------------------------------------------------------------------
(* What an operation finds.                                                *)

LEMMA TypedNow ==
  ASSUME NEW K, NEW c, Knows(K, c), todo # <<>>, mpc # "unlink_last"
  PROVE  \E d : Typed(Plain, now, c, d) /\ Certified(Plain, Tail(todo), d)
BY CertifiedStep DEF Knows, Rest, now

(* There are no blocks. *)
LEMMA NoBlock ==
  ASSUME NEW K, NEW c, NEW x, Ranges, Words(K), KnowsLocals(K, c), Is(c, x, "block")
  PROVE  FALSE
BY DEF Is, KnowsLocals, IsA, Ranges, Words, Values

LEMMA NoBlockInRegisters ==
  ASSUME NEW K, NEW c, NEW k \in 1 .. Len(c.regs), Ranges, Words(K), KnowsRegisters(K, c),
         c.regs[k] = "block"
  PROVE  FALSE
BY DEF KnowsRegisters, IsA, Ranges, Words, Values

LEMMA PushKnown ==
  ASSUME NEW K, NEW c, Ranges, Words(K), Roots0(K), Knows(K, c),
         todo # <<>>, mpc # "unlink_last", now.op \in Pushes
  PROVE  /\ P \in Lists(K) /\ now.p \in DOMAIN loc
         /\ X \in Values(K) /\ now.x \in DOMAIN loc
<1>1. PICK d : TypedPush(now, c, d)
  BY TypedNow, TypedAs
<1>2. KnowsLocals(K, c)
  BY DEF Knows
<1>3. X \in Values(K) /\ now.x \in DOMAIN loc
  <2>1. PICK e \in c.loc : e[1] = now.x
    BY <1>1 DEF TypedPush, Names
  <2> QED
    BY <2>1, <1>2 DEF KnowsLocals, X
<1>4. CASE now.p = "ds"
  BY <1>3, <1>4 DEF Roots0, P
<1>5. CASE Is(c, now.x, "block")
  BY <1>2, <1>5, NoBlock
<1>6. CASE Is(c, now.p, "list")
  BY <1>2, <1>3, <1>6 DEF KnowsLocals, IsA, Is, P, Lists, Values
<1> QED
  BY <1>1, <1>4, <1>5, <1>6 DEF TypedPush

LEMMA PopKnown ==
  ASSUME NEW K, NEW c, Ranges, Words(K), Roots0(K), Knows(K, c),
         todo # <<>>, mpc # "unlink_last", now.op \in {"pop_to_register", "pop_front"}
  PROVE  P \in Lists(K) /\ now.p \in DOMAIN loc
<1>1. PICK d : TypedPop(now, c, d) \/ TypedDrop(now, c, d)
  BY TypedNow, TypedAs
<1>2. KnowsLocals(K, c)
  BY DEF Knows
<1>4. CASE now.p \in Stacks
  BY <1>4 DEF Roots0, P, Stacks
<1>6. CASE Is(c, now.p, "list+")
  BY <1>2, <1>6 DEF KnowsLocals, IsA, Is, P, Lists, Values
<1> QED
  BY <1>1, <1>4, <1>6 DEF TypedPop, TypedDrop, Stacks

-----------------------------------------------------------------------------
(* What does not change.                                                   *)

SameWords(K) ==
  \A i \in K : heap'[i].type = heap[i].type /\ heap'[i].a = heap[i].a /\ heap'[i].b = heap[i].b

SameStacks == loc'.ds = loc.ds /\ loc'.cs = loc.cs /\ {"ds", "cs"} \subseteq DOMAIN loc'

LEMMA SetsSame ==
  ASSUME NEW K, \A i \in K : heap'[i].type = heap[i].type, SameStacks
  PROVE  Nodes(K)' = Nodes(K) /\ Lists(K)' = Lists(K) /\ Values(K)' = Values(K)
BY DEF Nodes, Lists, Values, SameStacks

LEMMA WordsFrame ==
  ASSUME NEW K, Words(K), SameWords(K), SameStacks
  PROVE  Words(K)'
<1>1. Nodes(K)' = Nodes(K) /\ Lists(K)' = Lists(K) /\ Values(K)' = Values(K)
  BY SetsSame DEF SameWords
<1>2. Nodes(K) \subseteq K /\ Lists(K) \subseteq K
  BY DEF Nodes, Lists
<1> QED
  BY <1>1, <1>2 DEF Words, SameWords, OrNull, Addr

LEMMA OwnedSame ==
  ASSUME NEW K, NEW o, Words(K), Owned(K, o), Nodes(K)' = Nodes(K), Lists(K)' = Lists(K),
         \A n \in Nodes(K) : heap'[n].b = heap[n].b,
         \A l \in Lists(K) : heap'[l].a = heap[l].a,
         \A l \in Lists(K) : LastOf(l)' = LastOf(l)
  PROVE  Owned(K, o)'
BY DEF Owned, OrNull

LEMMA OwnedFrame ==
  ASSUME NEW K, NEW o, Words(K), Owned(K, o), SameWords(K), SameStacks,
         \A l \in Lists(K) : LastOf(l)' = LastOf(l)
  PROVE  Owned(K, o)'
<1>1. Nodes(K)' = Nodes(K) /\ Lists(K)' = Lists(K)
  BY SetsSame DEF SameWords
<1>2. Nodes(K) \subseteq K /\ Lists(K) \subseteq K
  BY DEF Nodes, Lists
<1>3. \A n \in Nodes(K) : heap'[n].b = heap[n].b
  BY <1>2 DEF SameWords
<1>4. \A l \in Lists(K) : heap'[l].a = heap[l].a
  BY <1>2 DEF SameWords
<1> QED
  BY <1>1, <1>3, <1>4, OwnedSame

LEMMA IsASame ==
  ASSUME NEW K, SameWords(K), NEW i \in K, NEW kind
  PROVE  IsA(heap, i, kind)' = IsA(heap, i, kind)
BY DEF IsA, EmptyIn, SameWords

LEMMA ItemsSame ==
  ASSUME NEW K, NEW c, Words(K), Roots0(K), SameWords(K), SameStacks, KnowsItems(c)
  PROVE  KnowsItems(c)'
<1> DEFINE Same(i) == heap'[i].type = heap[i].type /\ heap'[i].a = heap[i].a /\ heap'[i].b = heap[i].b
<1>1. ASSUME NEW n, NEW m, NEW kind, n \in OrNull(Nodes(K)), KnowsItem(n, kind), m = n
      PROVE  KnowsItem(n, kind)' /\ n \in Nodes(K) /\ n \in K
  <2>1. n \in Nodes(K) /\ n \in K
    BY <1>1 DEF KnowsItem, OrNull, Nodes
  <2>2. heap[n].a \in K /\ heap'[n].a = heap[n].a
    BY <2>1 DEF Words, Values, SameWords
  <2> QED
    BY <1>1, <2>1, <2>2, IsASame DEF KnowsItem
<1>2. loc'.ds = loc.ds /\ loc.ds \in Lists(K) /\ loc.ds \in K
  BY DEF SameStacks, Roots0, Lists
<1>3. Item1' = Item1 /\ Item1 \in OrNull(Nodes(K))
  BY <1>2 DEF Item1, SameWords, Words
<1>4. ASSUME Len(c.top) >= 1
      PROVE  KnowsItem(Item1, c.top[1])' /\ Item2' = Item2 /\ Item2 \in OrNull(Nodes(K))
  BY <1>1, <1>3, <1>4 DEF KnowsItems, Item2, SameWords, Words, KnowsItem
<1>5. ASSUME Len(c.top) >= 2
      PROVE  KnowsItem(Item2, c.top[2])' /\ Item3' = Item3 /\ Item3 \in OrNull(Nodes(K))
  <2>1. Len(c.top) >= 1
    BY <1>5 DEF KnowsItems
  <2> QED
    BY <1>1, <1>4, <2>1, <1>5 DEF KnowsItems, Item3, SameWords, Words, KnowsItem
<1>6. ASSUME Len(c.top) >= 3
      PROVE  KnowsItem(Item3, c.top[3])'
  <2>1. Len(c.top) >= 2
    BY <1>6 DEF KnowsItems
  <2> QED
    BY <1>1, <1>5, <2>1, <1>6 DEF KnowsItems, KnowsItem
<1> QED
  BY <1>4, <1>5, <1>6 DEF KnowsItems

LEMMA KnowsFrame ==
  ASSUME NEW K, NEW c, Words(K), Roots0(K), Knows(K, c), SameWords(K), loc' = loc,
         bindings' = bindings, registers' = registers, InRegisters' = InRegisters, Rest' = Rest,
         Linking' \/ mpc' \in {"alloc", "await", "granted", "link"}
         \/ (~ Linking /\ mpc \notin {"alloc", "await", "granted", "link"}),
         mpc' = "unlink_last" => mpc = "unlink_last" /\ todo' = todo
  PROVE  Knows(K, c)'
<1>1. SameStacks
  BY DEF SameStacks, Roots0
<1>2. Values(K)' = Values(K) /\ Values(K) \subseteq K
  BY <1>1, SetsSame DEF SameWords, Values
<1>3. KnowsLocals(K, c)'
  BY <1>2, IsASame DEF Knows, KnowsLocals
<1>4. KnowsRegisters(K, c)'
  BY <1>2, IsASame DEF Knows, KnowsRegisters
<1>5. KnowsBound(K, c)'
  BY <1>2, IsASame DEF Knows, KnowsBound
<1>6. (~ Linking' /\ ~ (mpc' \in {"alloc", "await", "granted", "link"})) => KnowsItems(c)'
  BY <1>1, ItemsSame DEF Knows
<1>7. mpc' = "unlink_last" /\ P' \notin {loc'.ds, loc'.cs} => c.top = <<>> /\ \A e \in c.loc : e[2] # "list+"
  BY DEF Knows, P, now
<1> QED
  BY <1>3, <1>4, <1>5, <1>6, <1>7 DEF Knows

-----------------------------------------------------------------------------
(* No operation on blocks is ever next. *)

LEMMA NextOperation ==
  ASSUME NEW K, NEW c, Ranges, Words(K), Knows(K, c), todo # <<>>, mpc # "unlink_last"
  PROVE  now.op \in Pushes \cup {"pop_to_register", "pop_front", "new", "push_register", "release",
                                 "pop_register", "front", "dereference", "bind"}
<1>1. PICK d : Typed(Plain, now, c, d)
  BY TypedNow
<1>2. KnowsLocals(K, c)
  BY DEF Knows
<1>3. ASSUME now.op = "new_block" PROVE FALSE
  <2>1. <<now.p, "code">> \in c.loc
    BY <1>1, <1>3, TypedAs DEF TypedNewBlock, Plain
  <2>2. loc[now.p] \in K /\ heap[loc[now.p]].type = "code"
    BY <2>1, <1>2 DEF KnowsLocals, IsA, Values
  <2> QED
    BY <2>2 DEF Ranges, Words, Types
<1>4. now.op \notin {"code", "rewind"}
  BY <1>1, <1>2, TypedAs, NoBlock DEF TypedCode, TypedRewind
<1> QED
  BY <1>1, <1>3, <1>4 DEF Typed, TypedPop, TypedDrop, TypedPush, TypedNew, TypedNewBlock, TypedKeep,
     TypedRelease, TypedPopRegister, TypedFront, TypedDereference, TypedCode, TypedRewind, TypedBind,
     Pushes

-----------------------------------------------------------------------------
(* Hooks change colours only. *)

LEMMA GoesWhere ==
  ASSUME NEW K, NEW h \in Hooks(K), Goes(h)
  PROVE  /\ todo' = todo
         /\ \/ mpc' = "hook" /\ hook' = h /\ (h.darken # <<>> \/ h.blacken # NULL)
            \/ mpc' = h.then /\ hook' = NoHook
BY DEF Goes, Stay, Hooks, OrNull

LEMMA HookInHooks ==
  ASSUME NEW K, InHand(K), Hooking
  PROVE  /\ hook \in Hooks(K)
         /\ hook.darken # <<>> => [hook EXCEPT !.darken = Tail(@)] \in Hooks(K)
         /\ [hook EXCEPT !.blacken = NULL] \in Hooks(K)
<1>1. hook \in Hooks(K)
  BY DEF InHand
<1>2. hook.darken # <<>> => Tail(hook.darken) \in Seq(K)
  BY <1>1 DEF Hooks
<1>3. hook.darken # <<>> => [hook EXCEPT !.darken = Tail(hook.darken)] \in Hooks(K)
  BY <1>1, <1>2 DEF Hooks
<1>4. NULL \in OrNull(K)
  BY DEF OrNull
<1> QED
  BY <1>1, <1>3, <1>4 DEF Hooks

LEMMA ColourKeeps ==
  ASSUME NEW K, Words(K), SwapInv, Ranges, NEW x, NEW colour \in 0 .. 3, heap' = Coloured(x, colour)
  PROVE  /\ SameWords(K) /\ Ranges' /\ SameWords(Addr)
         /\ \A i \in Addr : heap'[i].colour = (IF i = x THEN colour ELSE heap[i].colour)
<1>1. DOMAIN heap = Addr /\ Addr' = Addr
  BY DEF SwapInv, HeapOfRecords, Addr
<1>2. \A i \in Addr : heap'[i].colour = (IF i = x THEN colour ELSE heap[i].colour)
  BY ColoursAfter DEF SwapInv
<1>3. \A i \in Addr : heap'[i] = IF i = x THEN [heap[i] EXCEPT !.colour = colour] ELSE heap[i]
  BY <1>1 DEF Coloured
<1>4. \A i \in Addr : DOMAIN heap[i] = {"type", "colour", "a", "b"}
  BY DEF SwapInv, HeapOfRecords, Record
<1>5. \A i \in Addr : heap'[i].type = heap[i].type /\ heap'[i].a = heap[i].a /\ heap'[i].b = heap[i].b
  BY <1>3, <1>4
<1>6. Ranges'
  BY <1>1, <1>2, <1>5 DEF Ranges, Pointer
<1> QED
  BY <1>2, <1>5, <1>6 DEF SameWords, Words

Waiting == mpc \in {"await", "granted"}

LEMMA RootsFrame ==
  ASSUME NEW K, Words(K), Roots0(K), SameWords(K), UNCHANGED <<bindings, registers, loc>>
  PROVE  Roots0(K)'
<1>1. SameStacks
  BY DEF SameStacks, Roots0
<1>2. Lists(K)' = Lists(K) /\ Values(K)' = Values(K)
  BY <1>1, SetsSame DEF SameWords
<1> QED
  BY <1>2 DEF Roots0, OrNull

LEMMA Still ==
  ASSUME NEW K, NEW o, NEW c, Shape(K, o, c), SwapInv', Ranges', SameWords(K), InHand(K)', Control',
         UNCHANGED <<bindings, registers, loc, node, todo>>, Linking' = Linking,
         mpc # "unlink_last", mpc' \notin {"unlink_last", "link"}, ~ Waiting, ~ Waiting',
         Linking' \/ mpc' = "alloc" \/ (~ Linking /\ mpc \notin {"alloc", "link"})
  PROVE  Shape(K, o, c)'
<1> USE DEF Shape
<1>1. SameStacks
  BY DEF SameStacks, Roots0
<1>2. Words(K)' /\ Roots0(K)'
  BY <1>1, WordsFrame, RootsFrame
<1>3. Owned(K, o)'
  <2>1. \A l \in Lists(K) : LastOf(l)' = LastOf(l)
    BY DEF LastOf, P, now, Lists, SameWords
  <2> QED
    BY <1>1, <2>1, OwnedFrame
<1>4. Halfway(K)'
  <2>1. ASSUME Linking, now.op = "push_front" PROVE P \in K
    BY <2>1, PushKnown DEF Linking, Hooking, Control, Pushes, Lists
  <2> QED
    BY <2>1 DEF Halfway, P, now, SameWords
<1>5. Fresh(K, o)'
  BY DEF Fresh
<1>6. Knows(K, c)'
  BY KnowsFrame DEF Rest, InRegisters, Waiting
<1> QED
  BY <1>2, <1>3, <1>4, <1>5, <1>6

(* The same chunks are grey, or one more. *)
LEMMA HandsFrame ==
  ASSUME NEW K, Words(K), InHand(K), SameWords(K), UNCHANGED <<node, cpc, chunk, scan>>, SameStacks,
         HasNode' = HasNode,
         \A i \in Addr : heap'[i].colour = heap[i].colour \/ heap'[i].colour # grey \/ i \in K,
         IF Hooking' THEN hook' \in Hooks(K) ELSE hook' = NoHook
  PROVE  InHand(K)'
<1>1. Nodes(K)' = Nodes(K)
  BY SetsSame DEF SameWords
<1>2. Addr' = Addr /\ Hooks(K)' = Hooks(K)
  BY DEF Addr, Hooks, OrNull
<1> QED
  BY <1>1, <1>2 DEF InHand, InWork, Greys

LEMMA HookReadKeeps ==
  ASSUME NEW K, NEW o, NEW c, Shape(K, o, c), HookRead
  PROVE  Shape(K, o, c)'
<1> USE DEF Shape
<1>1. SwapInv'
  BY MutatorKeepsSwapInv DEF MutatorStep
<1>2. Ranges' /\ SameWords(K) /\ SameStacks /\ UNCHANGED <<heap, node, cpc, chunk, scan, registers, bindings, loc>>
  BY DEF HookRead, AllocatorIdle, collectorVars, Ranges, SameWords, SameStacks, Roots0, Addr, Pointer
<1>3. Hooking /\ mpc = "hook" /\ hook.darken # <<>> /\ hook \in Hooks(K)
  BY HookInHooks DEF HookRead, At, Hooking
<1> DEFINE h == [hook EXCEPT !.darken = Tail(@)]
<1>4. h \in Hooks(K) /\ h.then = hook.then
  BY <1>3, HookInHooks DEF Hooks
<1>5. \/ mpc' = "darken" /\ hook' = hook /\ todo' = todo
      \/ Goes(h)
  BY DEF HookRead, Stay
<1> HIDE DEF h
<1>6. /\ todo' = todo
      /\ \/ mpc' = "darken" /\ hook' = hook
         \/ mpc' = "hook" /\ hook' = h /\ (h.darken # <<>> \/ h.blacken # NULL)
         \/ mpc' = hook.then /\ hook' = NoHook
  BY <1>4, <1>5, GoesWhere
<1>7. hook.then \in {"alloc", "unlink", "last"}
  BY <1>3 DEF Hooks
<1>8. Linking' = Linking /\ HasNode' = HasNode
  BY <1>3, <1>4, <1>6, <1>7 DEF Linking, HasNode, Hooking
<1>9. InHand(K)'
  BY <1>2, <1>3, <1>4, <1>6, <1>7, <1>8, HandsFrame DEF Hooking
<1>10. Control'
  BY <1>3, <1>4, <1>6, <1>7, <1>8 DEF Control, Hooking, now, HookRead, At
<1> QED
  BY <1>1, <1>2, <1>3, <1>4, <1>6, <1>7, <1>8, <1>9, <1>10, Still DEF Waiting, Linking, Hooking

(* A hook writes a colour and goes on. *)
LEMMA HookWrites ==
  ASSUME NEW K, NEW o, NEW c, Shape(K, o, c), SwapInv', Hooking, NEW h \in Hooks(K), h.then = hook.then,
         Goes(h), NEW x \in K, NEW colour \in 0 .. 3, heap' = Coloured(x, colour),
         UNCHANGED <<node, cpc, chunk, scan, registers, bindings, loc>>
  PROVE  Shape(K, o, c)' /\ SameWords(K) /\ SameStacks
<1> USE DEF Shape
<1>2. Ranges' /\ SameWords(K) /\ SameStacks
  BY ColourKeeps DEF SameStacks, Roots0
<1>3. \A i \in Addr : heap'[i].colour = heap[i].colour \/ i \in K
  BY ColourKeeps
<1>6. /\ todo' = todo
      /\ \/ mpc' = "hook" /\ hook' = h /\ (h.darken # <<>> \/ h.blacken # NULL)
         \/ mpc' = hook.then /\ hook' = NoHook
  BY GoesWhere
<1>7. hook.then \in {"alloc", "unlink", "last"}
  BY HookInHooks DEF Hooks
<1>8. Linking' = Linking /\ HasNode' = HasNode
  BY <1>6, <1>7 DEF Linking, HasNode, Hooking
<1>9. InHand(K)'
  BY <1>2, <1>3, <1>6, <1>7, <1>8, HandsFrame DEF Hooking
<1>10. Control'
  BY <1>6, <1>7, <1>8 DEF Control, Hooking, now
<1> QED
  BY <1>2, <1>6, <1>7, <1>8, <1>9, <1>10, Still DEF Waiting, Linking, Hooking

LEMMA HookDarkenKeeps ==
  ASSUME NEW K, NEW o, NEW c, Shape(K, o, c), HookDarken
  PROVE  Shape(K, o, c)' /\ SameWords(K) /\ SameStacks
<1> DEFINE h == [hook EXCEPT !.darken = Tail(@)]
<1>1. SwapInv'
  BY MutatorKeepsSwapInv DEF MutatorStep, Shape
<1>2. Hooking /\ hook.darken # <<>> /\ InHand(K)
  BY DEF HookDarken, At, Hooking, Shape, Control
<1>3. h \in Hooks(K) /\ h.then = hook.then /\ Head(hook.darken) \in K
  <2>1. hook \in Hooks(K) /\ h \in Hooks(K)
    BY <1>2, HookInHooks
  <2>2. h.then = hook.then
    BY <2>1 DEF Hooks
  <2>3. Head(hook.darken) \in K
    BY <1>2, <2>1 DEF Hooks
  <2> QED
    BY <2>1, <2>2, <2>3
<1>4. Goes(h) /\ heap' = Coloured(Head(hook.darken), grey)
      /\ UNCHANGED <<node, cpc, chunk, scan, registers, bindings, loc>>
  BY DEF HookDarken, AllocatorIdle, collectorVars
<1> HIDE DEF h
<1> QED
  BY <1>1, <1>2, <1>3, <1>4, HookWrites DEF grey

LEMMA HookBlackenKeeps ==
  ASSUME NEW K, NEW o, NEW c, Shape(K, o, c), HookBlacken
  PROVE  Shape(K, o, c)' /\ SameWords(K) /\ SameStacks
<1> DEFINE h == [hook EXCEPT !.blacken = NULL]
<1>1. SwapInv'
  BY MutatorKeepsSwapInv DEF MutatorStep, Shape
<1>2. Hooking /\ InHand(K) /\ hook.blacken # NULL
  BY DEF HookBlacken, At, Hooking, Shape, Control
<1>3. h \in Hooks(K) /\ h.then = hook.then /\ hook.blacken \in K
  BY <1>2, HookInHooks DEF Hooks, OrNull
<1>4. Goes(h) /\ heap' = Coloured(hook.blacken, black)
      /\ UNCHANGED <<node, cpc, chunk, scan, registers, bindings, loc>>
  BY DEF HookBlacken, AllocatorIdle, collectorVars
<1>5. black \in 0 .. 3
  BY DEF Shape, SwapInv, Colours
<1> HIDE DEF h
<1> QED
  BY <1>1, <1>2, <1>3, <1>4, <1>5, HookWrites

(* A hook starts. *)
LEMMA LooksKnown ==
  ASSUME NEW K, Words(K), Ranges, NEW i \in K
  PROVE  /\ Looks(i) \in Seq(K) /\ LooksAfter(i) \in Seq(K)
         /\ \A x \in Range(Successors(i)) : x = NULL \/ x \in K
<1>1. Successors(i) = <<>> \/ \E x, y \in OrNull(K) : Successors(i) = <<x, y>>
  BY DEF Successors, SuccessorsIn, Words, Nodes, Lists, Values, OrNull, Ranges
<1>2. \A x \in OrNull(K) : Looks(x) \in Seq(K)
  BY DEF Looks, OrNull, Darkens
<1>3. i \in OrNull(K)
  BY DEF OrNull
<1>4. CASE Successors(i) = <<>>
  BY <1>2, <1>3, <1>4 DEF LooksAfter, Range
<1>5. ASSUME NEW x \in OrNull(K), NEW y \in OrNull(K), Successors(i) = <<x, y>>
      PROVE  LooksAfter(i) \in Seq(K) /\ \A z \in Range(Successors(i)) : z = NULL \/ z \in K
  <2>1. LooksAfter(i) = Looks(x) \o Looks(y)
    BY <1>5 DEF LooksAfter
  <2>2. Looks(x) \in Seq(K) /\ Looks(y) \in Seq(K)
    BY <1>2
  <2>3. Range(Successors(i)) = {x, y}
    BY <1>5 DEF Range
  <2> QED
    BY <2>1, <2>2, <2>3 DEF OrNull
<1> QED
  BY <1>1, <1>2, <1>3, <1>4, <1>5

LEMMA HookStarts ==
  ASSUME NEW K, NEW o, NEW c, Shape(K, o, c), SwapInv', ~ Hooking, todo # <<>>, NEW h \in Hooks(K), Goes(h),
         \/ mpc = "op" /\ h.then = "alloc" /\ now.op \in Pushes
         \/ mpc = "link_hook" /\ h.then = "last"
         \/ mpc = "op" /\ h.then = "unlink" /\ now.op = "pop_to_register",
         UNCHANGED <<heap, node, cpc, chunk, scan, registers, bindings, loc>>
  PROVE  Shape(K, o, c)'
<1> USE DEF Shape
<1>2. Ranges' /\ SameWords(K) /\ SameStacks
  BY DEF Ranges, SameWords, SameStacks, Roots0, Addr, Pointer
<1>6. /\ todo' = todo
      /\ \/ mpc' = "hook" /\ hook' = h /\ (h.darken # <<>> \/ h.blacken # NULL)
         \/ mpc' = h.then /\ hook' = NoHook
  BY GoesWhere
<1>8. Linking' = Linking /\ HasNode' = HasNode
  BY <1>6 DEF Linking, HasNode, Hooking
<1>9. InHand(K)'
  BY <1>2, <1>6, <1>8, HandsFrame DEF Hooking
<1>10. Control'
  BY <1>6, <1>8 DEF Control, Hooking, now
<1> QED
  BY <1>2, <1>6, <1>8, <1>9, <1>10, Still DEF Waiting, Linking, Hooking

LEMMA PushHookHooks ==
  ASSUME NEW K, Words(K), Ranges, NEW l \in K, NEW d \in K, NEW then \in {"alloc", "unlink", "last"},
         PushHook(l, d, then)
  PROVE  \E h \in Hooks(K) : Goes(h) /\ h.then = then
<1>1. /\ Looks(l) \in Seq(K) /\ LooksAfter(l) \in Seq(K)
      /\ Looks(d) \in Seq(K) /\ LooksAfter(d) \in Seq(K)
  BY LooksKnown
<1>2. PICK s \in Seq(K), b \in OrNull(K) : Goes([darken |-> s, blacken |-> b, then |-> then])
  <2>1. LooksAfter(d) \o Looks(l) \o LooksAfter(l) \in Seq(K)
    BY <1>1
  <2>2. Looks(l) \o LooksAfter(l) \o Looks(d) \in Seq(K)
    BY <1>1
  <2>3. NULL \in OrNull(K) /\ d \in OrNull(K)
    BY DEF OrNull
  <2> QED
    BY <2>1, <2>2, <2>3 DEF PushHook, Hook
<1>3. [darken |-> s, blacken |-> b, then |-> then] \in Hooks(K)
  BY DEF Hooks
<1> QED
  BY <1>2, <1>3

LEMMA StartsKeep ==
  ASSUME NEW K, NEW o, NEW c, Shape(K, o, c), StartPush \/ LinkHook \/ StartPop
  PROVE  Shape(K, o, c)'
<1> USE DEF Shape
<1>1. SwapInv'
  BY MutatorKeepsSwapInv DEF MutatorStep
<1>2. todo # <<>> /\ ~ Hooking /\ UNCHANGED <<heap, node, cpc, chunk, scan, registers, bindings, loc>>
  BY DEF StartPush, LinkHook, StartPop, In, At, AllocatorIdle, collectorVars, Hooking
<1>3. CASE StartPush
  <2>1. P \in K /\ X \in K /\ mpc = "op" /\ now.op \in Pushes
    BY <1>2, <1>3, PushKnown DEF StartPush, In, At, Pushes, Lists, Values
  <2>2. PICK h \in Hooks(K) : Goes(h) /\ h.then = "alloc"
    BY <1>3, <2>1, PushHookHooks DEF StartPush
  <2> QED
    BY <1>1, <1>2, <2>1, <2>2, HookStarts
<1>4. CASE LinkHook
  <2>1. mpc = "link_hook" /\ now.op \in Pushes
    BY <1>4 DEF LinkHook, At, Control, Pushes
  <2>2. P \in K /\ node \in K
    BY <1>2, <2>1, PushKnown DEF Lists, InHand, HasNode, Linking, Nodes
  <2>3. PICK h \in Hooks(K) : Goes(h) /\ h.then = "last"
    BY <1>4, <2>2, PushHookHooks DEF LinkHook
  <2> QED
    BY <1>1, <1>2, <2>1, <2>3, HookStarts
<1>5. CASE StartPop
  <2>1. mpc = "op" /\ now.op = "pop_to_register"
    BY <1>5 DEF StartPop, In, At
  <2>2. P \in Lists(K)
    BY <1>2, <2>1, PopKnown
  <2>3. IsEmpty(P) \/ heap[heap[P].a].a \in K
    <3>1. LastOf(P) = heap[P].b
      BY <2>1 DEF LastOf, Linking, Hooking
    <3>2. heap[P].a \in Nodes(K) \/ (heap[P].a = NULL /\ heap[P].b = NULL)
      BY <2>2, <3>1 DEF Words, Owned, OrNull
    <3>3. heap[P].a \in Nodes(K) => heap[heap[P].a].a \in K
      BY DEF Words, Values
    <3> QED
      BY <3>2, <3>3 DEF IsEmpty, EmptyIn
  <2>4. PICK s \in Seq(K) : Goes([darken |-> s, blacken |-> NULL, then |-> "unlink"])
    <3>1. IsEmpty(P) \/ Looks(heap[heap[P].a].a) \in Seq(K)
      BY <2>3, LooksKnown
    <3>2. <<>> \in Seq(K)
      OBVIOUS
    <3> QED
      BY <1>5, <3>1, <3>2 DEF StartPop, PopHook, Hook
  <2>5. [darken |-> s, blacken |-> NULL, then |-> "unlink"] \in Hooks(K)
    BY DEF Hooks, OrNull
  <2> QED
    BY <1>1, <1>2, <2>1, <2>4, <2>5, HookStarts
<1> QED
  BY <1>3, <1>4, <1>5

-----------------------------------------------------------------------------
(* Lists change. *)

WrittenA(x, v) == [heap EXCEPT ![x].a = v]
WrittenB(x, v) == [heap EXCEPT ![x].b = v]

LEMMA WriteA ==
  ASSUME SwapInv, NEW x, NEW v, heap' = WrittenA(x, v)
  PROVE  /\ \A i \in Addr : heap'[i].type = heap[i].type /\ heap'[i].colour = heap[i].colour
                            /\ heap'[i].b = heap[i].b
         /\ \A i \in Addr : heap'[i].a = IF i = x THEN v ELSE heap[i].a
<1>1. DOMAIN heap = Addr
  BY DEF SwapInv, HeapOfRecords
<1>2. \A i \in Addr : heap'[i] = IF i = x THEN [heap[i] EXCEPT !.a = v] ELSE heap[i]
  BY <1>1 DEF WrittenA
<1>3. \A i \in Addr : DOMAIN heap[i] = {"type", "colour", "a", "b"}
  BY DEF SwapInv, HeapOfRecords, Record
<1> QED
  BY <1>2, <1>3

LEMMA WriteB ==
  ASSUME SwapInv, NEW x, NEW v, heap' = WrittenB(x, v)
  PROVE  /\ \A i \in Addr : heap'[i].type = heap[i].type /\ heap'[i].colour = heap[i].colour
                            /\ heap'[i].a = heap[i].a
         /\ \A i \in Addr : heap'[i].b = IF i = x THEN v ELSE heap[i].b
<1>1. DOMAIN heap = Addr
  BY DEF SwapInv, HeapOfRecords
<1>2. \A i \in Addr : heap'[i] = IF i = x THEN [heap[i] EXCEPT !.b = v] ELSE heap[i]
  BY <1>1 DEF WrittenB
<1>3. \A i \in Addr : DOMAIN heap[i] = {"type", "colour", "a", "b"}
  BY DEF SwapInv, HeapOfRecords, Record
<1> QED
  BY <1>2, <1>3

(* Where locals, registers and bindings are known to be, as far as types   *)
(* go: knowing that a list is not empty takes more.                        *)
LEMMA IsAType ==
  ASSUME NEW i, heap'[i].type = heap[i].type, NEW kind, kind # "list+", IsA(heap, i, kind)
  PROVE  IsA(heap, i, kind)'
BY DEF IsA

LEMMA LocalsKept ==
  ASSUME NEW K, NEW K2, NEW c, KnowsLocals(K, c), loc' = loc, Values(K) \subseteq Values(K2)',
         \A i \in K : heap'[i].type = heap[i].type, \A e \in c.loc : e[2] # "list+"
  PROVE  KnowsLocals(K2, c)'
BY IsAType DEF KnowsLocals, Values

LEMMA BoundKept ==
  ASSUME NEW K, NEW K2, NEW c, KnowsBound(K, c), bindings' = bindings, Values(K) \subseteq Values(K2)',
         \A i \in K : heap'[i].type = heap[i].type
  PROVE  KnowsBound(K2, c)'
BY IsAType DEF KnowsBound, Values

LEMMA RegistersStay ==
  ASSUME NEW K, NEW K2, NEW c, NEW d, KnowsRegisters(K, c), d.regs = c.regs, registers' = registers,
         InRegisters' = InRegisters,
         Values(K) \subseteq Values(K2)', \A i \in K : heap'[i].type = heap[i].type
  PROVE  KnowsRegisters(K2, d)'
<1>1. \A k \in 1 .. Len(c.regs) : c.regs[k] # "list+"
  BY DEF KnowsRegisters, Kept
<1> QED
  BY <1>1, IsAType DEF KnowsRegisters, Values

(* What the mutator has at hand when it links a new node. *)
LEMMA AtLink ==
  ASSUME NEW K, NEW o, NEW c, Shape(K, o, c), mpc = "link"
  PROVE  /\ P \in Lists(K) /\ P \in K /\ P \in Addr /\ node \in Nodes(K) /\ node \in K /\ node \in Addr
         /\ P # node /\ X \in Values(K)
         /\ now.op \in Pushes /\ todo # <<>> /\ ~ Linking /\ \A l : LastOf(l) = heap[l].b
         /\ NULL \notin Addr /\ K \subseteq Addr
         /\ \A e \in c.loc : e[2] # "list+"
<1> USE DEF Shape
<1>1. now.op \in Pushes /\ todo # <<>> /\ node \in Nodes(K) /\ ~ Linking
  BY DEF Control, HasNode, InHand, Linking, Hooking
<1>2. P \in Lists(K) /\ X \in Values(K)
  BY <1>1, PushKnown
<1>3. PICK d : TypedPush(now, c, d)
  BY <1>1, TypedNow, TypedAs
<1> QED
  BY <1>1, <1>2, <1>3 DEF Lists, Nodes, Words, LastOf, TypedPush, Addr, NULL

Links(o, n, l) == [i \in Addr |-> IF i = n THEN l ELSE o[i]]

LEMMA LinkFrontKeeps ==
  ASSUME NEW K, NEW o, NEW c, Shape(K, o, c), LinkFront, NEW q, q = Links(o, node, P)
  PROVE  Shape(K, q, c)'
<1>0. mpc = "link" /\ now.op = "push_front" /\ todo # <<>> /\ process = "running"
  BY DEF LinkFront, In, At
<1>1. /\ mpc' = "link_hook" /\ todo' = todo /\ heap' = [heap EXCEPT ![P].a = node]
      /\ UNCHANGED <<loc, bindings, registers, hook, node, cpc, chunk, scan>>
  BY DEF LinkFront, Stay, AllocatorIdle, collectorVars
<1>2. SwapInv'
  BY MutatorKeepsSwapInv DEF MutatorStep, Shape
<1>3. /\ \A i \in Addr : heap'[i].type = heap[i].type /\ heap'[i].colour = heap[i].colour
                         /\ heap'[i].b = heap[i].b
      /\ \A i \in Addr : heap'[i].a = IF i = P THEN node ELSE heap[i].a
  <2>1. SwapInv /\ heap' = WrittenA(P, node)
    BY <1>1 DEF Shape, WrittenA
  <2> QED
    BY <2>1, WriteA
<1>4. /\ P \in Lists(K) /\ P \in K /\ P \in Addr /\ node \in Nodes(K) /\ node \in K /\ node \in Addr
      /\ P # node /\ X \in Values(K)
      /\ now.op \in Pushes /\ todo # <<>> /\ ~ Linking /\ \A l : LastOf(l) = heap[l].b
      /\ NULL \notin Addr /\ K \subseteq Addr
      /\ \A e \in c.loc : e[2] # "list+"
  BY <1>0, AtLink
<1>5. /\ Nodes(K)' = Nodes(K) /\ Lists(K)' = Lists(K) /\ Values(K)' = Values(K)
      /\ \A i \in K : heap'[i].type = heap[i].type
  BY <1>1, <1>3, <1>4, SetsSame DEF SameStacks, Shape, Roots0
<1>6. Linking' /\ HasNode' /\ ~ Hooking' /\ ~ Waiting /\ P' = P /\ now' = now /\ ~ Hooking /\ Addr' = Addr
  BY <1>0, <1>1 DEF Linking, HasNode, Hooking, Waiting, P, now, Addr
<1>7. Ranges'
  BY <1>3, <1>4 DEF Shape, Ranges, Addr, Pointer
<1>8. Words(K)'
  BY <1>3, <1>4, <1>5, <1>6 DEF Shape, Words, OrNull, Lists, Nodes
<1>9. Roots0(K)'
  BY <1>1, <1>5 DEF Shape, Roots0, OrNull
<1>10. InHand(K)'
  BY <1>0, <1>1, <1>3, <1>4, <1>5, <1>6 DEF Shape, InHand, HasNode, InWork, Greys
<1>11. Control'
  BY <1>0, <1>1, <1>6 DEF Shape, Control, HasNode, Linking, Hooking, Pushes
<1>12. Halfway(K)'
  BY <1>1, <1>3, <1>4, <1>6 DEF Halfway
<1>13. Fresh(K, q)'
  BY <1>1 DEF Fresh
<1>14. Owned(K, q)'
  <2>1. /\ heap[node].b = heap[P].a /\ o[node] = NULL
        /\ \A i \in Nodes(K) \cup Lists(K) : heap[i].a # node /\ heap[i].b # node
    BY <1>0 DEF Shape, Fresh
  <2>2. \A l \in Lists(K) : LastOf(l)' = IF l = P /\ heap[l].b = NULL THEN node ELSE heap[l].b
    BY <1>0, <1>1, <1>3, <1>4, <1>6 DEF LastOf, Lists
  <2>3. q[node] = P /\ \A n \in Nodes(K) : n # node => q[n] = o[n]
    BY <1>4 DEF Links, Nodes
  <2>4. \A l \in Lists(K) : heap'[l].a = (IF l = P THEN node ELSE heap[l].a) /\ l \in Addr
    BY <1>3, <1>4 DEF Lists
  <2>5. \A n \in Nodes(K) : heap'[n].b = heap[n].b /\ n \in Addr
    BY <1>3, <1>4 DEF Nodes
  <2>6. Owned(K, o)
    BY DEF Shape
  <2>7. Words(K)
    BY DEF Shape
  <2>8. \A n \in Nodes(K) : q[n] \in OrNull(Lists(K))
    BY <2>3, <2>6, <1>4 DEF Owned, OrNull
  <2>9. \A l \in Lists(K) : heap'[l].a = NULL <=> LastOf(l)' = NULL
    BY <2>2, <2>4, <2>6, <1>4 DEF Owned
  <2>10. ASSUME NEW l \in Lists(K), heap'[l].a # NULL
         PROVE  /\ q[heap'[l].a] = l
                /\ LastOf(l)' \in Nodes(K) /\ q[LastOf(l)'] = l /\ heap'[LastOf(l)'].b = NULL
    <3>1. CASE l # P
      <4>1. heap[l].a # NULL /\ heap[l].a \in Nodes(K) /\ heap[l].a # node /\ heap[l].b # node
        BY <3>1, <2>1, <2>4, <2>7, <2>10 DEF Words, OrNull
      <4>2. o[heap[l].a] = l /\ LastOf(l) = heap[l].b /\ LastOf(l) \in Nodes(K)
            /\ o[LastOf(l)] = l /\ heap[LastOf(l)].b = NULL
        BY <4>1, <2>6, <1>4 DEF Owned
      <4> QED
        BY <3>1, <4>1, <4>2, <2>2, <2>3, <2>4, <2>5
    <3>2. CASE l = P /\ heap[P].b = NULL
      <4>1. heap[P].a = NULL
        BY <3>2, <2>6, <1>4 DEF Owned
      <4> QED
        BY <3>2, <4>1, <2>1, <2>2, <2>3, <2>4, <2>5, <1>4
    <3>3. CASE l = P /\ heap[P].b # NULL
      <4>1. heap[P].a # NULL /\ LastOf(P) = heap[P].b
        BY <3>3, <2>6, <1>4 DEF Owned
      <4>2. heap[P].b \in Nodes(K) /\ o[heap[P].b] = P /\ heap[heap[P].b].b = NULL /\ heap[P].b # node
        BY <4>1, <2>1, <2>6, <1>4 DEF Owned
      <4> QED
        BY <3>3, <4>2, <2>2, <2>3, <2>4, <2>5, <1>4
    <3> QED
      BY <3>1, <3>2, <3>3
  <2>11. ASSUME NEW n \in Nodes(K), q[n] # NULL
         PROVE  /\ heap'[n].b = NULL => n = LastOf(q[n])'
                /\ heap'[n].b # NULL => q[heap'[n].b] = q[n]
    <3>1. CASE n = node
      <4>1. heap[P].a # NULL => o[heap[P].a] = P /\ heap[P].a # node /\ heap[P].a \in Nodes(K)
        BY <2>1, <2>6, <2>7, <1>4 DEF Owned, Words, OrNull
      <4>2. heap[P].a = NULL => heap[P].b = NULL
        BY <2>6, <1>4 DEF Owned
      <4> QED
        BY <3>1, <4>1, <4>2, <2>1, <2>2, <2>3, <2>5, <1>4
    <3>2. CASE n # node
      <4>1. o[n] # NULL /\ q[n] = o[n] /\ o[n] \in Lists(K)
        BY <3>2, <2>3, <2>6, <2>11 DEF Owned, OrNull
      <4>2. heap[n].b = NULL => n = heap[o[n]].b
        BY <4>1, <2>6, <1>4 DEF Owned
      <4>3. heap[n].b # NULL => heap[n].b \in Nodes(K) /\ heap[n].b # node /\ o[heap[n].b] = o[n]
        BY <4>1, <2>1, <2>6, <2>7 DEF Owned, Words, OrNull
      <4> QED
        BY <3>2, <4>1, <4>2, <4>3, <2>2, <2>3, <2>5, <1>4 DEF Nodes
    <3> QED
      BY <3>1, <3>2
  <2> QED
    BY <1>1, <1>5, <2>8, <2>9, <2>10, <2>11 DEF Owned, OrNull
<1>15. Knows(K, c)'
  <2>1. Rest' = Rest /\ InRegisters' = InRegisters
    BY <1>0, <1>1 DEF Rest, InRegisters
  <2> QED
    BY <1>1, <1>4, <1>5, <1>6, <2>1, LocalsKept, BoundKept, RegistersStay DEF Shape, Knows
<1> QED
  BY <1>2, <1>7, <1>8, <1>9, <1>10, <1>11, <1>12, <1>13, <1>14, <1>15 DEF Shape

LEMMA LinkBackKeeps ==
  ASSUME NEW K, NEW o, NEW c, Shape(K, o, c), LinkBack, NEW q, q = Links(o, node, P)
  PROVE  Shape(K, q, c)'
<1>0. mpc = "link" /\ now.op = "push_back" /\ todo # <<>> /\ process = "running"
  BY DEF LinkBack, In, At
<1>1. /\ mpc' = "last" /\ todo' = todo
      /\ heap' = IF heap[P].a = NULL THEN WrittenA(P, node) ELSE WrittenB(heap[P].b, node)
      /\ UNCHANGED <<loc, bindings, registers, hook, node, cpc, chunk, scan>>
  BY DEF LinkBack, Stay, AllocatorIdle, collectorVars, WrittenA, WrittenB
<1>2. SwapInv'
  BY MutatorKeepsSwapInv DEF MutatorStep, Shape
<1>3. /\ \A i \in Addr : heap'[i].type = heap[i].type /\ heap'[i].colour = heap[i].colour
      /\ \A i \in Addr : heap'[i].a = IF heap[P].a = NULL /\ i = P THEN node ELSE heap[i].a
      /\ \A i \in Addr : heap'[i].b = IF heap[P].a # NULL /\ i = heap[P].b THEN node ELSE heap[i].b
  <2>1. SwapInv
    BY DEF Shape
  <2>2. CASE heap[P].a = NULL
    <3>1. heap' = WrittenA(P, node)
      BY <1>1, <2>2
    <3> QED
      BY <2>1, <2>2, <3>1, WriteA
  <2>3. CASE heap[P].a # NULL
    <3>1. heap' = WrittenB(heap[P].b, node)
      BY <1>1, <2>3
    <3> QED
      BY <2>1, <2>3, <3>1, WriteB
  <2> QED
    BY <2>2, <2>3
<1>4. /\ P \in Lists(K) /\ P \in K /\ P \in Addr /\ node \in Nodes(K) /\ node \in K /\ node \in Addr
      /\ P # node /\ X \in Values(K)
      /\ now.op \in Pushes /\ todo # <<>> /\ ~ Linking /\ \A l : LastOf(l) = heap[l].b
      /\ NULL \notin Addr /\ K \subseteq Addr
      /\ \A e \in c.loc : e[2] # "list+"
  BY <1>0, AtLink
<1>5. /\ Nodes(K)' = Nodes(K) /\ Lists(K)' = Lists(K) /\ Values(K)' = Values(K)
      /\ \A i \in K : heap'[i].type = heap[i].type
  BY <1>1, <1>3, <1>4, SetsSame DEF SameStacks, Shape, Roots0
<1>6. Linking' /\ HasNode' /\ ~ Hooking' /\ ~ Waiting /\ P' = P /\ now' = now /\ ~ Hooking /\ Addr' = Addr
  BY <1>0, <1>1 DEF Linking, HasNode, Hooking, Waiting, P, now, Addr
<1>7. Ranges'
  BY <1>3, <1>4 DEF Shape, Ranges, Addr, Pointer
<1>a. heap[P].a # NULL => heap[P].b \in Nodes(K) /\ o[heap[P].b] = P /\ heap[heap[P].b].b = NULL
  BY <1>4 DEF Shape, Owned
<1>8. Words(K)'
  <2>1. Words(K)
    BY DEF Shape
  <2>2. \A i \in Nodes(K) : heap'[i].a = heap[i].a /\ heap'[i].b \in {heap[i].b, node}
    BY <1>3, <1>4 DEF Nodes, Lists
  <2>3. \A i \in Lists(K) : heap'[i].a \in {heap[i].a, node} /\ heap'[i].b = heap[i].b
    BY <1>3, <1>4, <1>a DEF Nodes, Lists
  <2>4. \A i \in K : heap[i].type \in {"symbol", "escaped"} => heap'[i].a = heap[i].a
    BY <1>3, <1>4 DEF Lists
  <2> QED
    BY <2>1, <2>2, <2>3, <2>4, <1>4, <1>5, <1>6 DEF Words, OrNull
<1>9. Roots0(K)'
  BY <1>1, <1>5 DEF Shape, Roots0, OrNull
<1>10. InHand(K)'
  BY <1>0, <1>1, <1>3, <1>4, <1>5, <1>6 DEF Shape, InHand, HasNode, InWork, Greys
<1>11. Control'
  BY <1>0, <1>1, <1>6 DEF Shape, Control, HasNode, Linking, Hooking, Pushes
<1>12. Halfway(K)'
  BY <1>0, <1>1, <1>3, <1>4, <1>6 DEF Halfway
<1>13. Fresh(K, q)'
  BY <1>1 DEF Fresh
<1>14. Owned(K, q)'
  <2>1. /\ heap[node].b = NULL /\ o[node] = NULL
        /\ \A i \in Nodes(K) \cup Lists(K) : heap[i].a # node /\ heap[i].b # node
    BY <1>0 DEF Shape, Fresh
  <2>2. \A l \in Lists(K) : LastOf(l)' = IF l = P THEN node ELSE heap[l].b
    BY <1>0, <1>1, <1>3, <1>4, <1>5, <1>6, <1>a DEF LastOf, Lists, Nodes
  <2>3. q[node] = P /\ \A n \in Nodes(K) : n # node => q[n] = o[n]
    BY <1>4 DEF Links, Nodes
  <2>4. \A l \in Lists(K) : /\ heap'[l].a = IF heap[P].a = NULL /\ l = P THEN node ELSE heap[l].a
                            /\ l \in Addr
    BY <1>3, <1>4 DEF Lists
  <2>5. \A n \in Nodes(K) : /\ heap'[n].b = IF heap[P].a # NULL /\ n = heap[P].b THEN node ELSE heap[n].b
                            /\ n \in Addr
    BY <1>3, <1>4 DEF Nodes
  <2>6. Owned(K, o)
    BY DEF Shape
  <2>7. Words(K)
    BY DEF Shape
  <2>8. \A n \in Nodes(K) : q[n] \in OrNull(Lists(K))
    BY <2>3, <2>6, <1>4 DEF Owned, OrNull
  <2>9. \A l \in Lists(K) : heap'[l].a = NULL <=> LastOf(l)' = NULL
    BY <2>2, <2>4, <2>6, <1>4 DEF Owned
  <2>10. ASSUME NEW l \in Lists(K), heap'[l].a # NULL
         PROVE  /\ q[heap'[l].a] = l
                /\ LastOf(l)' \in Nodes(K) /\ q[LastOf(l)'] = l /\ heap'[LastOf(l)'].b = NULL
    <3>1. CASE l # P
      <4>1. heap[l].a # NULL /\ heap[l].a \in Nodes(K) /\ heap[l].a # node /\ heap[l].b # node
        BY <3>1, <2>1, <2>4, <2>7, <2>10 DEF Words, OrNull
      <4>2. o[heap[l].a] = l /\ LastOf(l) = heap[l].b /\ LastOf(l) \in Nodes(K)
            /\ o[LastOf(l)] = l /\ heap[LastOf(l)].b = NULL
        BY <4>1, <2>6, <1>4 DEF Owned
      <4> QED
        BY <3>1, <4>1, <4>2, <2>2, <2>3, <2>4, <2>5, <1>a
    <3>2. CASE l = P
      <4>1. heap[P].a # NULL => o[heap[P].a] = P /\ heap[P].a \in Nodes(K) /\ heap[P].a # node
        BY <2>1, <2>6, <2>7, <1>4 DEF Owned, Words, OrNull
      <4>2. heap[P].b # node
        BY <2>1, <1>4
      <4> QED
        BY <3>2, <4>1, <4>2, <2>1, <2>2, <2>3, <2>4, <2>5, <1>4
    <3> QED
      BY <3>1, <3>2
  <2>11. ASSUME NEW n \in Nodes(K), q[n] # NULL
         PROVE  /\ heap'[n].b = NULL => n = LastOf(q[n])'
                /\ heap'[n].b # NULL => q[heap'[n].b] = q[n]
    <3>1. CASE n = node
      <4>2. heap[P].b # node
        BY <2>1, <1>4
      <4> QED
        BY <3>1, <4>2, <2>1, <2>2, <2>3, <2>5, <1>4
    <3>2. CASE n # node
      <4>1. o[n] # NULL /\ q[n] = o[n] /\ o[n] \in Lists(K)
        BY <3>2, <2>3, <2>6, <2>11 DEF Owned, OrNull
      <4>2. heap[n].b = NULL => n = heap[o[n]].b
        BY <4>1, <2>6, <1>4 DEF Owned
      <4>3. heap[n].b # NULL => heap[n].b \in Nodes(K) /\ heap[n].b # node /\ o[heap[n].b] = o[n]
        BY <4>1, <2>1, <2>6, <2>7 DEF Owned, Words, OrNull
      <4>4. CASE heap[P].a # NULL /\ n = heap[P].b
        BY <4>1, <4>4, <2>3, <2>5, <1>4, <1>a
      <4>5. CASE ~ (heap[P].a # NULL /\ n = heap[P].b)
        <5>1. heap'[n].b = heap[n].b
          BY <4>5, <2>5
        <5>2. o[n] = P /\ heap[n].b = NULL => FALSE
          <6>1. heap[P].a = NULL => heap[P].b = NULL
            BY <2>6, <1>4 DEF Owned
          <6> QED
            BY <4>2, <4>5, <6>1, <1>4 DEF Nodes
        <5> QED
          BY <3>2, <4>1, <4>2, <4>3, <5>1, <5>2, <2>2, <2>3, <1>4
      <4> QED
        BY <4>4, <4>5
    <3> QED
      BY <3>1, <3>2
  <2> QED
    BY <1>1, <1>5, <2>8, <2>9, <2>10, <2>11 DEF Owned, OrNull
<1>15. Knows(K, c)'
  <2>1. Rest' = Rest /\ InRegisters' = InRegisters
    BY <1>0, <1>1 DEF Rest, InRegisters
  <2> QED
    BY <1>1, <1>4, <1>5, <1>6, <2>1, LocalsKept, BoundKept, RegistersStay DEF Shape, Knows
<1> QED
  BY <1>2, <1>7, <1>8, <1>9, <1>10, <1>11, <1>12, <1>13, <1>14, <1>15 DEF Shape

(* An operation is over: nothing is known of the items. *)
LEMMA PushOver ==
  ASSUME NEW c, NEW d, TypedPush(now, c, d)
  PROVE  /\ \A e \in d.loc : e \in c.loc /\ e[2] # "list+"
         /\ d.regs = c.regs /\ d.top = <<>> /\ d.bound = {} /\ d.code = FALSE
BY DEF TypedPush, Forgets

LEMMA LinkLastKeeps ==
  ASSUME NEW K, NEW o, NEW c, Shape(K, o, c), LinkLast, NEW d, TypedPush(now, c, d),
         Certified(Plain, Tail(todo), d)
  PROVE  Shape(K, o, d)'
<1>0. mpc = "last" /\ todo # <<>> /\ process = "running" /\ Linking /\ ~ Hooking /\ ~ Waiting
  BY DEF LinkLast, At, Linking, Hooking, Waiting
<1>1. /\ mpc' = "op" /\ todo' = Tail(todo) /\ node' = NULL
      /\ heap' = IF now.op = "push_back" \/ heap[P].b = NULL THEN WrittenB(P, node) ELSE heap
      /\ UNCHANGED <<loc, bindings, registers, hook, cpc, chunk, scan>>
  BY DEF LinkLast, Finish, AllocatorIdle, collectorVars, WrittenB
<1>2. SwapInv'
  BY MutatorKeepsSwapInv DEF MutatorStep, Shape
<1>3. \A i \in Addr : /\ heap'[i].type = heap[i].type /\ heap'[i].colour = heap[i].colour
                      /\ heap'[i].a = heap[i].a
                      /\ heap'[i].b = IF i = P /\ (now.op = "push_back" \/ heap[P].b = NULL)
                                      THEN node ELSE heap[i].b
  <2>1. SwapInv
    BY DEF Shape
  <2>2. CASE now.op = "push_back" \/ heap[P].b = NULL
    <3>1. heap' = WrittenB(P, node)
      BY <1>1, <2>2
    <3> QED
      BY <2>1, <2>2, <3>1, WriteB
  <2>3. CASE ~ (now.op = "push_back" \/ heap[P].b = NULL)
    BY <1>1, <2>3
  <2> QED
    BY <2>2, <2>3
<1>4. /\ P \in Lists(K) /\ P \in K /\ P \in Addr /\ node \in Nodes(K) /\ node \in K /\ node \in Addr
      /\ P # node /\ K \subseteq Addr
  <2>1. now.op \in Pushes /\ todo # <<>> /\ node \in Nodes(K)
    BY <1>0 DEF Shape, Control, HasNode, InHand
  <2>2. P \in Lists(K)
    BY <1>0, <2>1, PushKnown DEF Shape
  <2> QED
    BY <2>1, <2>2 DEF Lists, Nodes, Words, Shape
<1>5. /\ Nodes(K)' = Nodes(K) /\ Lists(K)' = Lists(K) /\ Values(K)' = Values(K)
      /\ \A i \in K : heap'[i].type = heap[i].type
  BY <1>1, <1>3, <1>4, SetsSame DEF SameStacks, Shape, Roots0
<1>6. ~ Linking' /\ ~ HasNode' /\ ~ Hooking' /\ Addr' = Addr
  BY <1>0, <1>1 DEF Linking, HasNode, Hooking, Addr
<1>7. Ranges'
  BY <1>3, <1>4 DEF Shape, Ranges, Addr, Pointer
<1>8. Words(K)'
  <2>1. \A i \in K : heap'[i].a = heap[i].a /\ heap'[i].b \in {heap[i].b, node}
    BY <1>3, <1>4
  <2>2. \A i \in Nodes(K) \cup Lists(K) : i \in K
    BY DEF Nodes, Lists
  <2> QED
    BY <2>1, <2>2, <1>4, <1>5, <1>6 DEF Shape, Words, OrNull
<1>9. Roots0(K)'
  BY <1>1, <1>5 DEF Shape, Roots0, OrNull
<1>10. InHand(K)'
  BY <1>0, <1>1, <1>3, <1>4, <1>5, <1>6 DEF Shape, InHand, HasNode, InWork, Greys
<1>11. Control'
  BY <1>0, <1>1, <1>6 DEF Shape, Control, HasNode, Linking, Hooking, Pushes
<1>12. Halfway(K)' /\ Fresh(K, o)'
  BY <1>1, <1>6 DEF Halfway, Fresh
<1>14. Owned(K, o)'
  <2>1. \A l \in Lists(K) : LastOf(l)' = LastOf(l)
    <3>1. \A l \in Lists(K) : LastOf(l)' = heap'[l].b
      BY <1>1, <1>6 DEF LastOf
    <3>2. \A l \in Lists(K) : LastOf(l) = IF l = P /\ (now.op = "push_back" \/ heap[P].b = NULL)
                                          THEN node ELSE heap[l].b
      BY <1>0 DEF LastOf
    <3> QED
      BY <3>1, <3>2, <1>3, <1>4 DEF Lists
  <2>2. \A n \in Nodes(K) : heap'[n].b = heap[n].b
    BY <1>3, <1>4 DEF Nodes, Lists
  <2>3. \A l \in Lists(K) : heap'[l].a = heap[l].a
    BY <1>3, <1>4 DEF Lists
  <2> QED
    BY <2>1, <2>2, <2>3, <1>5, OwnedSame DEF Shape
<1>15. Knows(K, d)'
  <2>1. Rest' = Tail(todo) /\ InRegisters' = InRegisters
    BY <1>0, <1>1 DEF Rest, InRegisters
  <2>2. /\ \A e \in d.loc : e \in c.loc /\ e[2] # "list+"
        /\ d.regs = c.regs /\ d.top = <<>> /\ d.bound = {} /\ d.code = FALSE
    BY PushOver
  <2>3. KnowsLocals(K, d)
    BY <2>2 DEF Shape, Knows, KnowsLocals
  <2>4. KnowsLocals(K, d)'
    BY <2>2, <2>3, <1>1, <1>5, LocalsKept
  <2>5. KnowsRegisters(K, d)'
    BY <2>1, <2>2, <1>1, <1>5, RegistersStay DEF Shape, Knows
  <2> QED
    BY <2>1, <2>2, <2>4, <2>5 DEF Knows, KnowsBound, KnowsItems
<1> QED
  BY <1>2, <1>7, <1>8, <1>9, <1>10, <1>11, <1>12, <1>14, <1>15 DEF Shape

(* An item goes. *)

LEMMA PopNonEmpty ==
  ASSUME NEW K, NEW o, NEW c, Shape(K, o, c), todo # <<>>, mpc \in {"op", "unlink"}, NEW d, TypedPop(now, c, d)
  PROVE  heap[P].a # NULL
<1> USE DEF Shape
<1>1. ~ Linking /\ mpc \notin {"alloc", "await", "granted", "link", "unlink_last"}
  BY DEF Linking, Hooking
<1>2. P \in Lists(K) /\ LastOf(P) = heap[P].b
  <2>1. now.op \in {"pop_to_register", "pop_front"}
    BY DEF TypedPop
  <2> QED
    BY <1>1, <2>1, PopKnown DEF LastOf
<1>3. CASE now.p = "ds" /\ c.top # <<>>
  <2>1. KnowsItems(c)
    BY <1>1 DEF Knows
  <2>2. Len(c.top) >= 1
    BY <1>3, <2>1 DEF KnowsItems
  <2> QED
    BY <1>3, <2>1, <2>2 DEF KnowsItems, KnowsItem, Item1, P
<1>4. CASE Is(c, now.p, "list+")
  <2>1. IsA(heap, P, "list+")
    BY <1>4 DEF Knows, KnowsLocals, Is, P
  <2> QED
    BY <1>2, <2>1 DEF IsA, EmptyIn, Owned
<1> QED
  BY <1>3, <1>4 DEF TypedPop

(* What the mutator has at hand when it unlinks. *)
LEMMA AtUnlink ==
  ASSUME NEW K, NEW o, NEW c, Shape(K, o, c), Unlink
  PROVE  /\ now.op \in {"pop_to_register", "pop_front"} /\ todo # <<>> /\ mpc \in {"op", "unlink"}
         /\ ~ Linking /\ ~ Hooking /\ ~ Waiting /\ ~ HasNode /\ \A l : LastOf(l) = heap[l].b
         /\ P \in Lists(K) /\ P \in K /\ P \in Addr /\ now.p \in DOMAIN loc
         /\ NULL \notin Addr /\ K \subseteq Addr
         /\ heap[P].a # NULL =>
              /\ heap[P].a \in Nodes(K) /\ heap[P].b \in Nodes(K) /\ heap[heap[P].a].a \in Values(K)
              /\ heap[heap[P].a].b = NULL <=> heap[P].a = heap[P].b
<1> USE DEF Shape
<1>1. now.op \in {"pop_to_register", "pop_front"} /\ todo # <<>> /\ mpc \in {"op", "unlink"}
  BY DEF Unlink, In, At, Control
<1>2. ~ Linking /\ ~ Hooking /\ ~ Waiting /\ ~ HasNode /\ \A l : LastOf(l) = heap[l].b
  BY <1>1 DEF Linking, Hooking, Waiting, HasNode, LastOf
<1>3. P \in Lists(K) /\ now.p \in DOMAIN loc
  BY <1>1, PopKnown
<1>4. ASSUME heap[P].a # NULL
      PROVE  /\ heap[P].a \in Nodes(K) /\ heap[P].b \in Nodes(K) /\ heap[heap[P].a].a \in Values(K)
             /\ heap[heap[P].a].b = NULL <=> heap[P].a = heap[P].b
  <2>1. heap[P].a \in Nodes(K) /\ heap[heap[P].a].a \in Values(K)
    BY <1>3, <1>4 DEF Words, OrNull
  <2>2. /\ o[heap[P].a] = P /\ LastOf(P) = heap[P].b
        /\ heap[P].b \in Nodes(K) /\ o[heap[P].b] = P /\ heap[heap[P].b].b = NULL
    BY <1>2, <1>3, <1>4 DEF Owned
  <2>3. P # NULL
    BY <1>3 DEF Lists, Words, Addr, NULL
  <2>4. heap[heap[P].a].b = NULL => heap[P].a = heap[P].b
    BY <1>2, <2>1, <2>2, <2>3 DEF Owned
  <2> QED
    BY <2>1, <2>2, <2>4
<1> QED
  BY <1>1, <1>2, <1>3, <1>4 DEF Lists, Words, Addr, NULL

Unowns(o, l) == [i \in Addr |-> IF o[i] = l THEN NULL ELSE o[i]]

LEMMA UnlinkKeeps ==
  ASSUME NEW K, NEW o, NEW c, Shape(K, o, c), Unlink, NEW d, Certified(Plain, Tail(todo), d),
         now.op = "pop_to_register" => TypedPop(now, c, d),
         now.op = "pop_front" => TypedDrop(now, c, d),
         NEW q, q = IF heap[P].a # NULL /\ heap[P].a = heap[P].b THEN Unowns(o, P) ELSE o
  PROVE  Shape(K, q, d)'
<1> DEFINE result == heap[heap[P].a].a
           last   == heap[P].a # NULL /\ heap[P].a = heap[P].b
           second == heap[heap[P].a].b
<1>0. /\ now.op \in {"pop_to_register", "pop_front"} /\ todo # <<>> /\ mpc \in {"op", "unlink"}
      /\ ~ Linking /\ ~ Hooking /\ ~ Waiting /\ ~ HasNode /\ \A l : LastOf(l) = heap[l].b
      /\ P \in Lists(K) /\ P \in K /\ P \in Addr /\ now.p \in DOMAIN loc
      /\ NULL \notin Addr /\ K \subseteq Addr
      /\ heap[P].a # NULL =>
           /\ heap[P].a \in Nodes(K) /\ heap[P].b \in Nodes(K) /\ heap[heap[P].a].a \in Values(K)
           /\ heap[heap[P].a].b = NULL <=> heap[P].a = heap[P].b
  BY AtUnlink
<1>1. /\ UNCHANGED <<bindings, hook, node, cpc, chunk, scan>>
      /\ heap' = IF heap[P].a = NULL THEN heap ELSE WrittenA(P, second)
      /\ IF last THEN mpc' = "unlink_last" /\ todo' = todo ELSE mpc' = "op" /\ todo' = Tail(todo)
  <2>1. UNCHANGED <<bindings, hook, node, cpc, chunk, scan>>
    BY DEF Unlink, AllocatorIdle, collectorVars
  <2>2. heap' = IF heap[P].a = NULL THEN heap ELSE WrittenA(P, second)
    BY <1>0 DEF Unlink, WrittenA
  <2>3. IF last THEN mpc' = "unlink_last" /\ todo' = todo ELSE mpc' = "op" /\ todo' = Tail(todo)
    BY DEF Unlink, Stay, Finish
  <2> QED
    BY <2>1, <2>2, <2>3
<1>2. /\ heap[P].a = NULL \/ now.op = "pop_front" => UNCHANGED <<loc, registers>>
      /\ heap[P].a # NULL /\ now.op = "pop_to_register" =>
           /\ loc' = [y \in DOMAIN loc \cup {now.x} |-> IF y = now.x THEN result ELSE loc[y]]
           /\ registers' = Append(registers, result)
  BY <1>0 DEF Unlink, Assign
<1>3. /\ \A i \in Addr : heap'[i].type = heap[i].type /\ heap'[i].colour = heap[i].colour
                         /\ heap'[i].b = heap[i].b
      /\ \A i \in Addr : heap'[i].a = IF i = P /\ heap[P].a # NULL THEN second ELSE heap[i].a
  <2>1. SwapInv
    BY DEF Shape
  <2>2. CASE heap[P].a = NULL
    BY <1>1, <2>2
  <2>3. CASE heap[P].a # NULL
    <3>1. heap' = WrittenA(P, second)
      BY <1>1, <2>3
    <3> HIDE DEF second
    <3> QED
      BY <2>1, <2>3, <3>1, WriteA
  <2> QED
    BY <2>2, <2>3
<1>4. now.op = "pop_to_register" =>
        /\ heap[P].a # NULL /\ now.x # now.p /\ now.x \notin Stacks
        /\ d.bound = {} /\ d.code = FALSE /\ d.regs = Append(c.regs, "any")
  BY <1>0, PopNonEmpty DEF TypedPop, Assigns, OwnLocal
<1>5. /\ SameStacks
      /\ now.p \in DOMAIN loc' /\ loc'[now.p] = P
  BY <1>0, <1>2, <1>4 DEF SameStacks, Stacks, Shape, Roots0, P
<1>6. /\ Nodes(K)' = Nodes(K) /\ Lists(K)' = Lists(K) /\ Values(K)' = Values(K)
      /\ \A i \in K : heap'[i].type = heap[i].type
  BY <1>0, <1>3, <1>5, SetsSame
<1>7. ~ Linking' /\ ~ HasNode' /\ ~ Hooking' /\ ~ Waiting' /\ Addr' = Addr
  BY <1>1 DEF Linking, HasNode, Hooking, Waiting, Addr
<1>8. SwapInv'
  BY MutatorKeepsSwapInv DEF MutatorStep, Shape
<1>9. heap[P].a # NULL => second \in OrNull(Nodes(K)) /\ second \in Pointer /\ result \in Values(K)
  BY <1>0 DEF Shape, Words, OrNull, Pointer, Nodes
<1> HIDE DEF result, last, second
<1>10. Ranges'
  BY <1>0, <1>3, <1>7, <1>9 DEF Shape, Ranges, Addr, Pointer
<1>11. Words(K)'
  <2>1. \A i \in Nodes(K) : heap'[i].a = heap[i].a /\ heap'[i].b = heap[i].b
    BY <1>0, <1>3 DEF Nodes, Lists
  <2>2. \A i \in Lists(K) : heap'[i].a \in OrNull(Nodes(K)) /\ heap'[i].b = heap[i].b
    BY <1>0, <1>3, <1>9 DEF Lists, Words, Shape
  <2>3. \A i \in K : heap[i].type \in {"symbol", "escaped"} => heap'[i].a = heap[i].a
    BY <1>0, <1>3 DEF Lists
  <2> QED
    BY <2>1, <2>2, <2>3, <1>6, <1>7 DEF Shape, Words, OrNull
<1>12. Roots0(K)'
  <2>1. registers' \in Seq(K)
    <3>1. registers \in Seq(K)
      BY DEF Shape, Roots0
    <3>2. heap[P].a # NULL => Append(registers, result) \in Seq(K)
      BY <1>9, <3>1 DEF Values
    <3> QED
      BY <1>0, <1>2, <3>1, <3>2
  <2> QED
    BY <2>1, <1>1, <1>5, <1>6 DEF Shape, Roots0, SameStacks, OrNull
<1>13. InHand(K)'
  BY <1>0, <1>1, <1>3, <1>6, <1>7 DEF Shape, InHand, InWork, Greys
<1>14. Control'
  BY <1>0, <1>1, <1>7 DEF Shape, Control, HasNode, Linking, Hooking, now
<1>15. mpc' = "unlink_last" => P' = P /\ last
  BY <1>1, <1>5 DEF P, now
<1>16. Halfway(K)' /\ Fresh(K, q)'
  <2>1. mpc' = "unlink_last" => heap'[P].a = NULL /\ now'.p \in DOMAIN loc'
    BY <1>0, <1>1, <1>3, <1>5, <1>15 DEF last, second, now
  <2> QED
    BY <1>0, <1>1, <1>6, <1>7, <1>15, <2>1 DEF Halfway, Fresh
<1>17. Owned(K, q)'
  <2>1. \A l \in Lists(K) : LastOf(l)' = IF last /\ l = P THEN NULL ELSE heap[l].b
    BY <1>0, <1>1, <1>3, <1>5, <1>7, <1>15 DEF LastOf, Lists
  <2>2. \A n \in Nodes(K) : heap'[n].b = heap[n].b /\ n \in Addr
    BY <1>0, <1>3 DEF Nodes
  <2>3. \A l \in Lists(K) : heap'[l].a = IF l = P /\ heap[P].a # NULL THEN second ELSE heap[l].a
    BY <1>0, <1>3 DEF Lists
  <2>4. \A n \in Nodes(K) : q[n] = IF last /\ o[n] = P THEN NULL ELSE o[n]
    BY <2>2 DEF Unowns, last
  <2>5. Owned(K, o) /\ Words(K)
    BY DEF Shape
  <2>7. \A n \in Nodes(K) : q[n] \in OrNull(Lists(K))
    BY <2>4, <2>5 DEF Owned, OrNull
  <2>8. heap[P].a # NULL => (second = NULL <=> last)
    BY <1>0 DEF second, last
  <2>9. heap[P].a # NULL /\ ~ last => second \in Nodes(K) /\ o[second] = P /\ P # NULL
    BY <1>0, <1>9, <2>5, <2>8 DEF Owned, OrNull, second
  <2>10. ASSUME NEW l \in Lists(K)
         PROVE  /\ heap'[l].a = NULL <=> LastOf(l)' = NULL
                /\ heap'[l].a # NULL =>
                     /\ q[heap'[l].a] = l
                     /\ LastOf(l)' \in Nodes(K) /\ q[LastOf(l)'] = l /\ heap'[LastOf(l)'].b = NULL
    <3>1. heap[l].a = NULL <=> heap[l].b = NULL
      BY <1>0, <2>5 DEF Owned
    <3>2. heap[l].a # NULL => /\ heap[l].a \in Nodes(K) /\ o[heap[l].a] = l
                              /\ heap[l].b \in Nodes(K) /\ o[heap[l].b] = l /\ heap[heap[l].b].b = NULL
      BY <1>0, <2>5 DEF Owned, Words, OrNull
    <3>3. CASE l # P \/ heap[P].a = NULL
      BY <3>1, <3>2, <3>3, <2>1, <2>2, <2>3, <2>4 DEF last
    <3>4. CASE l = P /\ last
      BY <3>4, <2>1, <2>3, <2>8 DEF last
    <3>5. CASE l = P /\ heap[P].a # NULL /\ ~ last
      BY <3>1, <3>2, <3>5, <2>1, <2>2, <2>3, <2>4, <2>8, <2>9
    <3> QED
      BY <3>3, <3>4, <3>5
  <2>11. ASSUME NEW n \in Nodes(K), q[n] # NULL
         PROVE  /\ heap'[n].b = NULL => n = LastOf(q[n])'
                /\ heap'[n].b # NULL => q[heap'[n].b] = q[n]
    <3>1. q[n] = o[n] /\ o[n] # NULL /\ ~ (last /\ o[n] = P) /\ o[n] \in Lists(K)
      BY <2>4, <2>5, <2>11 DEF Owned, OrNull
    <3>2. heap[n].b = NULL => n = heap[o[n]].b
      BY <1>0, <2>5, <3>1 DEF Owned
    <3>3. heap[n].b # NULL => heap[n].b \in Nodes(K) /\ o[heap[n].b] = o[n]
      BY <2>5, <3>1 DEF Owned, Words, OrNull
    <3> QED
      BY <3>1, <3>2, <3>3, <2>1, <2>2, <2>4
  <2> QED
    BY <1>1, <1>6, <2>7, <2>10, <2>11 DEF Owned, OrNull
<1>18. Rest' = Tail(todo) /\ InRegisters' = <<>> /\ InRegisters = <<>>
  BY <1>0, <1>1, <1>7 DEF Rest, InRegisters, Waiting
<1>a. \A i \in Values(K) : IsA(heap, i, "list+") /\ i # P => IsA(heap', i, "list+")
  BY <1>0, <1>3, <1>6 DEF IsA, EmptyIn, Values
<1>b. P = loc.ds => \A i \in Values(K) : \A kind : IsA(heap, i, kind) => IsA(heap', i, kind)
  BY <1>6, <1>a, IsAType DEF Values
<1>c. KnowsItems(c)
  BY <1>0 DEF Shape, Knows
<1>19. CASE now.op = "pop_front"
  <2>1. /\ d.loc = {} /\ d.regs = c.regs /\ d.top = <<>> /\ d.bound = {} /\ d.code = FALSE
        /\ now.p \in Stacks
    BY <1>19 DEF TypedDrop, Forgets
  <2>2. KnowsRegisters(K, d)'
    BY <1>2, <1>6, <1>18, <1>19, <2>1, RegistersStay DEF Shape, Knows
  <2>3. Knows(K, d)'
    BY <2>1, <2>2, <1>18 DEF Knows, KnowsLocals, KnowsBound, KnowsItems
  <2> QED
    BY <2>3, <1>8, <1>10, <1>11, <1>12, <1>13, <1>14, <1>16, <1>17 DEF Shape
<1>20. CASE now.op = "pop_to_register"
  <2>0. /\ loc' = [y \in DOMAIN loc \cup {now.x} |-> IF y = now.x THEN result ELSE loc[y]]
        /\ registers' = Append(registers, result) /\ result \in Values(K)
        /\ d.bound = {} /\ d.code = FALSE /\ d.regs = Append(c.regs, "any")
        /\ now.x \notin Stacks /\ now.x # now.p /\ heap[P].a # NULL
    BY <1>2, <1>4, <1>9, <1>20
  <2>1. KnowsRegisters(K, d)'
    <3>1. /\ c.regs \in Seq(Kept) /\ Len(registers) = Len(c.regs) /\ registers \in Seq(K)
          /\ \A k \in 1 .. Len(c.regs) : registers[k] \in Values(K) /\ IsA(heap, registers[k], c.regs[k])
      BY <1>18 DEF Shape, Knows, KnowsRegisters, Roots0
    <3>2. /\ d.regs \in Seq(Kept) /\ Len(d.regs) = Len(c.regs) + 1 /\ d.regs[Len(c.regs) + 1] = "any"
          /\ \A k \in 1 .. Len(c.regs) : d.regs[k] = c.regs[k]
      <4>1. c.regs \in Seq(Kept) /\ "any" \in Kept
        BY <3>1 DEF Kept
      <4> QED
        BY <2>0, <4>1
    <3>3. /\ Len(registers') = Len(c.regs) + 1 /\ registers'[Len(c.regs) + 1] = result
          /\ \A k \in 1 .. Len(c.regs) : registers'[k] = registers[k]
      BY <2>0, <3>1
    <3>4. ASSUME NEW k \in 1 .. Len(c.regs)
          PROVE  registers'[k] \in Values(K)' /\ IsA(heap', registers'[k], d.regs[k])
      <4>1. d.regs[k] # "list+" /\ registers'[k] = registers[k] /\ registers[k] \in Values(K)
            /\ IsA(heap, registers[k], d.regs[k])
        BY <3>1, <3>2, <3>3 DEF Kept
      <4> QED
        BY <4>1, <1>6 DEF IsA, Values
    <3>5. IsA(heap', result, "any")
      BY DEF IsA
    <3>6. ASSUME NEW k \in 1 .. Len(d.regs)
          PROVE  registers'[k] \in Values(K)' /\ IsA(heap', registers'[k], d.regs[k])
      <4>1. CASE k = Len(c.regs) + 1
        BY <4>1, <3>2, <3>3, <1>6, <2>0 DEF IsA
      <4>2. CASE k # Len(c.regs) + 1
        <5>1. k \in 1 .. Len(c.regs)
          BY <4>2, <3>1, <3>2
        <5> QED
          BY <5>1, <3>4
      <4> QED
        BY <4>1, <4>2
    <3> QED
      BY <1>18, <3>1, <3>2, <3>3, <3>6 DEF KnowsRegisters
  <2>2. KnowsLocals(K, c) /\ TypedPop(now, c, d)
    BY <1>20 DEF Shape, Knows
  <2>3. KnowsBound(K, d)' /\ Certified(Plain, Rest', d) /\ ~ d.code
    BY <2>0, <1>18 DEF KnowsBound
  <2>4. ASSUME now.p = "ds" /\ c.top # <<>> /\ d.top = Tail(c.top) /\ Assigns(now, Head(c.top), c, d)
        PROVE  Knows(K, d)'
    <3>1. P = loc.ds /\ Item1 = heap[P].a /\ Item2 = second /\ Item1' = second
      BY <2>4, <2>0, <1>0, <1>3, <1>5 DEF P, Item1, Item2, second, SameStacks
    <3>2. Len(c.top) >= 1 /\ c.top \in Seq(Kinds) /\ Head(c.top) = c.top[1] /\ Len(d.top) = Len(c.top) - 1
          /\ d.top \in Seq(Kinds) /\ \A k \in 1 .. Len(d.top) : d.top[k] = c.top[k + 1]
      <4>1. c.top \in Seq(Kinds) /\ c.top # <<>> /\ d.top = Tail(c.top)
        BY <2>4, <1>c DEF KnowsItems
      <4> DEFINE s == c.top
      <4>2. s \in Seq(Kinds) /\ s # <<>> /\ d.top = Tail(s)
        BY <4>1
      <4> HIDE DEF s
      <4>3. /\ Len(s) \in Nat /\ Len(s) >= 1 /\ Head(s) = s[1]
            /\ Tail(s) \in Seq(Kinds) /\ Len(Tail(s)) = Len(s) - 1
            /\ \A k \in 1 .. Len(Tail(s)) : Tail(s)[k] = s[k + 1]
        BY <4>2, TailFacts
      <4>4. /\ Len(s) >= 1 /\ Head(s) = s[1] /\ d.top \in Seq(Kinds) /\ Len(d.top) = Len(s) - 1
            /\ \A k \in 1 .. Len(d.top) : d.top[k] = s[k + 1]
        BY <4>2, <4>3
      <4> QED
        BY <4>1, <4>4 DEF s
    <3>3. IsA(heap', result, Head(c.top))
      BY <1>b, <1>c, <2>0, <3>1, <3>2 DEF KnowsItems, KnowsItem, result
    <3>4. KnowsLocals(K, d)'
      <4>1. ASSUME NEW e \in d.loc
            PROVE  /\ e[1] \in DOMAIN loc' /\ e[1] \notin Stacks
                   /\ loc'[e[1]] \in Values(K) /\ IsA(heap', loc'[e[1]], e[2])
        <5>1. CASE e = <<now.x, Head(c.top)>>
          <6>1. e[1] = now.x /\ e[2] = Head(c.top)
            BY <5>1
          <6> QED
            BY <6>1, <3>3, <2>0
        <5>2. CASE e \in c.loc /\ e[1] # now.x
          <6>1. e[1] \in DOMAIN loc /\ e[1] \notin Stacks /\ loc[e[1]] \in Values(K)
                /\ IsA(heap, loc[e[1]], e[2]) /\ loc'[e[1]] = loc[e[1]] /\ e[1] \in DOMAIN loc'
            BY <5>2, <2>0, <2>2 DEF KnowsLocals
          <6>2. IsA(heap', loc[e[1]], e[2])
            BY <6>1, <3>1, <1>b
          <6> QED
            BY <6>1, <6>2
        <5> QED
          BY <5>1, <5>2, <2>4 DEF Assigns
      <4> QED
        BY <4>1, <1>6 DEF KnowsLocals
    <3>5. KnowsItems(d)'
      <4>1. ASSUME NEW n \in Nodes(K), NEW kind, KnowsItem(n, kind)
            PROVE  KnowsItem(n, kind)' /\ heap'[n].b = heap[n].b
        <5>1. heap[n].a \in Values(K) /\ n \in Addr /\ n # P
          BY <1>0 DEF Shape, Words, Nodes, Lists
        <5>2. heap'[n].a = heap[n].a /\ heap'[n].b = heap[n].b
          BY <5>1, <1>3
        <5>3. IsA(heap', heap[n].a, kind)
          BY <5>1, <3>1, <1>b, <4>1 DEF KnowsItem
        <5> QED
          BY <5>2, <5>3, <4>1 DEF KnowsItem
      <4>2. ASSUME Len(c.top) >= 2
            PROVE  /\ Item2 \in Nodes(K) /\ KnowsItem(Item1, c.top[2])' /\ Item2' = Item3
        <5>1. KnowsItem(Item2, c.top[2]) /\ Item2 # NULL
          BY <1>c, <4>2 DEF KnowsItems, KnowsItem
        <5>2. Item2 \in Nodes(K)
          BY <1>9, <2>0, <3>1, <5>1 DEF OrNull
        <5> QED
          BY <5>1, <5>2, <4>1, <3>1 DEF Item2, Item3, KnowsItem
      <4>3. ASSUME Len(c.top) >= 3
            PROVE  KnowsItem(Item2, c.top[3])'
        <5>1. KnowsItem(Item3, c.top[3]) /\ Item3 # NULL /\ Len(c.top) >= 2
          BY <1>c, <4>3 DEF KnowsItems, KnowsItem
        <5>2. Item3 \in Nodes(K)
          BY <4>2, <5>1 DEF Item3, Shape, Words, OrNull
        <5> QED
          BY <4>2, <5>1, <5>2, <4>1 DEF KnowsItem
      <4>4. Len(c.top) \in 0 .. 3
        BY <1>c DEF KnowsItems
      <4>5. Len(d.top) >= 1 => KnowsItem(Item1, d.top[1])'
        BY <3>2, <4>2, <4>4
      <4>6. Len(d.top) >= 2 => KnowsItem(Item2, d.top[2])'
        BY <3>2, <4>3, <4>4
      <4> QED
        BY <3>2, <4>4, <4>5, <4>6 DEF KnowsItems, KnowsItem
    <3>6. mpc' = "unlink_last" => P' \in {loc'.ds, loc'.cs}
      BY <1>15, <3>1, <1>5 DEF SameStacks
    <3> QED
      BY <2>1, <2>3, <3>4, <3>5, <3>6, <1>18 DEF Knows
  <2>5. ASSUME Is(c, now.p, "list+") /\ d.top = <<>>
               /\ \A e \in d.loc : e \in {<<now.x, "any">>, <<now.p, "list">>}
        PROVE  Knows(K, d)'
    <3>1. P \in Values(K) /\ now.p \notin Stacks
      BY <2>2, <2>5 DEF Is, KnowsLocals, P
    <3>2. ASSUME NEW e \in d.loc
          PROVE  /\ e[1] \in DOMAIN loc' /\ e[1] \notin Stacks /\ e[2] # "list+"
                 /\ loc'[e[1]] \in Values(K) /\ IsA(heap', loc'[e[1]], e[2])
      <4>1. CASE e = <<now.x, "any">>
        BY <4>1, <2>0 DEF IsA
      <4>2. CASE e = <<now.p, "list">>
        BY <4>2, <1>0, <1>5, <1>6, <3>1 DEF IsA, Lists
      <4> QED
        BY <4>1, <4>2, <2>5
    <3>3. KnowsLocals(K, d)'
      BY <3>2, <1>6 DEF KnowsLocals
    <3>4. KnowsItems(d)'
      BY <2>5 DEF KnowsItems
    <3> QED
      BY <2>1, <2>3, <2>5, <3>2, <3>3, <3>4, <1>18 DEF Knows
  <2>6. Knows(K, d)'
    BY <2>2, <2>4, <2>5 DEF TypedPop
  <2> QED
    BY <2>6, <1>8, <1>10, <1>11, <1>12, <1>13, <1>14, <1>16, <1>17 DEF Shape
<1> QED
  BY <1>0, <1>19, <1>20

LEMMA UnlinkLastKeeps ==
  ASSUME NEW K, NEW o, NEW c, Shape(K, o, c), UnlinkLast
  PROVE  Shape(K, o, c)'
<1>0. /\ mpc = "unlink_last" /\ todo # <<>> /\ ~ Linking /\ ~ Hooking /\ ~ HasNode
      /\ P \in Lists(K) /\ P \in K /\ P \in Addr /\ heap[P].a = NULL /\ NULL \notin Addr /\ K \subseteq Addr
  BY DEF UnlinkLast, At, Linking, Hooking, HasNode, Shape, Halfway, Lists, Words, Addr, NULL
<1>1. /\ mpc' = "op" /\ todo' = Tail(todo) /\ heap' = WrittenB(P, NULL)
      /\ UNCHANGED <<loc, bindings, registers, hook, node, cpc, chunk, scan>>
  BY DEF UnlinkLast, Finish, AllocatorIdle, collectorVars, WrittenB
<1>2. SwapInv'
  BY MutatorKeepsSwapInv DEF MutatorStep, Shape
<1>3. /\ \A i \in Addr : heap'[i].type = heap[i].type /\ heap'[i].colour = heap[i].colour
                         /\ heap'[i].a = heap[i].a
      /\ \A i \in Addr : heap'[i].b = IF i = P THEN NULL ELSE heap[i].b
  BY <1>1, WriteB DEF Shape
<1>4. SameStacks /\ Addr' = Addr
  BY <1>1 DEF SameStacks, Shape, Roots0, Addr
<1>5. /\ Nodes(K)' = Nodes(K) /\ Lists(K)' = Lists(K) /\ Values(K)' = Values(K)
      /\ \A i \in K : heap'[i].type = heap[i].type
  BY <1>0, <1>3, <1>4, SetsSame
<1>6. ~ Linking' /\ ~ HasNode' /\ ~ Hooking' /\ ~ Waiting'
  BY <1>1 DEF Linking, HasNode, Hooking, Waiting
<1>7. Ranges'
  BY <1>3, <1>4 DEF Shape, Ranges, Addr, Pointer
<1>8. \A n \in Nodes(K) : heap'[n].a = heap[n].a /\ heap'[n].b = heap[n].b
  BY <1>0, <1>3 DEF Nodes, Lists
<1>9. \A l \in Lists(K) : heap'[l].a = heap[l].a /\ heap'[l].b \in {heap[l].b, NULL}
  BY <1>0, <1>3 DEF Lists
<1>10. Words(K)'
  <2>1. \A i \in K : heap[i].type \in {"symbol", "escaped"} => heap'[i].a = heap[i].a
    BY <1>0, <1>3
  <2> QED
    BY <1>4, <1>5, <1>8, <1>9, <2>1 DEF Shape, Words, OrNull
<1>11. Roots0(K)'
  BY <1>1, <1>5 DEF Shape, Roots0, OrNull
<1>12. InHand(K)'
  BY <1>0, <1>1, <1>3, <1>4, <1>5, <1>6 DEF Shape, InHand, InWork, Greys
<1>13. Control' /\ Halfway(K)' /\ Fresh(K, o)'
  BY <1>0, <1>1, <1>6 DEF Shape, Control, HasNode, Linking, Hooking, Pushes, Halfway, Fresh
<1>14. Owned(K, o)'
  <2>1. \A l \in Lists(K) : LastOf(l)' = LastOf(l)
    <3>1. \A l \in Lists(K) : LastOf(l) = IF l = P THEN NULL ELSE heap[l].b
      BY <1>0 DEF LastOf
    <3>2. \A l \in Lists(K) : LastOf(l)' = heap'[l].b
      BY <1>1, <1>6 DEF LastOf
    <3> QED
      BY <3>1, <3>2, <1>0, <1>3 DEF Lists
  <2> QED
    BY <2>1, <1>5, <1>8, <1>9, OwnedSame DEF Shape
<1>15. Rest' = Rest /\ InRegisters' = InRegisters /\ Rest' = Tail(todo)
  BY <1>0, <1>1, <1>6 DEF Rest, InRegisters, Waiting
<1>16. KnowsRegisters(K, c)' /\ KnowsBound(K, c)'
  BY <1>1, <1>5, <1>15, RegistersStay, BoundKept DEF Shape, Knows
<1>17. KnowsLocals(K, c)' /\ KnowsItems(c)'
  <2>0. KnowsLocals(K, c) /\ KnowsItems(c) /\ (P \notin {loc.ds, loc.cs} => c.top = <<>> /\ \A e \in c.loc : e[2] # "list+")
    BY <1>0 DEF Shape, Knows
  <2>1. CASE P \in {loc.ds, loc.cs}
    <3>1. \A i \in Values(K) : \A kind : IsA(heap, i, kind) => IsA(heap', i, kind)
      BY <2>1, <1>0, <1>3, <1>5 DEF IsA, EmptyIn, Values
    <3>2. KnowsLocals(K, c)'
      BY <2>0, <3>1, <1>1, <1>5 DEF KnowsLocals
    <3>3. \A n \in Nodes(K) : \A kind : KnowsItem(n, kind) => KnowsItem(n, kind)'
      BY <3>1, <1>8 DEF KnowsItem, Shape, Words
    <3>4. loc.ds \in Lists(K) /\ loc'.ds = loc.ds /\ Item1 \in OrNull(Nodes(K)) /\ Item1' = Item1
      BY <1>1, <1>4, <1>9 DEF Shape, Words, Roots0, Item1
    <3>5. Item1 # NULL => Item2' = Item2 /\ Item2 \in OrNull(Nodes(K))
      BY <3>4, <1>8 DEF Item2, Shape, Words, OrNull
    <3>6. Item1 # NULL /\ Item2 # NULL => Item3' = Item3 /\ Item3 \in OrNull(Nodes(K))
      BY <3>5, <1>8 DEF Item3, Shape, Words, OrNull
    <3>7. Len(c.top) >= 1 => KnowsItem(Item1, c.top[1])'
      <4> SUFFICES ASSUME Len(c.top) >= 1 PROVE KnowsItem(Item1, c.top[1])'
        OBVIOUS
      <4>1. KnowsItem(Item1, c.top[1]) /\ Item1 # NULL
        BY <2>0 DEF KnowsItems, KnowsItem
      <4> QED
        BY <4>1, <3>3, <3>4 DEF OrNull, KnowsItem
    <3>8. Len(c.top) >= 2 => KnowsItem(Item2, c.top[2])'
      <4> SUFFICES ASSUME Len(c.top) >= 2 PROVE KnowsItem(Item2, c.top[2])'
        OBVIOUS
      <4>1. KnowsItem(Item2, c.top[2]) /\ Item2 # NULL /\ Item1 # NULL
        BY <2>0 DEF KnowsItems, KnowsItem
      <4> QED
        BY <4>1, <3>3, <3>5 DEF OrNull, KnowsItem
    <3>9. Len(c.top) >= 3 => KnowsItem(Item3, c.top[3])'
      <4> SUFFICES ASSUME Len(c.top) >= 3 PROVE KnowsItem(Item3, c.top[3])'
        OBVIOUS
      <4>1. KnowsItem(Item3, c.top[3]) /\ Item3 # NULL /\ Item2 # NULL /\ Item1 # NULL
        BY <2>0 DEF KnowsItems, KnowsItem
      <4> QED
        BY <4>1, <3>3, <3>6 DEF OrNull, KnowsItem
    <3> QED
      BY <2>0, <3>2, <3>7, <3>8, <3>9 DEF KnowsItems
  <2>2. CASE P \notin {loc.ds, loc.cs}
    BY <2>0, <2>2, <1>1, <1>5, LocalsKept DEF KnowsItems
  <2> QED
    BY <2>1, <2>2
<1>18. Knows(K, c)'
  BY <1>1, <1>15, <1>16, <1>17 DEF Shape, Knows
<1> QED
  BY <1>2, <1>7, <1>10, <1>11, <1>12, <1>13, <1>14, <1>18 DEF Shape

-----------------------------------------------------------------------------
(* A chunk is allocated: one more chunk is known. *)

LEMMA AtAllocation ==
  ASSUME NEW K, NEW o, NEW c, Shape(K, o, c), Allocating
  PROVE  /\ now.op \in {"new"} \cup Pushes /\ todo # <<>> /\ mpc \in {"op", "alloc", "granted"}
         /\ mpc # "op" \/ now.op = "new"
         /\ ~ Linking /\ ~ HasNode /\ ~ Hooking /\ ~ Waiting /\ hook = NoHook /\ node = NULL
         /\ \A l : LastOf(l) = heap[l].b
         /\ now.op \in Pushes => /\ P \in Lists(K) /\ P \in K /\ X \in Values(K) /\ X \in K
                                 /\ \A e \in c.loc : e[2] # "list+"
<1> USE DEF Shape
<1>1. todo # <<>> /\ mpc \in {"op", "alloc", "granted"} /\ (mpc # "op" \/ now.op \in {"new", "new_block"}) /\ ~ Waiting
  BY DEF Allocating, In, At, Waiting
<1>2. now.op \in {"new"} \cup Pushes /\ (mpc # "op" \/ now.op = "new")
  BY <1>1, NextOperation DEF Control, Pushes
<1>3. ~ Linking /\ ~ HasNode /\ ~ Hooking /\ \A l : LastOf(l) = heap[l].b
  BY <1>1 DEF Linking, HasNode, Hooking, LastOf
<1>4. now.op \in Pushes => \E d : TypedPush(now, c, d)
  BY <1>1, TypedNow, TypedAs
<1> QED
  BY <1>1, <1>2, <1>3, <1>4, PushKnown DEF InHand, Lists, Values, TypedPush

(* The words of known chunks are kept, and one chunk is added. *)
Adds1(K, n) ==
  /\ n \in Addr /\ n \notin K
  /\ \A i \in Addr : i # n => heap'[i] = heap[i]
  /\ heap'[n].type \in {"node", "list", "integer", "symbol", "escaped"} /\ heap'[n].colour = green
  /\ heap'[n].type = "node" => heap'[n].a \in Values(K) /\ heap'[n].b \in OrNull(Nodes(K))
  /\ heap'[n].type = "list" => heap'[n].a = NULL /\ heap'[n].b = NULL
  /\ heap'[n].type \in {"symbol", "escaped"} => heap'[n].a \in Symbol
  /\ heap'[n].type = "integer" => heap'[n].a \in Nat
  /\ heap'[n].type # "node" => heap'[n].b = NULL

LEMMA AddsSets ==
  ASSUME NEW K, NEW n, Words(K), Roots0(K), Adds1(K, n), SameStacks, NEW M, M = K \cup {n}
  PROVE  /\ Nodes(M)' = Nodes(K) \cup (IF heap'[n].type = "node" THEN {n} ELSE {})
         /\ Lists(M)' = Lists(K) \cup (IF heap'[n].type = "list" THEN {n} ELSE {})
         /\ Values(M)' = Values(K) \cup (IF heap'[n].type = "node" THEN {} ELSE {n})
         /\ n \notin Nodes(K) /\ n \notin Lists(K) /\ n \notin Values(K)
         /\ \A i \in K : heap'[i] = heap[i]
<1>1. \A i \in K : heap'[i] = heap[i] /\ i # n
  BY DEF Adds1, Words
<1>2. n # loc.ds /\ n # loc.cs /\ loc'.ds = loc.ds /\ loc'.cs = loc.cs
  BY <1>1 DEF Roots0, Lists, SameStacks
<1> QED
  BY <1>1, <1>2 DEF Nodes, Lists, Values

LEMMA AddsWords ==
  ASSUME NEW K, NEW n, Words(K), Roots0(K), Ranges, Adds1(K, n), SameStacks, NEW M, M = K \cup {n}
  PROVE  Words(M)' /\ Ranges'
<1> DEFINE nodes == Nodes(M)'
           lists == Lists(M)'
           values == Values(M)'
<1>1. /\ nodes = Nodes(K) \cup (IF heap'[n].type = "node" THEN {n} ELSE {})
      /\ lists = Lists(K) \cup (IF heap'[n].type = "list" THEN {n} ELSE {})
      /\ values = Values(K) \cup (IF heap'[n].type = "node" THEN {} ELSE {n})
      /\ \A i \in K : heap'[i] = heap[i]
  BY AddsSets
<1>2. Addr' = Addr /\ M \subseteq Addr
  BY DEF Addr, Adds1, Words
<1>3. Ranges'
  <2>1. ASSUME NEW i \in Addr, i # n
        PROVE  /\ heap'[i].type \in Types /\ heap'[i].type # "block"
               /\ heap'[i].colour \in 0 .. 3
               /\ heap'[i].a \in Pointer \cup Nat /\ heap'[i].b \in Pointer
               /\ heap'[i].type \in {"list", "node"} => heap'[i].a \in Pointer
    BY <2>1 DEF Adds1, Ranges
  <2>2. \A x \in K : x \in Pointer
    BY DEF Words, Pointer
  <2>3. Symbol \subseteq Nat /\ NULL \in Pointer
    BY SymbolAssumption, FS_CardinalityType DEF Pointer
  <2>4. /\ heap'[n].type \in Types /\ heap'[n].type # "block"
        /\ heap'[n].colour \in 0 .. 3
        /\ heap'[n].a \in Pointer \cup Nat /\ heap'[n].b \in Pointer
        /\ heap'[n].type \in {"list", "node"} => heap'[n].a \in Pointer
    <3>1. heap'[n].type \in Types /\ heap'[n].type # "block" /\ heap'[n].colour \in 0 .. 3
      BY DEF Adds1, Types, green
    <3>2. Values(K) \subseteq Pointer /\ OrNull(Nodes(K)) \subseteq Pointer
      BY <2>2, <2>3 DEF Values, Nodes, OrNull
    <3>3. heap'[n].b \in Pointer
      BY <2>3, <3>2 DEF Adds1
    <3>4. heap'[n].a \in Pointer \cup Nat /\ (heap'[n].type \in {"list", "node"} => heap'[n].a \in Pointer)
      BY <2>3, <3>2 DEF Adds1
    <3> QED
      BY <3>1, <3>3, <3>4
  <2> QED
    BY <1>2, <2>1, <2>4 DEF Ranges, Pointer
<1>4. \A i \in M : heap'[i].type # "free"
  BY <1>1 DEF Adds1, Words
<1>5. \A i \in nodes : heap'[i].a \in values /\ heap'[i].b \in OrNull(nodes)
  BY <1>1 DEF Adds1, Words, OrNull, Nodes
<1>6. \A i \in lists : heap'[i].a \in OrNull(nodes) /\ heap'[i].b \in OrNull(nodes)
  BY <1>1 DEF Adds1, Words, OrNull, Lists
<1>7. \A i \in M : heap'[i].type \in {"symbol", "escaped"} => heap'[i].a \in Symbol
  BY <1>1 DEF Adds1, Words
<1> QED
  BY <1>2, <1>3, <1>4, <1>5, <1>6, <1>7 DEF Words, OrNull

LEMMA AddsOwned ==
  ASSUME NEW K, NEW n, NEW o, Words(K), Roots0(K), Owned(K, o), Adds1(K, n), SameStacks, NEW M, M = K \cup {n},
         NEW q, q = Links(o, n, NULL), \A l : LastOf(l) = heap[l].b, \A l \in M : LastOf(l)' = heap'[l].b
  PROVE  Owned(M, q)'
<1>1. /\ Nodes(M)' = Nodes(K) \cup (IF heap'[n].type = "node" THEN {n} ELSE {})
      /\ Lists(M)' = Lists(K) \cup (IF heap'[n].type = "list" THEN {n} ELSE {})
      /\ n \notin Nodes(K) /\ n \notin Lists(K)
      /\ \A i \in K : heap'[i] = heap[i]
  BY AddsSets
<1>2. q[n] = NULL /\ \A i \in Nodes(K) : q[i] = o[i]
  BY <1>1 DEF Links, Adds1, Nodes, Words
<1>3. \A i \in Nodes(K) : i \in K /\ heap[i].b \in OrNull(Nodes(K))
  BY DEF Nodes, Words
<1>4. \A i \in Lists(K) : i \in K /\ heap[i].a \in OrNull(Nodes(K)) /\ heap[i].b \in OrNull(Nodes(K))
  BY DEF Lists, Words
<1>5. ASSUME NEW l \in Lists(M)'
      PROVE  /\ heap'[l].a = NULL <=> LastOf(l)' = NULL
             /\ heap'[l].a # NULL =>
                  /\ q[heap'[l].a] = l
                  /\ LastOf(l)' \in Nodes(M)' /\ q[LastOf(l)'] = l /\ heap'[LastOf(l)'].b = NULL
  <2>1. CASE l \in Lists(K)
    <3>1. heap'[l] = heap[l] /\ LastOf(l)' = heap[l].b
      BY <2>1, <1>1, <1>4
    <3>2. heap[l].a = NULL <=> heap[l].b = NULL
      BY <2>1 DEF Owned
    <3>3. heap[l].a # NULL => /\ o[heap[l].a] = l /\ heap[l].b \in Nodes(K) /\ o[heap[l].b] = l
                              /\ heap[heap[l].b].b = NULL
      BY <2>1 DEF Owned
    <3> QED
      BY <2>1, <3>1, <3>2, <3>3, <1>1, <1>2, <1>3, <1>4 DEF OrNull
  <2>2. CASE l = n /\ heap'[n].type = "list"
    BY <2>2 DEF Adds1
  <2> QED
    BY <2>1, <2>2, <1>1
<1>6. ASSUME NEW i \in Nodes(M)'
      PROVE  /\ q[i] \in OrNull(Lists(M)')
             /\ q[i] # NULL /\ heap'[i].b = NULL => i = LastOf(q[i])'
             /\ q[i] # NULL /\ heap'[i].b # NULL => q[heap'[i].b] = q[i]
  <2>1. CASE i \in Nodes(K)
    <3>1. q[i] = o[i] /\ heap'[i].b = heap[i].b
      BY <2>1, <1>1, <1>2, <1>3
    <3>2. o[i] # NULL => o[i] \in Lists(K) /\ LastOf(o[i])' = heap[o[i]].b
      BY <2>1, <1>1, <1>4 DEF Owned, OrNull
    <3>3. o[i] \in OrNull(Lists(K))
      BY <2>1 DEF Owned
    <3>4. o[i] # NULL /\ heap[i].b = NULL => i = heap[o[i]].b
      BY <2>1 DEF Owned
    <3>5. o[i] # NULL /\ heap[i].b # NULL => heap[i].b \in Nodes(K) /\ o[heap[i].b] = o[i]
      BY <2>1, <1>3 DEF Owned, OrNull
    <3> QED
      BY <3>1, <3>2, <3>3, <3>4, <3>5, <1>1, <1>2 DEF OrNull
  <2>2. CASE i = n
    BY <2>2, <1>2 DEF OrNull
  <2> QED
    BY <2>1, <2>2, <1>1
<1> QED
  BY <1>5, <1>6 DEF Owned, OrNull

(* The next free chunk is one. *)
FreeIsFree == free_list \in OrNull(Addr) /\ (free_list # NULL => heap[free_list].type = "free")

LEMMA AllocateAdds ==
  ASSUME NEW K, NEW o, NEW c, Shape(K, o, c), FreeIsFree, Allocate, NEW n, n = free_list
  PROVE  /\ Adds1(K, n) /\ SameStacks
         /\ heap'[n] = Filled /\ UNCHANGED <<cpc, chunk, scan, bindings, registers, hook>>
         /\ now.op \in Pushes => /\ heap'[n].type = "node" /\ mpc' = "link" /\ todo' = todo /\ node' = n /\ loc' = loc
         /\ now.op = "new" => /\ heap'[n].type = now.p /\ mpc' = "op" /\ todo' = Tail(todo) /\ node' = NULL
                              /\ loc' = [y \in DOMAIN loc \cup {now.x} |-> IF y = now.x THEN n ELSE loc[y]]
                              /\ \E d : TypedNew(Plain, now, c, d)
<1> USE DEF Shape
<1>1. Allocating /\ n # NULL /\ heap' = [heap EXCEPT ![n] = Filled]
      /\ UNCHANGED <<cpc, chunk, scan, bindings, registers, hook>>
  BY DEF Allocate, collectorVars
<1>2. n \in Addr /\ n \notin K /\ NULL \notin Addr /\ K \subseteq Addr
  BY <1>1 DEF FreeIsFree, Words, OrNull, Addr, NULL
<1>3. heap'[n] = Filled /\ \A i \in Addr : i # n => heap'[i] = heap[i]
  BY <1>1, <1>2 DEF SwapInv, HeapOfRecords
<1>4. /\ now.op \in {"new"} \cup Pushes /\ todo # <<>> /\ node = NULL
      /\ now.op \in Pushes => P \in Lists(K) /\ P \in K /\ X \in Values(K) /\ X \in K
      /\ mpc # "unlink_last"
  BY <1>1, AtAllocation
<1>5. CASE now.op \in Pushes
  <2>1. Filled = [type |-> "node", colour |-> green, a |-> X, b |-> IF now.op = "push_front" THEN heap[P].a ELSE NULL]
    BY <1>5 DEF Filled, Pushes
  <2>2. heap[P].a \in OrNull(Nodes(K)) /\ X \in Values(K) /\ NULL \in OrNull(Nodes(K))
    BY <1>4, <1>5 DEF Words, OrNull
  <2>3. Adds1(K, n)
    BY <1>2, <1>3, <2>1, <2>2 DEF Adds1
  <2>4. mpc' = "link" /\ todo' = todo /\ node' = n /\ loc' = loc
    BY <1>5 DEF Allocate, Stay, Pushes
  <2> QED
    BY <1>1, <1>3, <1>5, <2>1, <2>3, <2>4 DEF SameStacks, Roots0, Pushes
<1>6. CASE now.op = "new"
  <2>1. PICK d : TypedNew(Plain, now, c, d)
    BY <1>4, <1>6, TypedNow, TypedAs
  <2>2. Filled = [type |-> now.p, colour |-> green, b |-> NULL, a |-> IF now.p = "list" THEN NULL ELSE now.v]
    BY <1>6 DEF Filled
  <2>3. Adds1(K, n)
    BY <1>2, <1>3, <2>1, <2>2 DEF Adds1, TypedNew, Plain
  <2>4. mpc' = "op" /\ todo' = Tail(todo) /\ node' = NULL
        /\ loc' = [y \in DOMAIN loc \cup {now.x} |-> IF y = now.x THEN n ELSE loc[y]]
    BY <1>4, <1>6 DEF Allocate, Assign, Finish
  <2>5. now.x \notin {"ds", "cs"}
    BY <2>1 DEF TypedNew, Stacks, OwnLocal
  <2>6. SameStacks
    BY <2>4, <2>5 DEF SameStacks, Roots0
  <2> QED
    BY <1>1, <1>3, <1>6, <2>1, <2>2, <2>3, <2>4, <2>6 DEF Pushes
<1> QED
  BY <1>4, <1>5, <1>6

LEMMA AllocateKeeps ==
  ASSUME NEW K, NEW o, NEW c, Shape(K, o, c), FreeIsFree, Allocate, NEW n, n = free_list,
         NEW M, M = K \cup {n}, NEW q, q = Links(o, n, NULL),
         NEW d, now.op \in Pushes => d = c,
         now.op = "new" => TypedNew(Plain, now, c, d) /\ Certified(Plain, Tail(todo), d)
  PROVE  Shape(M, q, d)'
<1> USE DEF Shape
<1>1. /\ Adds1(K, n) /\ SameStacks
      /\ heap'[n] = Filled /\ UNCHANGED <<cpc, chunk, scan, bindings, registers, hook>>
      /\ now.op \in Pushes => /\ heap'[n].type = "node" /\ mpc' = "link" /\ todo' = todo /\ node' = n /\ loc' = loc
      /\ now.op = "new" => /\ heap'[n].type = now.p /\ mpc' = "op" /\ todo' = Tail(todo) /\ node' = NULL
                           /\ loc' = [y \in DOMAIN loc \cup {now.x} |-> IF y = now.x THEN n ELSE loc[y]]
  BY AllocateAdds
<1>2. /\ now.op \in {"new"} \cup Pushes /\ todo # <<>> /\ mpc \in {"op", "alloc", "granted"}
      /\ mpc # "op" \/ now.op = "new"
      /\ ~ Linking /\ ~ HasNode /\ ~ Hooking /\ ~ Waiting /\ hook = NoHook /\ node = NULL
      /\ \A l : LastOf(l) = heap[l].b
      /\ now.op \in Pushes => /\ P \in Lists(K) /\ P \in K /\ X \in Values(K) /\ X \in K
                              /\ \A e \in c.loc : e[2] # "list+"
  BY AtAllocation DEF Allocate
<1>3. /\ Nodes(M)' = Nodes(K) \cup (IF heap'[n].type = "node" THEN {n} ELSE {})
      /\ Lists(M)' = Lists(K) \cup (IF heap'[n].type = "list" THEN {n} ELSE {})
      /\ Values(M)' = Values(K) \cup (IF heap'[n].type = "node" THEN {} ELSE {n})
      /\ n \notin Nodes(K) /\ n \notin Lists(K) /\ n \notin Values(K)
      /\ \A i \in K : heap'[i] = heap[i]
  BY <1>1, AddsSets
<1>4. SwapInv' /\ Words(M)' /\ Ranges'
  BY <1>1, AddsWords, MutatorKeepsSwapInv DEF MutatorStep
<1>5. mpc' \in {"link", "op"} /\ ~ Linking' /\ ~ Hooking' /\ ~ Waiting' /\ (HasNode' <=> mpc' = "link")
      /\ (mpc' = "link" <=> now.op \in Pushes) /\ Addr' = Addr
  BY <1>1, <1>2 DEF Linking, Hooking, Waiting, HasNode, Pushes, Addr
<1>6. Roots0(M)'
  <2>1. registers \in Seq(M)
    BY DEF Roots0
  <2>2. bindings \in [Symbol -> OrNull(Values(M)')]
    BY <1>3 DEF Roots0, OrNull
  <2> QED
    BY <1>1, <1>3, <2>1, <2>2 DEF Roots0, SameStacks, OrNull
<1>7. InHand(M)'
  <2>1. \A i \in Addr : heap'[i].colour = grey => i \in M
    BY <1>1 DEF Adds1, InHand, grey, green
  <2>2. IF HasNode' THEN node' \in Nodes(M)' ELSE node' = NULL
    BY <1>1, <1>2, <1>3, <1>5
  <2>3. hook' = NoHook
    BY <1>1, <1>2
  <2>4. (InWork => chunk \in M) /\ (Greys => scan \in M)
    BY DEF InHand
  <2> QED
    BY <1>1, <1>5, <2>1, <2>2, <2>3, <2>4 DEF InHand, InWork, Greys
<1>8. Control' /\ Halfway(M)'
  <2>1. mpc' = "link" => todo' # <<>> /\ now' = now /\ now.op \in Pushes
    BY <1>1, <1>2, <1>5 DEF now
  <2> QED
    BY <1>5, <2>1 DEF Control, Halfway, Linking, Hooking
<1>9. Owned(M, q)'
  <2>1. \A l \in M : LastOf(l)' = heap'[l].b
    BY <1>5 DEF LastOf
  <2> QED
    BY <1>1, <1>2, <2>1, AddsOwned
<1>10. Fresh(M, q)'
  <2> SUFFICES ASSUME mpc' = "link" PROVE Fresh(M, q)'
    BY DEF Fresh
  <2>1. node' = n /\ now' = now /\ P' = P /\ X' = X /\ now.op \in Pushes /\ P \in K /\ X \in K
    BY <1>1, <1>2, <1>5 DEF now, P, X
  <2>2. Filled = [type |-> "node", colour |-> green, a |-> X, b |-> IF now.op = "push_front" THEN heap[P].a ELSE NULL]
    BY <2>1 DEF Filled, Pushes
  <2>3. heap'[P].a = heap[P].a /\ q[n] = NULL
    BY <1>1, <1>3, <2>1 DEF Links, Adds1
  <2>4. n \notin K /\ n # NULL /\ K \subseteq Addr
    BY <1>1 DEF Adds1, Addr, NULL, Words
  <2>5. \A i \in Nodes(M)' \cup Lists(M)' : heap'[i].a # n /\ heap'[i].b # n
    <3>1. \A i \in Nodes(K) \cup Lists(K) : heap[i].a # n /\ heap[i].b # n /\ i \in K
      BY <1>3, <2>4 DEF Words, OrNull, Nodes, Lists
    <3>2. heap'[n].a # n /\ heap'[n].b # n
      BY <1>1, <1>2, <1>5, <2>1, <2>2, <2>4 DEF Words, OrNull, Nodes, Lists
    <3> QED
      BY <1>3, <3>1, <3>2
  <2>6. (InWork => chunk # n) /\ (Greys => scan # n)
    BY <2>4 DEF InHand
  <2> QED
    BY <1>1, <2>1, <2>2, <2>3, <2>5, <2>6 DEF Fresh, InWork, Greys
<1>11. Knows(M, d)'
  <2>1. Rest = todo /\ Rest' = todo' /\ InRegisters = <<>> /\ InRegisters' = <<>>
    BY <1>2, <1>5 DEF Rest, InRegisters, Waiting
  <2>2. Values(K) \subseteq Values(M)' /\ \A i \in K : heap'[i].type = heap[i].type
    BY <1>3
  <2>3. CASE now.op \in Pushes
    <3>1. KnowsLocals(M, c)'
      BY <1>1, <1>2, <2>2, <2>3, LocalsKept DEF Knows
    <3>2. KnowsRegisters(M, c)' /\ KnowsBound(M, c)'
      BY <1>1, <2>1, <2>2, RegistersStay, BoundKept DEF Knows
    <3> QED
      BY <1>1, <1>5, <2>1, <2>3, <3>1, <3>2 DEF Knows
  <2>4. CASE now.op = "new"
    <3>1. /\ \A e \in d.loc : e = <<now.x, now.p>>
          /\ d.regs = c.regs /\ d.top = <<>> /\ d.bound = {} /\ d.code = FALSE
          /\ now.x \notin Stacks /\ now.p \in {"list", "integer", "symbol", "escaped"}
      BY <2>4 DEF TypedNew, Forgets, OwnLocal
    <3>2. KnowsLocals(M, d)'
      <4>1. loc' = [y \in DOMAIN loc \cup {now.x} |-> IF y = now.x THEN n ELSE loc[y]] /\ heap'[n].type = now.p
        BY <1>1, <2>4
      <4>2. now.x \in DOMAIN loc' /\ loc'[now.x] = n /\ n \in Values(M)' /\ IsA(heap', n, now.p)
        BY <1>3, <3>1, <4>1 DEF IsA
      <4>3. \A e \in d.loc : e[1] = now.x /\ e[2] = now.p
        BY <3>1
      <4> QED
        BY <3>1, <4>2, <4>3 DEF KnowsLocals
    <3>3. KnowsRegisters(M, d)'
      BY <1>1, <2>1, <2>2, <3>1, RegistersStay DEF Knows
    <3>4. KnowsBound(M, d)' /\ KnowsItems(d)'
      BY <3>1 DEF KnowsBound, KnowsItems
    <3>5. Certified(Plain, Rest', d) /\ ~ d.code /\ mpc' = "op"
      BY <1>1, <2>1, <2>4, <3>1
    <3> QED
      BY <3>2, <3>3, <3>4, <3>5 DEF Knows
  <2> QED
    BY <1>2, <2>3, <2>4
<1> QED
  BY <1>4, <1>6, <1>7, <1>8, <1>9, <1>10, <1>11

-----------------------------------------------------------------------------
(* The mutator asks for chunks. *)

LEMMA HeldKnown ==
  ASSUME NEW K, NEW o, NEW c, Shape(K, o, c), todo # <<>>, now.op \in {"new"} \cup Pushes, mpc # "unlink_last"
  PROVE  /\ Held \in Seq(Values(K) \cup Lists(K)) /\ Len(Held) \in {0, 2}
         /\ now.op \in Pushes => Held = <<P, X>>
         /\ now.op = "new" => Held = <<>>
<1>1. CASE now.op = "new"
  BY <1>1 DEF Held, Pushes
<1>2. CASE now.op \in Pushes
  <2>1. P \in Values(K) \cup Lists(K) /\ X \in Values(K) \cup Lists(K)
    BY <1>2, PushKnown DEF Shape
  <2>2. Held = <<P, X>> /\ now.op # "new"
    BY <1>2 DEF Held, Pushes
  <2> HIDE DEF P, X
  <2>3. <<P, X>> \in Seq(Values(K) \cup Lists(K)) /\ Len(<<P, X>>) = 2
    BY <2>1
  <2> QED
    BY <2>2, <2>3
<1> QED
  BY <1>1, <1>2

LEMMA AskKeeps ==
  ASSUME NEW K, NEW o, NEW c, Shape(K, o, c), RunOut \/ Resume \/ Retry \/ GiveUp
  PROVE  Shape(K, o, c)'
<1> USE DEF Shape
<1>1. /\ UNCHANGED <<heap, bindings, loc, hook, node, todo, cpc, chunk, scan>>
      /\ todo # <<>> /\ mpc \in {"op", "alloc", "granted"} /\ mpc' \in {"await", "alloc", "granted"}
      /\ now.op \in {"new"} \cup Pushes
  <2>1. /\ UNCHANGED <<heap, bindings, loc, hook, node, todo, cpc, chunk, scan>>
        /\ todo # <<>> /\ mpc \in {"op", "alloc", "granted"} /\ mpc' \in {"await", "alloc", "granted"}
        /\ Allocating \/ mpc = "granted"
    BY DEF RunOut, Resume, Retry, GiveUp, At, In, Allocating, Stay, collectorVars, opVars, shared
  <2>2. Allocating => now.op \in {"new"} \cup Pushes
    BY AtAllocation
  <2>3. mpc = "granted" => now.op \in {"new"} \cup Pushes
    BY <2>1, NextOperation DEF Control, Pushes
  <2> QED
    BY <2>1, <2>2, <2>3
<1>2. /\ SameStacks /\ SameWords(K) /\ Ranges' /\ SwapInv' /\ now' = now /\ P' = P /\ X' = X /\ Addr' = Addr
      /\ ~ Linking /\ ~ Linking' /\ ~ Hooking /\ ~ Hooking' /\ ~ HasNode /\ ~ HasNode'
      /\ Nodes(K)' = Nodes(K) /\ Lists(K)' = Lists(K) /\ Values(K)' = Values(K)
  <2>1. SwapInv'
    BY MutatorKeepsSwapInv DEF MutatorStep
  <2>2. SameStacks /\ SameWords(K) /\ Ranges' /\ now' = now /\ P' = P /\ X' = X /\ Addr' = Addr
    BY <1>1 DEF SameStacks, SameWords, Ranges, now, P, X, Addr, Pointer, Roots0
  <2>3. ~ Linking /\ ~ Linking' /\ ~ Hooking /\ ~ Hooking' /\ ~ HasNode /\ ~ HasNode'
    BY <1>1 DEF Linking, Hooking, HasNode
  <2> QED
    BY <1>1, <2>1, <2>2, <2>3, SetsSame DEF SameWords
<1>3. /\ Held \in Seq(Values(K) \cup Lists(K)) /\ Len(Held) \in {0, 2} /\ Held' = Held
  <2>1. Held \in Seq(Values(K) \cup Lists(K)) /\ Len(Held) \in {0, 2}
    BY <1>1, HeldKnown
  <2>2. Held' = Held
    BY <1>2 DEF Held
  <2> QED
    BY <2>1, <2>2
<1>4. /\ c.regs \in Seq(Kept) /\ registers \in Seq(K)
      /\ Len(registers) = Len(c.regs) + Len(InRegisters)
      /\ \A k \in 1 .. Len(c.regs) : registers[k] \in Values(K) /\ IsA(heap, registers[k], c.regs[k])
  BY DEF Knows, KnowsRegisters, Roots0
<1>5. registers' \in Seq(K) /\ Len(registers') = Len(c.regs) + Len(InRegisters')
      /\ \A k \in 1 .. Len(c.regs) : registers'[k] = registers[k]
  <2>1. CASE RunOut
    <3>1. registers' = registers \o Held /\ InRegisters = <<>> /\ InRegisters' = Held
      BY <1>3, <2>1 DEF RunOut, Stay, InRegisters, Allocating, At, In
    <3>2. Held \in Seq(K)
      BY <1>3 DEF Values, Lists
    <3>3. Len(registers) = Len(c.regs) /\ Len(c.regs) \in Nat
      <4>1. Len(<<>>) = 0 /\ Len(c.regs) \in Nat
        BY <1>4
      <4> QED
        BY <1>4, <3>1, <4>1
    <3>4. /\ registers \o Held \in Seq(K) /\ Len(registers \o Held) = Len(registers) + Len(Held)
          /\ \A k \in 1 .. Len(registers) : (registers \o Held)[k] = registers[k]
      BY <1>4, <3>2, JoinFacts
    <3> QED
      BY <3>1, <3>3, <3>4
  <2>2. CASE Resume
    <3>1. registers' = SubSeq(registers, 1, Len(registers) - Len(Held)) /\ InRegisters = Held /\ InRegisters' = <<>>
      BY <2>2 DEF Resume, Stay, InRegisters, At
    <3>2. Len(c.regs) \in Nat /\ Len(registers) - Len(Held) = Len(c.regs) /\ Len(c.regs) <= Len(registers)
      BY <1>3, <1>4, <3>1
    <3>3. registers' = SubSeq(registers, 1, Len(c.regs))
      BY <3>1, <3>2
    <3> QED
      BY <1>4, <3>1, <3>2, <3>3, CutFacts
  <2>3. CASE Retry \/ GiveUp
    <3>1. registers' = registers /\ InRegisters = Held /\ InRegisters' = Held
      BY <1>3, <2>3 DEF Retry, GiveUp, Stay, InRegisters, At, opVars
    <3> QED
      BY <1>4, <3>1
  <2> QED
    BY <2>1, <2>2, <2>3
<1>6. Words(K)' /\ Roots0(K)'
  BY <1>1, <1>2, <1>5, WordsFrame DEF Roots0, OrNull
<1>7. InHand(K)' /\ Control' /\ Halfway(K)' /\ Fresh(K, o)'
  <2>1. InHand(K)'
    BY <1>1, <1>2 DEF InHand, InWork, Greys
  <2>2. Control'
    BY <1>1, <1>2 DEF Control, Pushes
  <2>3. Halfway(K)' /\ Fresh(K, o)'
    BY <1>1, <1>2 DEF Halfway, Fresh
  <2> QED
    BY <2>1, <2>2, <2>3
<1>8. Owned(K, o)'
  <2>1. \A l \in Lists(K) : LastOf(l)' = LastOf(l)
    BY <1>1, <1>2 DEF LastOf
  <2> QED
    BY <1>2, <2>1, OwnedFrame
<1>9. Knows(K, c)'
  <2>1. KnowsLocals(K, c)'
    BY <1>1, <1>2 DEF Knows, KnowsLocals
  <2>2. KnowsRegisters(K, c)'
    BY <1>1, <1>2, <1>4, <1>5 DEF KnowsRegisters
  <2>3. KnowsBound(K, c)'
    BY <1>1, <1>2 DEF Knows, KnowsBound
  <2>4. Rest' = Rest
    BY <1>1 DEF Rest
  <2> QED
    BY <1>1, <2>1, <2>2, <2>3, <2>4 DEF Knows
<1> QED
  BY <1>2, <1>6, <1>7, <1>8, <1>9

-----------------------------------------------------------------------------
(* Operations that write no chunk. *)

LEMMA MoveOn ==
  ASSUME NEW K, NEW o, NEW c, NEW d, Shape(K, o, c), SwapInv', UNCHANGED <<heap, hook, node, cpc, chunk, scan>>,
         mpc = "op", mpc' = "op", SameStacks, todo' = Tail(todo),
         Certified(Plain, Tail(todo), d), Forgets(d),
         bindings' \in [Symbol -> OrNull(Values(K))], registers' \in Seq(K),
         KnowsLocals(K, d)', KnowsRegisters(K, d)'
  PROVE  Shape(K, o, d)'
<1> USE DEF Shape
<1>1. SameWords(K) /\ Ranges' /\ Addr' = Addr
  BY DEF SameWords, Ranges, Addr, Pointer
<1>2. /\ ~ Linking /\ ~ Linking' /\ ~ Hooking /\ ~ Hooking' /\ ~ HasNode /\ ~ HasNode'
      /\ Nodes(K)' = Nodes(K) /\ Lists(K)' = Lists(K) /\ Values(K)' = Values(K)
  BY <1>1, SetsSame DEF Linking, Hooking, HasNode, SameWords
<1>3. Words(K)' /\ Roots0(K)'
  BY <1>1, <1>2, WordsFrame DEF Roots0, OrNull, SameStacks
<1>4. InHand(K)' /\ Control' /\ Halfway(K)' /\ Fresh(K, o)'
  <2>1. InHand(K)'
    BY <1>1, <1>2 DEF InHand, InWork, Greys
  <2>2. Control'
    BY <1>2 DEF Control
  <2>3. Halfway(K)' /\ Fresh(K, o)'
    BY <1>2 DEF Halfway, Fresh
  <2> QED
    BY <2>1, <2>2, <2>3
<1>5. Owned(K, o)'
  <2>1. \A l \in Lists(K) : LastOf(l)' = LastOf(l)
    BY <1>2 DEF LastOf
  <2> QED
    BY <1>1, <2>1, OwnedFrame
<1>6. Knows(K, d)'
  <2>1. Rest' = Tail(todo)
    BY DEF Rest
  <2>2. KnowsBound(K, d)' /\ KnowsItems(d)'
    BY DEF Forgets, KnowsBound, KnowsItems
  <2> QED
    BY <2>1, <2>2 DEF Knows, Forgets
<1> QED
  BY <1>1, <1>3, <1>4, <1>5, <1>6

(* A local that is assigned a chunk of its kind. *)
LEMMA AssignKnown ==
  ASSUME NEW K, NEW c, NEW d, NEW o, NEW i, NEW kind, KnowsLocals(K, c), UNCHANGED heap, SameStacks,
         i \in Values(K), IsA(heap, i, kind), Assigns(o, kind, c, d),
         loc' = [y \in DOMAIN loc \cup {o.x} |-> IF y = o.x THEN i ELSE loc[y]]
  PROVE  KnowsLocals(K, d)'
<1>1. Values(K)' = Values(K)
  BY DEF Values, SameStacks
<1>2. ASSUME NEW e \in d.loc
      PROVE  e[1] \in DOMAIN loc' /\ e[1] \notin Stacks /\ loc'[e[1]] \in Values(K) /\ IsA(heap, loc'[e[1]], e[2])
  <2>1. CASE e = <<o.x, kind>>
    BY <2>1 DEF Assigns, OwnLocal
  <2>2. CASE e \in c.loc /\ e[1] # o.x
    BY <2>2 DEF KnowsLocals
  <2> QED
    BY <2>1, <2>2 DEF Assigns
<1> QED
  BY <1>1, <1>2 DEF KnowsLocals

(* The last register, given back *)
LEMMA RegisterBack ==
  ASSUME NEW K, NEW c, NEW d, NEW kind, Roots0(K), KnowsRegisters(K, c), mpc = "op", mpc' = "op",
         Gives(c, d, kind), UNCHANGED heap, SameStacks, registers' = Front(registers)
  PROVE  /\ registers' \in Seq(K) /\ KnowsRegisters(K, d)'
         /\ Last(registers) \in Values(K) /\ IsA(heap, Last(registers), kind)
<1>1. InRegisters = <<>> /\ InRegisters' = <<>>
  BY DEF InRegisters
<1>2. /\ registers \in Seq(K) /\ Len(registers) = Len(c.regs)
      /\ \A k \in 1 .. Len(c.regs) : registers[k] \in Values(K) /\ IsA(heap, registers[k], c.regs[k])
  <2>1. Len(c.regs) \in Nat /\ Len(<<>>) = 0
    BY DEF KnowsRegisters
  <2> QED
    BY <1>1, <2>1 DEF KnowsRegisters, Roots0
<1>3. /\ d.regs \in Seq(Kept) /\ Len(d.regs) \in Nat /\ Len(c.regs) = Len(d.regs) + 1
      /\ c.regs[Len(c.regs)] = kind
      /\ \A k \in 1 .. Len(d.regs) : c.regs[k] = d.regs[k] /\ k \in 1 .. Len(c.regs)
  BY GivesFacts
<1>4. /\ Front(registers) \in Seq(K) /\ Len(Front(registers)) = Len(d.regs) /\ Last(registers) = registers[Len(c.regs)]
      /\ \A k \in 1 .. Len(d.regs) : Front(registers)[k] = registers[k]
  BY <1>2, <1>3, LastFacts
<1>5. Last(registers) \in Values(K) /\ IsA(heap, Last(registers), kind)
  BY <1>2, <1>3, <1>4
<1>6. Values(K)' = Values(K)
  BY DEF Values, SameStacks
<1>7. KnowsRegisters(K, d)'
  BY <1>1, <1>2, <1>3, <1>4, <1>6 DEF KnowsRegisters
<1> QED
  BY <1>4, <1>5, <1>7

LEMMA FetchKeeps ==
  ASSUME NEW K, NEW o, NEW c, Shape(K, o, c), Fetch
  PROVE  \E d : Typed(Plain, now, c, d) /\ Shape(K, o, d)'
<1> USE DEF Shape
<1>1. /\ UNCHANGED <<heap, bindings, hook, node, cpc, chunk, scan>> /\ mpc = "op" /\ mpc' = "op"
      /\ todo # <<>> /\ todo' = Tail(todo) /\ Assign(now.x, Fetched)
      /\ registers' = IF now.op = "pop_register" THEN Front(registers) ELSE registers
  BY DEF Fetch, In, At, Finish, AllocatorIdle, collectorVars
<1>2. PICK d : Typed(Plain, now, c, d) /\ Certified(Plain, Tail(todo), d)
  BY <1>1, TypedNow
<1>3. now.op \in {"pop_register", "front", "dereference"}
  BY <1>1, NextOperation DEF Fetch, In, Pushes
<1>4. SwapInv'
  BY MutatorKeepsSwapInv DEF MutatorStep
<1>5. Forgets(d) /\ now.x \notin Stacks
  BY <1>2, <1>3, TypedAs DEF TypedPopRegister, TypedFront, TypedDereference, Assigns, OwnLocal
<1>6. /\ SameStacks
      /\ loc' = [y \in DOMAIN loc \cup {now.x} |-> IF y = now.x THEN Fetched ELSE loc[y]]
  <2> Roots0(K)
    OBVIOUS
  <2> QED
    BY <1>1, <1>5 DEF Assign, SameStacks, Stacks, Roots0
<1>7. KnowsLocals(K, c) /\ KnowsRegisters(K, c) /\ KnowsBound(K, c) /\ KnowsItems(c) /\ ~ c.code
  BY <1>1 DEF Knows, Linking, Hooking
<1>8. bindings' \in [Symbol -> OrNull(Values(K))]
  BY <1>1 DEF Roots0
<1>9. ASSUME now.op = "pop_register"
      PROVE  registers' \in Seq(K) /\ KnowsRegisters(K, d)' /\ KnowsLocals(K, d)'
  <2>1. PICK kind : Gives(c, d, kind) /\ Assigns(now, kind, c, d)
    BY <1>2, <1>9, TypedAs DEF TypedPopRegister
  <2>2. Fetched = Last(registers)
    BY <1>9 DEF Fetched
  <2>3. /\ registers' \in Seq(K) /\ KnowsRegisters(K, d)'
        /\ Last(registers) \in Values(K) /\ IsA(heap, Last(registers), kind)
    BY <1>1, <1>6, <1>7, <1>9, <2>1, RegisterBack
  <2>4. KnowsLocals(K, d)'
    BY <1>1, <1>6, <1>7, <2>1, <2>2, <2>3, AssignKnown
  <2> QED
    BY <2>3, <2>4
<1>10. ASSUME now.op \in {"front", "dereference"}
       PROVE  registers' \in Seq(K) /\ KnowsRegisters(K, d)' /\ KnowsLocals(K, d)'
  <2>1. registers' = registers /\ d.regs = c.regs
    <3>1. TypedFront(now, c, d) \/ TypedDereference(now, c, d)
      BY <1>2, <1>10, TypedAs
    <3> QED
      BY <1>1, <1>10, <3>1 DEF TypedFront, TypedDereference
  <2>2. KnowsRegisters(K, d)' /\ registers' \in Seq(K)
    <3>1. Values(K)' = Values(K) /\ InRegisters = <<>> /\ InRegisters' = <<>>
      BY <1>1, <1>6 DEF Values, SameStacks, InRegisters
    <3> QED
      BY <1>1, <1>7, <2>1, <3>1 DEF KnowsRegisters, Roots0
  <2>3. PICK kind : Fetched \in Values(K) /\ IsA(heap, Fetched, kind) /\ Assigns(now, kind, c, d)
    <3>1. CASE now.op = "front"
      <4>1. now.p = "ds" /\ c.top # <<>> /\ Assigns(now, Head(c.top), c, d)
        BY <1>2, <1>7, <3>1, TypedAs DEF TypedFront
      <4>2. KnowsItem(Item1, c.top[1]) /\ Head(c.top) = c.top[1]
        BY <1>7, <4>1 DEF KnowsItems
      <4>3. Fetched = heap[Item1].a
        BY <3>1, <4>1 DEF Fetched, Item1, P
      <4>4. Item1 \in Nodes(K)
        BY <4>2 DEF Item1, KnowsItem, Words, Roots0, OrNull
      <4> QED
        BY <4>1, <4>2, <4>3, <4>4 DEF KnowsItem, Words
    <3>2. CASE now.op = "dereference"
      <4>1. PICK kind : <<now.v, kind>> \in c.bound /\ Assigns(now, kind, c, d)
        BY <1>2, <3>2, TypedAs DEF TypedDereference
      <4>2. Fetched = bindings[now.v]
        BY <3>2 DEF Fetched
      <4> QED
        BY <1>7, <4>1, <4>2 DEF KnowsBound
    <3> QED
      BY <1>10, <3>1, <3>2
  <2>4. KnowsLocals(K, d)'
    BY <1>1, <1>6, <1>7, <2>3, AssignKnown
  <2> QED
    BY <2>2, <2>4
<1>11. registers' \in Seq(K) /\ KnowsRegisters(K, d)' /\ KnowsLocals(K, d)'
  BY <1>3, <1>9, <1>10
<1>12. Shape(K, o, d)'
  <2>1. Shape(K, o, c) => Shape(K, o, d)'
    BY <1>1, <1>2, <1>4, <1>5, <1>6, <1>8, <1>11, MoveOn
  <2> QED
    BY <2>1
<1> QED
  BY <1>2, <1>12

LEMMA KeepKeeps ==
  ASSUME NEW K, NEW o, NEW c, Shape(K, o, c), Keep
  PROVE  \E d : Typed(Plain, now, c, d) /\ Shape(K, o, d)'
<1> USE DEF Shape
<1>1. /\ UNCHANGED <<heap, bindings, loc, hook, node, cpc, chunk, scan>> /\ mpc = "op" /\ mpc' = "op"
      /\ todo # <<>> /\ todo' = Tail(todo) /\ now.op \in {"push_register", "release"}
      /\ registers' = IF now.op = "release" THEN Front(registers) ELSE Append(registers, P)
  BY DEF Keep, In, At, Finish, AllocatorIdle, collectorVars
<1>2. PICK d : Typed(Plain, now, c, d) /\ Certified(Plain, Tail(todo), d)
  BY <1>1, TypedNow
<1>3. SwapInv' /\ SameStacks
  BY <1>1, MutatorKeepsSwapInv DEF MutatorStep, SameStacks, Roots0
<1>4. Forgets(d) /\ d.loc \subseteq c.loc
  BY <1>1, <1>2, TypedAs DEF TypedKeep, TypedRelease
<1>5. KnowsLocals(K, c) /\ KnowsRegisters(K, c)
  BY DEF Knows
<1>6. bindings' \in [Symbol -> OrNull(Values(K))] /\ Values(K)' = Values(K)
  BY <1>1, <1>3 DEF Roots0, Values, SameStacks
<1>7. KnowsLocals(K, d)'
  BY <1>1, <1>4, <1>5, <1>6 DEF KnowsLocals
<1>8. registers' \in Seq(K) /\ KnowsRegisters(K, d)'
  <2>1. CASE now.op = "release"
    <3>1. PICK kind : Gives(c, d, kind)
      BY <1>2, <2>1, TypedAs DEF TypedRelease
    <3>2. registers' = Front(registers) /\ UNCHANGED heap
      BY <1>1, <2>1
    <3>3. Roots0(K)
      OBVIOUS
    <3> QED
      BY <1>1, <1>3, <1>5, <3>1, <3>2, <3>3, RegisterBack
  <2>2. CASE now.op = "push_register"
    <3>1. PICK kind \in Kept : <<now.p, kind>> \in c.loc /\ d.regs = Append(c.regs, kind)
      <4>1. TypedKeep(now, c, d)
        BY <1>2, <2>2, TypedAs
      <4> QED
        BY <4>1 DEF TypedKeep, Is, Kept
    <3>2. P \in Values(K) /\ P \in K /\ IsA(heap, P, kind)
      BY <1>5, <3>1 DEF KnowsLocals, P, Values
    <3>3. /\ registers \in Seq(K) /\ c.regs \in Seq(Kept) /\ Len(registers) = Len(c.regs)
          /\ InRegisters' = <<>>
          /\ \A k \in 1 .. Len(c.regs) : registers[k] \in Values(K) /\ IsA(heap, registers[k], c.regs[k])
      <4>1. InRegisters = <<>> /\ InRegisters' = <<>> /\ Len(<<>>) = 0 /\ Len(c.regs) \in Nat
        BY <1>1, <1>5 DEF InRegisters, KnowsRegisters
      <4> QED
        BY <1>5, <4>1 DEF KnowsRegisters, Roots0
    <3> DEFINE t == c.regs
    <3> HIDE DEF t
    <3>4. /\ t \in Seq(Kept) /\ d.regs = Append(t, kind) /\ Len(registers) = Len(t)
          /\ \A k \in 1 .. Len(t) : registers[k] \in Values(K) /\ IsA(heap, registers[k], t[k])
      BY <3>1, <3>3 DEF t
    <3>5. /\ d.regs \in Seq(Kept) /\ Len(d.regs) = Len(t) + 1 /\ d.regs[Len(t) + 1] = kind
          /\ Len(t) \in Nat /\ \A k \in 1 .. Len(t) : d.regs[k] = t[k]
      BY <3>1, <3>4, AppendFacts
    <3>6. registers' = Append(registers, P) /\ registers' \in Seq(K) /\ Len(registers') = Len(t) + 1
          /\ registers'[Len(t) + 1] = P /\ \A k \in 1 .. Len(t) : registers'[k] = registers[k]
      <4> HIDE DEF P
      <4> QED
        BY <1>1, <2>2, <3>2, <3>3, <3>4, AppendFacts
    <3>7. \A k \in 1 .. Len(d.regs) : registers'[k] \in Values(K) /\ IsA(heap, registers'[k], d.regs[k])
      BY <3>2, <3>4, <3>5, <3>6
    <3>8. Len(registers') = Len(d.regs) + Len(InRegisters')
      BY <3>3, <3>5, <3>6
    <3> QED
      BY <1>1, <1>6, <3>5, <3>6, <3>7, <3>8 DEF KnowsRegisters
  <2> QED
    BY <1>1, <2>1, <2>2
<1> QED
  BY <1>1, <1>2, <1>3, <1>4, <1>6, <1>7, <1>8, MoveOn

LEMMA BindKeeps ==
  ASSUME NEW K, NEW o, NEW c, Shape(K, o, c), BindSymbol
  PROVE  \E d : Typed(Plain, now, c, d) /\ Shape(K, o, d)' /\ X \in Values(K) /\ heap[P].a \in Symbol
<1> USE DEF Shape
<1>1. /\ UNCHANGED <<heap, registers, loc, hook, node, cpc, chunk, scan>> /\ mpc = "op" /\ mpc' = "op"
      /\ todo # <<>> /\ todo' = Tail(todo) /\ now.op = "bind"
      /\ bindings' = [bindings EXCEPT ![heap[P].a] = X]
  BY DEF BindSymbol, In, At, Finish, AllocatorIdle, collectorVars
<1>2. PICK d : Typed(Plain, now, c, d) /\ Certified(Plain, Tail(todo), d)
  BY <1>1, TypedNow
<1>3. SwapInv' /\ SameStacks
  BY <1>1, MutatorKeepsSwapInv DEF MutatorStep, SameStacks, Roots0
<1>4. Forgets(d) /\ d.loc \subseteq c.loc /\ d.regs = c.regs /\ Is(c, now.p, "symbol") /\ now.x \in Names(c)
  BY <1>1, <1>2, TypedAs DEF TypedBind
<1>5. KnowsLocals(K, c) /\ KnowsRegisters(K, c)
  BY DEF Knows
<1>6. X \in Values(K)
  <2>1. PICK e \in c.loc : e[1] = now.x
    BY <1>4 DEF Names
  <2> QED
    BY <2>1, <1>5 DEF KnowsLocals, X
<1>7. heap[P].a \in Symbol
  <2>1. P \in K /\ heap[P].type = "symbol"
    BY <1>4, <1>5 DEF Is, KnowsLocals, IsA, P, Values
  <2> QED
    BY <2>1 DEF Words
<1>8. bindings' \in [Symbol -> OrNull(Values(K))]
  BY <1>1, <1>6 DEF Roots0, OrNull
<1>9. Values(K)' = Values(K) /\ InRegisters = <<>> /\ InRegisters' = <<>>
  BY <1>1, <1>3 DEF Values, SameStacks, InRegisters
<1>10. KnowsLocals(K, d)' /\ KnowsRegisters(K, d)' /\ registers' \in Seq(K)
  BY <1>1, <1>4, <1>5, <1>9 DEF KnowsLocals, KnowsRegisters, Roots0
<1> QED
  BY <1>1, <1>2, <1>3, <1>4, <1>6, <1>7, <1>8, <1>10, MoveOn

-----------------------------------------------------------------------------
(* Arguments that pass the error_asserts are known. *)
LEMMA FitsKnown ==
  ASSUME NEW name, Fits(0, name),
         Expects(name) \in Seq(Kinds), Len(Expects(name)) \in 0 .. 3
  PROVE  KnowsItems(Context({}, <<>>, Expects(name)))
<1> DEFINE t == Expects(name)
           item(k) == NodeOf(heap, loc.ds, k)
<1>1. \A k \in DOMAIN t : item(k) # NULL /\ IsA(heap, heap[item(k)].a, t[k])
  <2>1. \A k \in DOMAIN t : 0 + k = k
    OBVIOUS
  <2> QED
    BY <2>1 DEF Fits, FitsIn
<1>2. DOMAIN t = 1 .. Len(t)
  OBVIOUS
<1>3. Len(t) >= 1 => KnowsItem(Item1, t[1])
  BY <1>1, <1>2, NodeOf1 DEF KnowsItem, Item1
<1>4. Len(t) >= 2 => KnowsItem(Item2, t[2])
  BY <1>1, <1>2, <1>3, NodeOf2 DEF KnowsItem, Item1, Item2
<1>5. Len(t) >= 3 => KnowsItem(Item3, t[3])
  BY <1>1, <1>2, <1>3, <1>4, NodeOf3 DEF KnowsItem, Item1, Item2, Item3
<1> QED
  BY <1>3, <1>4, <1>5 DEF KnowsItems, Context

LEMMA NoBlockSteps ==
  ASSUME NEW K, NEW o, NEW c, Shape(K, o, c)
  PROVE  ~ MoveCurrent /\ ~ Exit
<1>1. ~ (In("op", {"rewind", "advance"}) \/ In("op", {"stop"}))
  BY NextOperation DEF Shape, In, At, Pushes
<1> QED
  BY <1>1 DEF MoveCurrent, Exit

(* The context a builtin, an escaped symbol or a bound symbol starts in *)
LEMMA StatementKnown ==
  ASSUME NEW K, NEW o, NEW c, Shape(K, o, c), mpc = "op",
         NEW name \in Calls, NEW ops \in Statements(name)
  PROVE  \E d : /\ Certified(Plain, ops, d) /\ ~ d.code
                /\ d.loc = {} /\ d.weak = {} /\ d.regs = <<>> /\ KnowsItems(d) /\ KnowsBound(K, d)
<1> USE DEF Shape
<1>1. ASSUME NEW s \in Symbol, ops = escaped_symbol(s)
      PROVE  \E d : /\ Certified(Plain, ops, d) /\ ~ d.code
                    /\ d.loc = {} /\ d.weak = {} /\ d.regs = <<>> /\ KnowsItems(d) /\ KnowsBound(K, d)
  <2> DEFINE d == Context({}, <<>>, <<>>)
  <2>1. Certified(Plain, ops, d)
    BY <1>1, EscapedTyped DEF Plain
  <2>2. /\ d.loc = {} /\ d.weak = {} /\ d.regs = <<>> /\ d.top = <<>> /\ d.bound = {} /\ ~ d.code
    BY DEF Context
  <2> HIDE DEF d
  <2>3. KnowsItems(d) /\ KnowsBound(K, d)
    BY <2>2 DEF KnowsItems, KnowsBound
  <2> QED
    BY <2>1, <2>2, <2>3
<1>2. CASE name = "escaped-symbol"
  BY <1>1, <1>2 DEF Statements
<1>3. CASE name = "symbol"
  <2>1. PICK s \in Symbol : ops \in Bound(Meant(s))
    BY <1>3 DEF Statements
  <2> DEFINE m == Meant(s)
  <2>2. m \in Symbol
    <3>1. DOMAIN bindings = Symbol /\ \A t \in Symbol : bindings[t] # NULL /\ heap[bindings[t]].type = "symbol"
                                     => heap[bindings[t]].a \in Symbol
      BY DEF Roots0, Words, Values, OrNull
    <3> QED
      BY <3>1, MeantIsSymbol, SymbolAssumption DEF Meant
  <2> HIDE DEF m
  <2>3. /\ bindings[m] \in Values(K) /\ bindings[m] \in K /\ bindings[m] \in Addr
        /\ heap[bindings[m]].type \in Types \ {"block"}
        /\ heap[bindings[m]].type = "escaped" => heap[bindings[m]].a \in Symbol
        /\ ops = (IF heap[bindings[m]].type = "escaped" THEN escaped_symbol(heap[bindings[m]].a)
                  ELSE symbol_data(m))
    <3>1. ops \in BoundIn(heap, bindings, m)
      BY <2>1 DEF m, Bound
    <3>2. bindings[m] # NULL
      BY <3>1 DEF BoundIn
    <3>3. bindings[m] \in Values(K) /\ bindings[m] \in K /\ bindings[m] \in Addr
      BY <2>2, <3>2 DEF Roots0, OrNull, Values, Words
    <3>4. heap[bindings[m]].type \in Types \ {"block"}
      BY <3>3 DEF Ranges
    <3> QED
      BY <3>1, <3>2, <3>3, <3>4 DEF BoundIn, Words, Types
  <2>4. CASE heap[bindings[m]].type = "escaped"
    <3>1. heap[bindings[m]].a \in Symbol /\ ops = escaped_symbol(heap[bindings[m]].a)
      BY <2>3, <2>4
    <3> QED
      BY <1>1, <3>1
  <2>5. CASE heap[bindings[m]].type # "escaped"
    <3> DEFINE d == Binding(m, "any")
    <3>1. Certified(Plain, ops, d)
      BY <2>3, <2>5, SymbolDataTyped
    <3>2. /\ d.loc = {} /\ d.weak = {} /\ d.regs = <<>> /\ d.top = <<>> /\ d.bound = {<<m, "any">>} /\ ~ d.code
      BY DEF Binding
    <3> HIDE DEF d
    <3>3. KnowsItems(d) /\ KnowsBound(K, d)
      BY <2>2, <2>3, <3>2 DEF KnowsItems, KnowsBound, IsA
    <3> QED
      BY <3>1, <3>2, <3>3
  <2> QED
    BY <2>4, <2>5
<1>4. CASE name \notin {"escaped-symbol", "symbol"}
  <2>1. ops = Program(name) /\ Fits(0, name)
    BY <1>4 DEF Statements
  <2>2. name \in (BuiltinFunctions \ {"if"}) \cup {"if-not", "if-block"} /\ name \notin {"break", "loop"}
    BY <1>4, CallsAssumption
  <2> DEFINE d == Context({}, <<>>, Expects(name))
  <2>3. Certified(Plain, ops, d)
    BY <2>1, <2>2, BuiltinsFit DEF Start
  <2>4. Expects(name) \in Seq(Kinds) /\ Len(Expects(name)) \in 0 .. 3
    BY ExpectsShort
  <2>5. KnowsItems(d)
    BY <2>1, <2>4, FitsKnown
  <2>6. /\ d.loc = {} /\ d.weak = {} /\ d.regs = <<>> /\ d.bound = {} /\ ~ d.code
    BY DEF Context
  <2> HIDE DEF d
  <2> QED
    BY <2>3, <2>5, <2>6 DEF KnowsBound
<1> QED
  BY <1>2, <1>3, <1>4

LEMMA CallKeeps ==
  ASSUME NEW K, NEW o, NEW c, Shape(K, o, c), Call
  PROVE  \E d : Shape(K, o, d)' /\ d.loc = {}
<1> USE DEF Shape
<1>1. /\ UNCHANGED <<heap, bindings, registers, hook, node, mpc, cpc, chunk, scan>>
      /\ todo = <<>> /\ \E name \in Calls : \E ops \in Statements(name) : todo' = ops
      /\ loc' = [x \in {"cs", "ds"} |-> loc[x]]
  BY DEF Call, Idle, shared, collectorVars
<1>2. mpc = "op"
  BY <1>1 DEF Control
<1>3. PICK name \in Calls : todo' \in Statements(name)
  BY <1>1
<1>4. PICK d : /\ Certified(Plain, todo', d) /\ ~ d.code
               /\ d.loc = {} /\ d.weak = {} /\ d.regs = <<>> /\ KnowsItems(d) /\ KnowsBound(K, d)
  BY <1>2, <1>3, StatementKnown
<1>5. SwapInv'
  BY <1>1, OthersKeepSwapInv DEF Call, shared
<1>6. SameStacks /\ SameWords(K) /\ Ranges' /\ Addr' = Addr
  BY <1>1 DEF SameStacks, SameWords, Ranges, Addr, Pointer, Roots0
<1>7. /\ ~ Linking /\ ~ Linking' /\ ~ Hooking /\ ~ Hooking' /\ ~ HasNode /\ ~ HasNode'
      /\ Nodes(K)' = Nodes(K) /\ Lists(K)' = Lists(K) /\ Values(K)' = Values(K)
  BY <1>1, <1>2, <1>6, SetsSame DEF Linking, Hooking, HasNode, SameWords
<1>8. Words(K)' /\ Roots0(K)'
  BY <1>1, <1>6, <1>7, WordsFrame DEF Roots0, OrNull, SameStacks
<1>9. InHand(K)' /\ Control' /\ Halfway(K)' /\ Fresh(K, o)'
  <2>1. InHand(K)'
    BY <1>1, <1>6, <1>7 DEF InHand, InWork, Greys
  <2>2. Control'
    BY <1>1, <1>2, <1>7 DEF Control
  <2>3. Halfway(K)' /\ Fresh(K, o)'
    BY <1>1, <1>2, <1>7 DEF Halfway, Fresh
  <2> QED
    BY <2>1, <2>2, <2>3
<1>10. Owned(K, o)'
  <2>1. \A l \in Lists(K) : LastOf(l)' = LastOf(l)
    BY <1>1, <1>2, <1>7 DEF LastOf
  <2> QED
    BY <1>6, <2>1, OwnedFrame
<1>11. Knows(K, d)'
  <2>1. Rest' = todo' /\ InRegisters = <<>> /\ InRegisters' = <<>> /\ Rest = <<>>
    BY <1>1, <1>2 DEF Rest, InRegisters
  <2>2. c.regs = <<>>
    BY <2>1, CertifiedEnd DEF Knows
  <2>3. KnowsRegisters(K, d)'
    BY <1>1, <1>4, <1>7, <2>1, <2>2 DEF Knows, KnowsRegisters
  <2>4. KnowsLocals(K, d)'
    BY <1>4 DEF KnowsLocals
  <2>5. KnowsBound(K, d)'
    BY <1>1, <1>4, <1>7 DEF KnowsBound
  <2>6. KnowsItems(d)'
    BY <1>4, <1>6, ItemsSame
  <2> QED
    BY <1>1, <1>2, <1>4, <2>1, <2>3, <2>4, <2>5, <2>6 DEF Knows
<1> QED
  BY <1>4, <1>5, <1>6, <1>8, <1>9, <1>10, <1>11

(* Neither the counters nor the allocator's lists matter to it. *)
LEMMA Unmoved ==
  ASSUME NEW K, NEW o, NEW c, Shape(K, o, c),
         UNCHANGED <<heap, registers, bindings, loc, todo, mpc, hook, node, cpc, chunk, scan, black, white>>
  PROVE  Shape(K, o, c)'
<1>1. heap' = heap /\ registers' = registers /\ bindings' = bindings /\ loc' = loc /\ todo' = todo /\ mpc' = mpc
      /\ hook' = hook /\ node' = node /\ cpc' = cpc /\ chunk' = chunk /\ scan' = scan /\ black' = black /\ white' = white
  OBVIOUS
<1>2. Addr' = Addr
  BY DEF Addr
<1> USE <1>1, <1>2 DEF Shape
<1>3. SwapInv'
  BY DEF SwapInv, HeapOfRecords, Record, HookReturns, Colours, AllocatorsAllocate, BuiltNotWhite, NothingWhiteAtSwap,
         White, now
<1>4. Addr' = Addr /\ now' = now /\ P' = P /\ X' = X /\ Linking' = Linking /\ HasNode' = HasNode /\ Hooking' = Hooking
      /\ SameStacks /\ SameWords(K)
  BY DEF Addr, now, P, X, Linking, HasNode, Hooking, SameStacks, SameWords, Roots0
<1>5. Nodes(K)' = Nodes(K) /\ Lists(K)' = Lists(K) /\ Values(K)' = Values(K)
  BY <1>4, SetsSame DEF SameWords
<1>6. Ranges' /\ Words(K)'
  BY <1>4, WordsFrame DEF Ranges, Pointer
<1>7. Roots0(K)'
  BY <1>5 DEF Roots0, OrNull
<1>8. InHand(K)' /\ Fresh(K, o)' /\ Halfway(K)'
  <2>1. InHand(K)'
    BY <1>4, <1>5 DEF InHand, InWork, Greys
  <2>2. Fresh(K, o)' /\ Halfway(K)'
    BY <1>4, <1>5 DEF Fresh, Halfway, InWork, Greys
  <2> QED
    BY <2>1, <2>2
<1>9. Control'
  BY <1>4 DEF Control
<1>10. Owned(K, o)'
  <2>1. \A l \in Lists(K) : LastOf(l)' = LastOf(l)
    BY <1>4 DEF LastOf
  <2> QED
    BY <1>4, <2>1, OwnedFrame
<1>11. Knows(K, c)'
  <2>1. Rest' = Rest /\ InRegisters' = InRegisters
    BY <1>4 DEF Rest, InRegisters, Held
  <2> QED
    BY <1>4, <2>1, KnowsFrame
<1> QED
  BY <1>3, <1>6, <1>7, <1>8, <1>9, <1>10, <1>11

(* Steps that only end the process *)
LEMMA EndKeeps ==
  ASSUME NEW K, NEW o, NEW c, Shape(K, o, c), Fail \/ Return \/ Ended
  PROVE  Shape(K, o, c)'
<1>1. UNCHANGED <<heap, registers, bindings, loc, todo, mpc, hook, node, cpc, chunk, scan, black, white>>
  BY DEF Fail, Return, Ended, gcVars, shared, opVars, collectorVars
<1> QED
  BY <1>1, Unmoved


-----------------------------------------------------------------------------
(* The collector, and what it owes to what the mutator knows.               *)

(* Where the collector is *)
CollectorInRange ==
  /\ cpc \in {"await", "root", "find", "scan", "first", "second", "grey_first", "grey_second",
              "blacken", "build"}
  /\ chunk \in Addr /\ scan \in Nat /\ pass \in 0 .. ScanPasses
  /\ cpc = "root" => scan < Len(RootChunks)
  /\ cpc = "scan" => scan \in Addr
  /\ cpc = "build" => scan <= N

-----------------------------------------------------------------------------
LEMMA PairBefore ==
  ASSUME NEW T, NEW u \in Seq(T), NEW v \in Seq(T)
  PROVE  Len(u) = 2 => /\ Len(u \o v) = Len(v) + 2 /\ Len(v) \in Nat
                       /\ (u \o v)[1] = u[1] /\ (u \o v)[2] = u[2]
                       /\ \A k \in 1 .. Len(v) : (u \o v)[k + 2] = v[k]
<1> DEFINE w == u \o v
<1>1. /\ Len(w) = Len(u) + Len(v)
      /\ \A k \in 1 .. Len(u) : w[k] = u[k]
      /\ \A k \in 1 .. Len(v) : w[Len(u) + k] = v[k]
  OBVIOUS
<1> HIDE DEF w
<1>2. SUFFICES ASSUME Len(u) = 2
               PROVE  /\ Len(w) = Len(v) + 2 /\ Len(v) \in Nat /\ w[1] = u[1] /\ w[2] = u[2]
                      /\ \A k \in 1 .. Len(v) : w[k + 2] = v[k]
  BY DEF w
<1>3. Len(w) = Len(v) + 2 /\ Len(v) \in Nat /\ w[1] = u[1] /\ w[2] = u[2]
  BY <1>1, <1>2
<1>4. ASSUME NEW k \in 1 .. Len(v) PROVE w[k + 2] = v[k]
  <2>1. k + 2 = 2 + k
    OBVIOUS
  <2> QED
    BY <1>1, <1>2, <2>1
<1> QED
  BY <1>3, <1>4

(* The roots, one after the other *)
LEMMA RootList ==
  ASSUME NEW K, Words(K), Roots0(K)
  PROVE  /\ Len(RootChunks) = Cardinality(Symbol) + 2 /\ Len(RootChunks) \in Nat
         /\ \A j \in 1 .. Len(RootChunks) : RootChunks[j] \in OrNull(Values(K) \cup Lists(K))
         /\ RootChunks[1] = loc.ds /\ RootChunks[2] = loc.cs
         /\ \A s \in Symbol : s + 3 \in 3 .. Len(RootChunks) /\ RootChunks[s + 3] = bindings[s]
<1> DEFINE n == Cardinality(Symbol)
           T == OrNull(Values(K) \cup Lists(K))
           v == [k \in 1 .. n |-> bindings[k - 1]]
           r == RootChunks
           u == <<loc.ds, loc.cs>>
<1>1. n \in Nat /\ Symbol = 0 .. n - 1
  BY SymbolAssumption, FS_CardinalityType
<1>2. \A s \in Symbol : bindings[s] \in T
  BY DEF Roots0, OrNull
<1>3. loc.ds \in T /\ loc.cs \in T
  BY DEF Roots0, OrNull
<1>4. r = u \o v
  BY DEF RootChunks
<1> HIDE DEF n, T
<1>5. \A k \in 1 .. n : k - 1 \in Symbol /\ v[k] = bindings[k - 1]
  BY <1>1
<1>6. v \in [1 .. n -> T]
  BY <1>2, <1>5
<1>a. v \in Seq(T) /\ Len(v) = n
  BY <1>1, <1>6
<1>b. u \in Seq(T) /\ Len(u) = 2 /\ u[1] = loc.ds /\ u[2] = loc.cs
  BY <1>3
<1> HIDE DEF u, v, r
<1>7. Len(r) = n + 2 /\ r[1] = loc.ds /\ r[2] = loc.cs /\ \A k \in 1 .. n : r[k + 2] = v[k]
  BY <1>4, <1>a, <1>b, PairBefore
<1>8. ASSUME NEW s \in Symbol PROVE s + 3 \in 3 .. n + 2 /\ r[s + 3] = bindings[s]
  <2>1. s \in Nat /\ s < n
    BY <1>1
  <2>2. s + 1 \in 1 .. n /\ (s + 1) + 2 = s + 3 /\ (s + 1) - 1 = s
    BY <1>1, <2>1
  <2>3. r[(s + 1) + 2] = v[s + 1] /\ v[s + 1] = bindings[(s + 1) - 1]
    BY <1>5, <1>7, <2>2
  <2> QED
    BY <1>1, <2>1, <2>2, <2>3
<1>9. ASSUME NEW j \in 1 .. n + 2 PROVE r[j] \in T
  <2>1. CASE j = 1 \/ j = 2
    BY <1>3, <1>7, <2>1
  <2>2. CASE j > 2
    <3>1. j - 2 \in 1 .. n /\ (j - 2) + 2 = j
      BY <1>1, <2>2
    <3>2. r[(j - 2) + 2] = v[j - 2] /\ v[j - 2] \in T
      BY <1>6, <1>7, <3>1
    <3> QED
      BY <3>1, <3>2
  <2> QED
    BY <1>1, <2>1, <2>2
<1>10. /\ Len(r) = n + 2 /\ Len(r) \in Nat
       /\ \A j \in 1 .. Len(r) : r[j] \in T
       /\ \A s \in Symbol : s + 3 \in 3 .. Len(r) /\ r[s + 3] = bindings[s]
  BY <1>1, <1>7, <1>8, <1>9
<1> QED
  BY <1>7, <1>10 DEF r, T, n

(* The words the collector reads *)
LEMMA WordKnown ==
  ASSUME NEW K, Words(K), NEW i \in K, Len(Successors(i)) = 2, NEW k \in {1, 2}
  PROVE  /\ i \in Nodes(K) \cup Lists(K) \/ heap[i].type = "block"
         /\ Successors(i)[k] \in {heap[i].a, heap[i].b}
BY DEF Successors, SuccessorsIn, Nodes, Lists

-----------------------------------------------------------------------------
(* The collector changes nothing the mutator knows. *)

LEMMA CollectorFrame ==
  ASSUME NEW K, NEW o, NEW c, Shape(K, o, c), SwapInv', Ranges', SameWords(K),
         UNCHANGED <<registers, loc, hook, node, todo, bindings>>,
         mpc' = mpc \/ (mpc = "await" /\ mpc' = "granted"),
         \A i \in Addr : heap'[i].colour = grey => i \in K,
         InWork' => chunk' \in K, Greys' => scan' \in K,
         mpc = "link" => /\ heap'[node].colour = green
                         /\ (InWork' => chunk' # node) /\ (Greys' => scan' # node)
  PROVE  Shape(K, o, c)'
<1> USE DEF Shape
<1>1. SameStacks
  BY DEF SameStacks, Roots0
<1>2. /\ Nodes(K)' = Nodes(K) /\ Lists(K)' = Lists(K) /\ Values(K)' = Values(K) /\ Addr' = Addr
      /\ Nodes(K) \subseteq K /\ Lists(K) \subseteq K
  BY <1>1, SetsSame DEF SameWords, Addr, Nodes, Lists
<1>3. /\ Linking' = Linking /\ Hooking' = Hooking /\ HasNode' = HasNode /\ now' = now /\ P' = P /\ X' = X
      /\ InRegisters' = InRegisters /\ Rest' = Rest
  <2>1. /\ Linking' = Linking /\ Hooking' = Hooking /\ HasNode' = HasNode /\ now' = now /\ P' = P /\ X' = X
        /\ Rest' = Rest
    BY DEF Linking, Hooking, HasNode, now, P, X, Rest
  <2>2. mpc = mpc' => InRegisters' = InRegisters
    BY <2>1 DEF InRegisters, Held
  <2>3. mpc = "await" /\ mpc' = "granted" => InRegisters' = InRegisters
    BY <2>1 DEF InRegisters, Held
  <2> QED
    BY <2>1, <2>2, <2>3
<1>4. Words(K)' /\ Roots0(K)'
  BY <1>1, WordsFrame, RootsFrame
<1>5. InHand(K)'
  BY <1>2, <1>3 DEF InHand, Hooks, OrNull
<1>6. Control'
  BY <1>3 DEF Control
<1>7. Owned(K, o)'
  <2>1. \A l \in Lists(K) : LastOf(l)' = LastOf(l)
    BY <1>2, <1>3 DEF LastOf, SameWords
  <2> QED
    BY <1>1, <2>1, OwnedFrame
<1>8. mpc = "link" \/ Linking => P \in K
  <2>1. mpc = "link" \/ Linking => todo # <<>> /\ mpc # "unlink_last" /\ now.op \in Pushes
    BY DEF Control, HasNode, Linking, Hooking
  <2> QED
    BY <1>2, <2>1, PushKnown
<1>9. Fresh(K, o)'
  <2> SUFFICES ASSUME mpc = "link" PROVE Fresh(K, o)'
    BY DEF Fresh
  <2>1. node \in K
    BY <1>2 DEF InHand, HasNode
  <2> QED
    BY <1>2, <1>3, <1>8, <2>1 DEF Fresh, SameWords
<1>10. Halfway(K)'
  BY <1>2, <1>3, <1>8 DEF Halfway, SameWords
<1>11. Knows(K, c)'
  BY <1>3, KnowsFrame
<1> QED
  BY <1>4, <1>5, <1>6, <1>7, <1>9, <1>10, <1>11

LEMMA HandoverKeeps ==
  ASSUME NEW K, NEW o, NEW c, Shape(K, o, c), Handover
  PROVE  /\ Shape(K, o, c)' /\ SameWords(K)
         /\ \A i \in Addr : heap'[i].colour = (IF i \in Range(registers) THEN grey ELSE heap[i].colour)
<1> USE DEF Shape
<1>1. SwapInv'
  BY CollectorKeepsSwapInv DEF CollectorStep
<1>2. DOMAIN heap = Addr /\ \A i \in Addr : DOMAIN heap[i] = {"type", "colour", "a", "b"}
  BY DEF SwapInv, HeapOfRecords, Record
<1>3. \A i \in Addr : heap'[i] = IF i \in Range(registers) THEN [heap[i] EXCEPT !.colour = grey] ELSE heap[i]
  BY DEF Handover, HandsOver
<1>4. \A i \in Addr : /\ heap'[i].type = heap[i].type /\ heap'[i].a = heap[i].a /\ heap'[i].b = heap[i].b
                      /\ heap'[i].colour = (IF i \in Range(registers) THEN grey ELSE heap[i].colour)
  BY <1>2, <1>3
<1>5. Ranges' /\ SameWords(K)
  BY <1>4 DEF Ranges, SameWords, Addr, Pointer, grey, Words
<1>6. Range(registers) \subseteq K
  BY DEF Roots0, Range
<1>7. \A i \in Addr : heap'[i].colour = grey => i \in K
  BY <1>4, <1>6 DEF InHand
<1>8. /\ UNCHANGED <<registers, loc, hook, node, todo, bindings>> /\ mpc = "await" /\ mpc' = "granted"
      /\ ~ InWork' /\ ~ Greys'
  BY DEF Handover, HandsOver, InWork, Greys
<1>9. Shape(K, o, c)'
  <2>1. Shape(K, o, c) => Shape(K, o, c)'
    BY <1>1, <1>5, <1>7, <1>8, CollectorFrame
  <2> QED
    BY <2>1
<1> QED
  BY <1>4, <1>5, <1>9

-----------------------------------------------------------------------------
(* Marking.  S is the set of chunks whose successors have been seen to:    *)
(* what is in S does not turn grey again unless somebody writes the colour *)
(* late.  The mutator and the collector both add to it, at the moment a    *)
(* chunk turns black, and the mutator when it links a new node.            *)

Marks == cpc \notin {"await", "build"}

Grey == {i \in Addr : heap[i].colour = grey}

Unsettled(S) == Grey \ S

Marked(S) == S \cup Grey \cup (IF Greys THEN {scan} ELSE {})

(* The roots that are still to be marked *)
Pending == IF cpc = "root" THEN {RootChunks[j] : j \in scan + 1 .. Len(RootChunks)} \ {NULL} ELSE {}

(* The first item of a list may change while the collector looks at the    *)
(* list: what counts is that every node along the list will be marked.     *)
NextClosed(h, n, C) == \A i \in C : h[i].type = "node" /\ i # n => h[i].b \in OrNull(C)

NextHull(A, h, n, M) == {x \in A : \A C \in SUBSET A : M \subseteq C /\ NextClosed(h, n, C) => x \in C}

Along(S) == NextHull(Addr, heap, node, Marked(S))

AllClosed(h, C) ==
  \A i \in C : h[i].type \in {"list", "node"} => h[i].a \in OrNull(C) /\ h[i].b \in OrNull(C)

AllHull(A, h, M) == {x \in A : \A C \in SUBSET A : M \subseteq C /\ AllClosed(h, C) => x \in C}

Coming(S) == AllHull(Addr, heap, Marked(S) \cup Pending)

(* The successor of x that collector_darken_successors takes first, and    *)
(* the other one                                                           *)
FirstDone(S, x) ==
  /\ heap[x].type = "list" => heap[x].a \in OrNull(Along(S))
  /\ heap[x].type = "node" => heap[x].b \in OrNull(Marked(S))

SecondDone(S, x) ==
  /\ heap[x].type = "list" => heap[x].b \in OrNull(Marked(S))
  /\ heap[x].type = "node" => heap[x].a \in Marked(S)

(* A new node that is in its list already: mutator_push_hook is to see to  *)
(* its successors.                                                         *)
Awaited == mpc \in {"link", "link_hook"} \/ (Hooking /\ hook.blacken = node)

Weak(S, x) == x = node /\ heap[x].b \in Along(S) /\ heap[x].colour = green /\ Awaited

Done(K, S) ==
  /\ S \subseteq K
  /\ \A i \in S : heap[i].colour # white
  /\ \A i \in Addr : heap[i].colour = black => i \in S
  /\ \A x \in S : (FirstDone(S, x) \/ Weak(S, x)) /\ SecondDone(S, x)

AtWork(S) ==
  /\ InWork => heap[chunk].colour \in {grey, black}
  /\ cpc \in {"grey_first", "second", "grey_second", "blacken"} => FirstDone(S, chunk)
  /\ cpc \in {"grey_second", "blacken"} => SecondDone(S, chunk)

Unseen(s) == cpc = "root" /\ scan < s + 3

RootsDone(S) ==
  /\ \A k \in 1 .. Len(registers) : registers[k] \in Marked(S)
  /\ \A s \in Symbol : bindings[s] \in OrNull(Marked(S)) \/ Unseen(s)
  /\ loc.ds \in Marked(S) \cup Pending /\ loc.cs \in Marked(S) \cup Pending

(* What has been taken off a list, or off a symbol, and not been kept yet  *)
Early == mpc = "op" \/ (Hooking /\ hook.then = "alloc")

LocalsDone(S, c) ==
  \A e \in c.loc : \/ loc[e[1]] \in Marked(S)
                   \/ Early /\ e[1] \in c.weak /\ loc[e[1]] \in Coming(S)

Looked(S) == Marked(S) \cup Range(hook.darken) \cup {hook.blacken}

HooksDone(S) ==
  Hooking =>
    /\ Range(hook.darken) \subseteq Coming(S) /\ hook.blacken \in OrNull(Coming(S))
    /\ hook.then = "alloc" => P \in Looked(S) /\ X \in Looked(S)
    /\ hook.then = "unlink" /\ heap[P].a # NULL => heap[heap[P].a].a \in Looked(S)
    /\ hook.then = "last" => node \in Looked(S)
    /\ hook.blacken # NULL /\ heap[hook.blacken].type \in {"list", "node"} =>
         /\ heap[hook.blacken].a \in OrNull(Marked(S) \cup Range(hook.darken))
         /\ heap[hook.blacken].b \in OrNull(Marked(S) \cup Range(hook.darken))

PushDone(S) ==
  /\ mpc \in {"alloc", "await", "granted", "link"} /\ now.op \in Pushes => P \in Marked(S) /\ X \in Marked(S)
  /\ mpc = "link" /\ (now.op = "push_back" \/ P \in S) => node \in S
  /\ mpc = "link_hook" => node \in Coming(S)
  /\ Linking => P \in Marked(S)
  /\ mpc = "last" => node \in Marked(S)

PopDone(S) ==
  /\ mpc = "unlink" /\ heap[P].a # NULL => heap[heap[P].a].a \in Marked(S)
  /\ mpc = "unlink_last" => P \in Marked(S) \cup Pending

(* What the collector has not passed yet on its way round the heap         *)
Between(from, to) ==
  IF from >= to THEN (from + 1 .. N - 1) \cup (0 .. to - 1) ELSE from + 1 .. to - 1

Ahead == Between(scan, chunk)

(* Why one way round is not enough: a chunk that the mutator has made grey *)
(* behind the collector's back it may blacken again, late, and then there  *)
(* is nothing left to find; but that is one chunk, and only once.          *)
Passes(S) ==
  /\ cpc \in {"find", "scan"} => chunk \in Marked(S) /\ (chunk = node => heap[chunk].colour # green)
  /\ cpc = "scan" => chunk \in S /\ pass # 0
  /\ cpc = "scan" /\ pass = 1 /\ hook.blacken \in Unsettled(S) =>
       hook.blacken \in Ahead \/ \E g \in Unsettled(S) : g # hook.blacken
  /\ cpc = "scan" /\ pass > 1 /\ Unsettled(S) # {} => \E g \in Unsettled(S) \cap Ahead : g # hook.blacken

Tri(K, S, c) ==
  /\ Done(K, S) /\ AtWork(S) /\ RootsDone(S) /\ LocalsDone(S, c)
  /\ HooksDone(S) /\ PushDone(S) /\ PopDone(S) /\ Passes(S)

-----------------------------------------------------------------------------
(* What the two hulls are *)

LEMMA NextHullFacts ==
  ASSUME NEW A, NEW h, NEW n, NEW M \in SUBSET A, NextClosed(h, n, A), NULL \notin A
  PROVE  /\ M \subseteq NextHull(A, h, n, M) /\ NextHull(A, h, n, M) \subseteq A
         /\ NextClosed(h, n, NextHull(A, h, n, M))
         /\ \A C \in SUBSET A : M \subseteq C /\ NextClosed(h, n, C) => NextHull(A, h, n, M) \subseteq C
<1> DEFINE H == NextHull(A, h, n, M)
<1>1. \A C \in SUBSET A : M \subseteq C /\ NextClosed(h, n, C) => H \subseteq C
  BY DEF NextHull
<1>2. M \subseteq H /\ H \subseteq A
  BY DEF NextHull
<1>3. ASSUME NEW i \in H, h[i].type = "node", i # n, h[i].b # NULL PROVE h[i].b \in H
  <2>1. h[i].b \in A
    BY <1>2, <1>3 DEF NextClosed, OrNull
  <2>2. ASSUME NEW C \in SUBSET A, M \subseteq C, NextClosed(h, n, C) PROVE h[i].b \in C
    <3>1. i \in C
      BY <1>1, <2>2
    <3> QED
      BY <3>1, <2>2, <1>3 DEF NextClosed, OrNull
  <2> QED
    BY <2>1, <2>2 DEF NextHull
<1> HIDE DEF H
<1>4. NextClosed(h, n, H)
  BY <1>3 DEF NextClosed, OrNull
<1> QED
  BY <1>1, <1>2, <1>4 DEF H

LEMMA AllHullFacts ==
  ASSUME NEW A, NEW h, NEW M \in SUBSET A, AllClosed(h, A), NULL \notin A
  PROVE  /\ M \subseteq AllHull(A, h, M) /\ AllHull(A, h, M) \subseteq A
         /\ AllClosed(h, AllHull(A, h, M))
         /\ \A C \in SUBSET A : M \subseteq C /\ AllClosed(h, C) => AllHull(A, h, M) \subseteq C
<1> DEFINE H == AllHull(A, h, M)
<1>1. \A C \in SUBSET A : M \subseteq C /\ AllClosed(h, C) => H \subseteq C
  BY DEF AllHull
<1>2. M \subseteq H /\ H \subseteq A
  BY DEF AllHull
<1>3. ASSUME NEW i \in H, h[i].type \in {"list", "node"}, NEW j, j = h[i].a \/ j = h[i].b, j # NULL
      PROVE  j \in H
  <2>1. j \in A
    BY <1>2, <1>3 DEF AllClosed, OrNull
  <2>2. ASSUME NEW C \in SUBSET A, M \subseteq C, AllClosed(h, C) PROVE j \in C
    <3>1. i \in C
      BY <1>1, <2>2
    <3> QED
      BY <3>1, <2>2, <1>3 DEF AllClosed, OrNull
  <2> QED
    BY <2>1, <2>2 DEF AllHull
<1> HIDE DEF H
<1>4. AllClosed(h, H)
  BY <1>3 DEF AllClosed, OrNull
<1> QED
  BY <1>1, <1>2, <1>4 DEF H

LEMMA HeapClosed ==
  ASSUME Ranges
  PROVE  AllClosed(heap, Addr) /\ NextClosed(heap, node, Addr) /\ NULL \notin Addr
BY DEF AllClosed, NextClosed, Ranges, Pointer, OrNull, Addr, NULL

(* Everything marked, or to be marked, is known. *)
LEMMA Known ==
  ASSUME NEW K, NEW o, NEW c, Shape(K, o, c), CollectorInRange, NEW S \in SUBSET K
  PROVE  /\ K \subseteq Addr /\ NULL \notin Addr /\ Marked(S) \subseteq K /\ Pending \subseteq K
         /\ AllClosed(heap, K) /\ NextClosed(heap, node, K) /\ Grey \subseteq K
         /\ \A i \in K : heap[i].type \in {"integer", "symbol", "escaped", "list", "node"}
<1> USE DEF Shape
<1>1. K \subseteq Addr /\ NULL \notin Addr
  BY DEF Words, Addr, NULL
<1>2. Marked(S) \subseteq K /\ Grey \subseteq K
  BY DEF Marked, Grey, InHand
<1>3. Pending \subseteq K
  <2>1. ASSUME cpc = "root", NEW j \in scan + 1 .. Len(RootChunks) PROVE RootChunks[j] \in OrNull(K)
    <3>1. /\ Len(RootChunks) \in Nat
          /\ \A k \in 1 .. Len(RootChunks) : RootChunks[k] \in OrNull(Values(K) \cup Lists(K))
      BY RootList
    <3>2. j \in 1 .. Len(RootChunks)
      BY <3>1, <2>1 DEF CollectorInRange
    <3> QED
      BY <3>1, <3>2 DEF Values, Lists, OrNull
  <2> QED
    BY <2>1 DEF Pending, OrNull
<1>4. AllClosed(heap, K) /\ NextClosed(heap, node, K)
  BY DEF AllClosed, NextClosed, Words, Nodes, Lists, Values, OrNull
<1>5. \A i \in K : heap[i].type \in {"integer", "symbol", "escaped", "list", "node"}
  BY <1>1 DEF Words, Ranges, Types
<1> QED
  BY <1>1, <1>2, <1>3, <1>4, <1>5

LEMMA Hulls ==
  ASSUME NEW K, NEW o, NEW c, Shape(K, o, c), CollectorInRange, NEW S \in SUBSET K
  PROVE  /\ Marked(S) \subseteq Along(S) /\ Along(S) \subseteq Coming(S) /\ Pending \subseteq Coming(S)
         /\ Coming(S) \subseteq K
         /\ NextClosed(heap, node, Along(S)) /\ AllClosed(heap, Coming(S))
         /\ \A C \in SUBSET Addr : Marked(S) \subseteq C /\ NextClosed(heap, node, C) => Along(S) \subseteq C
         /\ \A C \in SUBSET Addr : Marked(S) \cup Pending \subseteq C /\ AllClosed(heap, C) => Coming(S) \subseteq C
<1>1. /\ K \subseteq Addr /\ NULL \notin Addr /\ Marked(S) \subseteq K /\ Pending \subseteq K
      /\ AllClosed(heap, K) /\ NextClosed(heap, node, K)
  BY Known
<1>2. AllClosed(heap, Addr) /\ NextClosed(heap, node, Addr)
  BY HeapClosed DEF Shape
<1>3. /\ Marked(S) \subseteq Along(S) /\ Along(S) \subseteq Addr /\ NextClosed(heap, node, Along(S))
      /\ \A C \in SUBSET Addr : Marked(S) \subseteq C /\ NextClosed(heap, node, C) => Along(S) \subseteq C
  <2>1. Marked(S) \in SUBSET Addr
    BY <1>1
  <2> QED
    BY <1>1, <1>2, <2>1, NextHullFacts DEF Along
<1>4. /\ Marked(S) \cup Pending \subseteq Coming(S) /\ Coming(S) \subseteq Addr /\ AllClosed(heap, Coming(S))
      /\ \A C \in SUBSET Addr : Marked(S) \cup Pending \subseteq C /\ AllClosed(heap, C) => Coming(S) \subseteq C
  <2>1. Marked(S) \cup Pending \in SUBSET Addr
    BY <1>1
  <2> QED
    BY <1>1, <1>2, <2>1, AllHullFacts DEF Coming
<1>5. NextClosed(heap, node, Coming(S))
  BY <1>4 DEF AllClosed, NextClosed
<1> QED
  BY <1>1, <1>3, <1>4, <1>5

(* What is marked grows, and so does what hangs on it, as long as nobody   *)
(* cuts a list.                                                            *)
LEMMA AlongGrows ==
  ASSUME NEW K, NEW o, NEW c, Shape(K, o, c), CollectorInRange, NEW S \in SUBSET K,
         NEW T, Ranges', Marked(T)' \subseteq Addr, Marked(S) \subseteq Marked(T)',
         \A i \in K : heap[i].type = "node" /\ i # node =>
            /\ heap'[i].type = "node" /\ i # node'
            /\ heap'[i].b = heap[i].b \/ heap[i].b = NULL
  PROVE  Along(S) \subseteq Along(T)'
<1> DEFINE D == Along(T)' \cap K
<1>0. Addr' = Addr
  BY DEF Addr
<1>1. Marked(T)' \subseteq Along(T)' /\ NextClosed(heap', node', Along(T)') /\ Along(T)' \subseteq Addr
  <2>1. NextClosed(heap', node', Addr) /\ NULL \notin Addr
    BY <1>0 DEF NextClosed, Ranges, Pointer, OrNull, Addr, NULL
  <2> QED
    BY <1>0, <2>1, NextHullFacts DEF Along
<1>2. K \subseteq Addr /\ Marked(S) \subseteq K /\ NextClosed(heap, node, K)
  BY Known
<1>3. Marked(S) \subseteq D /\ D \in SUBSET Addr
  BY <1>1, <1>2
<1>4. ASSUME NEW i \in D, heap[i].type = "node", i # node PROVE heap[i].b \in OrNull(D)
  <2>1. heap[i].b \in OrNull(K)
    BY <1>2, <1>4 DEF NextClosed
  <2>2. heap[i].b # NULL => heap[i].b \in OrNull(Along(T)')
    BY <1>1, <1>4 DEF NextClosed, OrNull
  <2> QED
    BY <2>1, <2>2 DEF OrNull
<1>5. NextClosed(heap, node, D)
  BY <1>4 DEF NextClosed
<1> HIDE DEF D
<1>6. Along(S) \subseteq D
  BY <1>3, <1>5, Hulls
<1> QED
  BY <1>6 DEF D

LEMMA ComingGrows ==
  ASSUME NEW K, NEW o, NEW c, Shape(K, o, c), CollectorInRange, NEW S \in SUBSET K,
         NEW T, Ranges', Marked(T)' \cup Pending' \subseteq Addr,
         Marked(S) \cup Pending \subseteq Marked(T)' \cup Pending', SameWords(K)
  PROVE  Coming(S) \subseteq Coming(T)'
<1> DEFINE D == Coming(T)' \cap K
<1>0. Addr' = Addr
  BY DEF Addr
<1>1. Marked(T)' \cup Pending' \subseteq Coming(T)' /\ AllClosed(heap', Coming(T)') /\ Coming(T)' \subseteq Addr
  <2>1. AllClosed(heap', Addr) /\ NULL \notin Addr
    BY <1>0 DEF AllClosed, Ranges, Pointer, OrNull, Addr, NULL
  <2>2. (Marked(T)' \cup Pending') \in SUBSET Addr
    OBVIOUS
  <2> QED
    BY <1>0, <2>1, <2>2, AllHullFacts DEF Coming
<1>2. K \subseteq Addr /\ Marked(S) \subseteq K /\ Pending \subseteq K /\ AllClosed(heap, K)
  BY Known
<1>3. Marked(S) \cup Pending \subseteq D /\ D \in SUBSET Addr
  BY <1>1, <1>2
<1>4. ASSUME NEW i \in D, heap[i].type \in {"list", "node"}, NEW j, j = heap[i].a \/ j = heap[i].b
      PROVE  j \in OrNull(D)
  <2>1. j \in OrNull(K)
    BY <1>2, <1>4 DEF AllClosed
  <2>2. j \in OrNull(Coming(T)')
    BY <1>1, <1>4 DEF AllClosed, SameWords
  <2> QED
    BY <2>1, <2>2 DEF OrNull
<1>5. AllClosed(heap, D)
  BY <1>4 DEF AllClosed
<1> HIDE DEF D
<1>6. Coming(S) \subseteq D
  BY <1>3, <1>5, Hulls
<1> QED
  BY <1>6 DEF D

(* When nothing grey is left to settle, S is closed. *)
LEMMA Settled ==
  ASSUME NEW K, NEW o, NEW c, Shape(K, o, c), CollectorInRange, NEW S \in SUBSET K,
         Done(K, S), Unsettled(S) = {}, ~ Greys, Pending = {}
  PROVE  /\ Marked(S) = S /\ Along(S) = S /\ Coming(S) = S /\ AllClosed(heap, S)
<1>1. Marked(S) = S /\ S \subseteq Addr
  BY Known DEF Marked, Unsettled
<1>2. \A x \in S : x # node => FirstDone(S, x)
  BY DEF Done, Weak
<1>3. NextClosed(heap, node, S)
  BY <1>1, <1>2 DEF NextClosed, FirstDone
<1>4. Along(S) = S
  BY <1>1, <1>3, Hulls
<1>5. ASSUME NEW x \in S, heap[x].type \in {"list", "node"}
      PROVE  heap[x].a \in OrNull(S) /\ heap[x].b \in OrNull(S)
  <2>1. SecondDone(S, x) /\ (FirstDone(S, x) \/ heap[x].b \in S)
    BY <1>4 DEF Done, Weak
  <2>2. CASE heap[x].type = "list"
    <3>1. x # node
      BY <2>2 DEF Shape, InHand, Nodes, Words, Addr, NULL
    <3> QED
      BY <1>1, <1>2, <1>4, <2>1, <2>2, <3>1 DEF FirstDone, SecondDone
  <2>3. CASE heap[x].type = "node"
    BY <1>1, <2>1, <2>3 DEF FirstDone, SecondDone, OrNull
  <2> QED
    BY <1>5, <2>2, <2>3
<1>6. AllClosed(heap, S)
  BY <1>5 DEF AllClosed
<1>7. Coming(S) = S
  <2>1. Coming(S) \subseteq S
    BY <1>1, <1>6, Hulls
  <2> QED
    BY <1>1, <2>1, Hulls
<1> QED
  BY <1>1, <1>4, <1>6, <1>7

-----------------------------------------------------------------------------
(* While it marks, the collector writes colours only. *)

LEMMA MarkingKeeps ==
  ASSUME NEW K, NEW o, NEW c, Shape(K, o, c), CollectorInRange, Marking, CollectorStep,
         NEW x, NEW colour \in 0 .. 3,
         UNCHANGED heap \/ (x \in K /\ heap' = Coloured(x, colour)),
         mpc = "link" => heap'[node].colour = green,
         InWork' => chunk' \in K /\ (mpc = "link" => chunk' # node),
         Greys' => scan' \in K /\ (mpc = "link" => scan' # node)
  PROVE  /\ Shape(K, o, c)' /\ SameWords(K)
         /\ \A i \in Addr : heap'[i].colour = heap[i].colour \/ (i = x /\ heap'[i].colour = colour)
<1>1. UNCHANGED <<registers, loc, hook, node, todo, bindings, mpc>>
  BY DEF Marking, MutatorIdle, opVars
<1>2. SwapInv'
  BY CollectorKeepsSwapInv DEF Shape
<1>3. Ranges' /\ SameWords(K)
  <2>1. CASE UNCHANGED heap
    BY <2>1 DEF Shape, Ranges, SameWords, Addr, Pointer
  <2>2. CASE x \in K /\ heap' = Coloured(x, colour)
    BY <2>2, ColourKeeps DEF Shape
  <2> QED
    BY <2>1, <2>2
<1>4. \A i \in Addr : heap'[i].colour = heap[i].colour \/ (i = x /\ x \in K /\ heap'[i].colour = colour)
  <2>1. CASE UNCHANGED heap
    BY <2>1
  <2>2. CASE x \in K /\ heap' = Coloured(x, colour)
    <3>1. \A i \in Addr : heap'[i].colour = IF i = x THEN colour ELSE heap[i].colour
      BY <2>2, ColourKeeps DEF Shape
    <3> QED
      BY <2>2, <3>1
  <2> QED
    BY <2>1, <2>2
<1>5. \A i \in Addr : heap'[i].colour = grey => i \in K
  BY <1>4 DEF Shape, InHand
<1>6. Shape(K, o, c)'
  <2>1. Shape(K, o, c) => Shape(K, o, c)'
    BY <1>1, <1>2, <1>3, <1>5, CollectorFrame
  <2> QED
    BY <2>1
<1> QED
  BY <1>3, <1>4, <1>6

-----------------------------------------------------------------------------
(* What marking has achieved stays, while no word changes. *)

Grows(S, T) ==
  /\ Marked(S) \subseteq Marked(T)' /\ Along(S) \subseteq Along(T)'
  /\ Marked(S) \cup Pending \subseteq Marked(T)' \cup Pending'
  /\ Coming(S) \subseteq Coming(T)'
  /\ \A s \in Symbol : Unseen(s) => Unseen(s)' \/ bindings[s] \in OrNull(Marked(T)')

LEMMA ColoursGrow ==
  ASSUME NEW K, NEW o, NEW c, Shape(K, o, c), CollectorInRange, NEW S \in SUBSET K, NEW T,
         SameWords(K), node' = node, Ranges', Marked(T)' \cup Pending' \subseteq Addr,
         Marked(S) \subseteq Marked(T)', Pending \subseteq Marked(T)' \cup Pending',
         cpc # "root" \/ \A s \in Symbol : Unseen(s) => Unseen(s)' \/ bindings[s] \in OrNull(Marked(T)')
  PROVE  Grows(S, T)
<1>1. Along(S) \subseteq Along(T)'
  <2>1. \A i \in K : heap[i].type = "node" /\ i # node =>
            /\ heap'[i].type = "node" /\ i # node'
            /\ heap'[i].b = heap[i].b \/ heap[i].b = NULL
    BY DEF SameWords
  <2> QED
    BY <2>1, AlongGrows
<1>2. Coming(S) \subseteq Coming(T)'
  BY ComingGrows
<1>3. \A s \in Symbol : Unseen(s) => Unseen(s)' \/ bindings[s] \in OrNull(Marked(T)')
  BY DEF Unseen
<1> QED
  BY <1>1, <1>2, <1>3 DEF Grows

LEMMA DoneStays ==
  ASSUME NEW K, SameWords(K), NEW S, NEW T, Grows(S, T), NEW x \in K
  PROVE  /\ FirstDone(S, x) => FirstDone(T, x)'
         /\ SecondDone(S, x) => SecondDone(T, x)'
BY DEF FirstDone, SecondDone, SameWords, Grows, OrNull

(* Nothing of what a thread holds is lost. *)
LEMMA HoldingStays ==
  ASSUME NEW K, NEW o, NEW c, Shape(K, o, c), SameWords(K), NEW S \in SUBSET K, NEW T, Grows(S, T),
         RootsDone(S), LocalsDone(S, c), HooksDone(S), PopDone(S), PushDone(S),
         UNCHANGED <<registers, loc, hook, node, todo, bindings, mpc>>,
         mpc = "link" /\ (now.op = "push_back" \/ P \in T) => node \in T
  PROVE  RootsDone(T)' /\ LocalsDone(T, c)' /\ HooksDone(T)' /\ PopDone(T)' /\ PushDone(T)'
<1>1. /\ now' = now /\ P' = P /\ X' = X /\ Linking' = Linking /\ Hooking' = Hooking /\ Early' = Early
  BY DEF now, P, X, Linking, Hooking, Early
<1>2. RootsDone(T)'
  BY DEF RootsDone, Grows, OrNull
<1>3. LocalsDone(T, c)'
  BY <1>1 DEF LocalsDone, Grows
<1>4. mpc = "unlink" \/ (Hooking /\ hook.then = "unlink") => P \in K /\ (heap[P].a # NULL => heap[P].a \in K)
  <2>1. ASSUME mpc = "unlink" \/ (Hooking /\ hook.then = "unlink") PROVE P \in Lists(K)
    <3>1. todo # <<>> /\ now.op = "pop_to_register" /\ mpc # "unlink_last"
      BY <2>1 DEF Shape, Control, Hooking
    <3> QED
      BY <3>1, PopKnown DEF Shape
  <2> QED
    BY <2>1 DEF Shape, Words, Lists, Nodes, OrNull
<1>5. HooksDone(T)'
  <2> SUFFICES ASSUME Hooking PROVE HooksDone(T)'
    BY <1>1 DEF HooksDone
  <2>1. hook.blacken \in OrNull(K)
    BY HookInHooks DEF Shape, Hooks
  <2>2. Looked(S) \subseteq Looked(T)'
    BY DEF Looked, Grows
  <2>3. /\ Range(hook.darken) \subseteq Coming(T)' /\ hook.blacken \in OrNull(Coming(T)')
    BY DEF HooksDone, Grows, OrNull
  <2>4. /\ hook.then = "alloc" => P \in Looked(T)' /\ X \in Looked(T)'
        /\ hook.then = "last" => node \in Looked(T)'
    BY <2>2 DEF HooksDone
  <2>5. hook.then = "unlink" /\ heap'[P].a # NULL => heap'[heap'[P].a].a \in Looked(T)'
    BY <1>4, <2>2 DEF HooksDone, SameWords
  <2>6. hook.blacken # NULL /\ heap'[hook.blacken].type \in {"list", "node"} =>
         /\ heap'[hook.blacken].a \in OrNull(Marked(T)' \cup Range(hook.darken))
         /\ heap'[hook.blacken].b \in OrNull(Marked(T)' \cup Range(hook.darken))
    BY <2>1 DEF HooksDone, SameWords, OrNull, Grows
  <2> QED
    BY <1>1, <2>3, <2>4, <2>5, <2>6 DEF HooksDone
<1>6. PopDone(T)'
  BY <1>1, <1>4 DEF PopDone, Grows, SameWords
<1>7. PushDone(T)'
  BY <1>1 DEF PushDone, Grows
<1> QED
  BY <1>2, <1>3, <1>5, <1>6, <1>7

LEMMA SettledOn ==
  ASSUME NEW K, NEW o, NEW c, Shape(K, o, c), SameWords(K), NEW S \in SUBSET K, NEW T \in SUBSET K, Grows(S, T),
         Done(K, S), node' = node,
         \A i \in T : heap'[i].colour # white',
         \A i \in Addr : heap'[i].colour = black' => i \in T,
         \A x \in T \ S : (FirstDone(T, x)' \/ Weak(T, x)') /\ SecondDone(T, x)',
         \A x \in T \cap S : Weak(S, x) => (heap'[x].colour = green /\ Awaited') \/ FirstDone(S, x)
  PROVE  Done(K, T)'
<1>1. ASSUME NEW x \in T, x \in S PROVE (FirstDone(T, x)' \/ Weak(T, x)') /\ SecondDone(T, x)'
  <2>1. (FirstDone(S, x) \/ Weak(S, x)) /\ SecondDone(S, x)
    BY <1>1 DEF Done
  <2>2. Weak(S, x) => FirstDone(T, x)' \/ Weak(T, x)'
    BY <1>1, DoneStays DEF Weak, SameWords, Grows
  <2> QED
    BY <2>1, <2>2, DoneStays
<1>2. Addr' = Addr
  BY DEF Addr
<1> QED
  BY <1>1, <1>2 DEF Done

LEMMA SettledStays ==
  ASSUME NEW K, NEW o, NEW c, Shape(K, o, c), SameWords(K), NEW S \in SUBSET K, NEW T \in SUBSET K, Grows(S, T),
         Done(K, S), UNCHANGED <<node, mpc, hook>>,
         \A i \in T : heap'[i].colour # white',
         \A i \in Addr : heap'[i].colour = black' => i \in T,
         \A x \in T \ S : (FirstDone(T, x)' \/ Weak(T, x)') /\ SecondDone(T, x)',
         \A x \in T \cap S : Weak(S, x) => heap'[x].colour = green \/ FirstDone(S, x)
  PROVE  Done(K, T)'
<1>1. \A x \in T \cap S : Weak(S, x) => (heap'[x].colour = green /\ Awaited') \/ FirstDone(S, x)
  BY DEF Weak, Awaited, Hooking
<1> QED
  BY <1>1, SettledOn

(* Whoever makes a chunk grey takes it out of S if it was there without    *)
(* its successors having been seen to: a new node, before its hook.        *)
Greyed(S, x) == IF x = node /\ ~ FirstDone(S, x) THEN S \ {x} ELSE S

LEMMA GreyedStays ==
  ASSUME NEW K, NEW o, NEW c, Shape(K, o, c), SameWords(K), NEW S \in SUBSET K, NEW x \in K, NEW T, T = Greyed(S, x),
         Grows(S, T), Done(K, S), node' = node, node \in Addr => (Awaited => Awaited'), black' = black, white' = white,
         \A i \in Addr : heap'[i].colour = IF i = x THEN grey ELSE heap[i].colour
  PROVE  Done(K, T)'
<1>1. T \subseteq S /\ S \subseteq T \cup {x} /\ T \in SUBSET K /\ K \subseteq Addr
  BY DEF Greyed, Shape, Words
<1>2. white # grey /\ black # grey
  BY DEF Shape, SwapInv, Colours, grey
<1>3. \A i \in T : heap'[i].colour # white'
  BY <1>1, <1>2 DEF Done
<1>4. \A i \in Addr : heap'[i].colour = black' => i \in T
  BY <1>1, <1>2 DEF Done
<1>5. \A y \in T \cap S : Weak(S, y) => (heap'[y].colour = green /\ Awaited') \/ FirstDone(S, y)
  BY <1>1 DEF Greyed, Weak
<1> QED
  BY <1>1, <1>3, <1>4, <1>5, SettledOn

-----------------------------------------------------------------------------
(* The collector's steps, one by one *)

LEMMA NodeIsNoRoot ==
  ASSUME NEW K, NEW o, NEW c, Shape(K, o, c), NEW i \in Values(K) \cup Lists(K)
  PROVE  i # node /\ i \in K /\ i \in Addr
BY DEF Shape, InHand, Nodes, Values, Lists, Words, Addr, NULL

LEMMA MarkRootKeeps ==
  ASSUME NEW K, NEW o, NEW c, Shape(K, o, c), CollectorInRange, NEW S \in SUBSET K, Tri(K, S, c), MarkRoot
  PROVE  Shape(K, o, c)' /\ CollectorInRange' /\ Tri(K, S, c)'
<1> DEFINE root == RootChunks[scan + 1]
           x == IF root = NULL THEN 0 ELSE root
<1>1. /\ cpc = "root" /\ Marking /\ chunk' = 0 /\ pass' = pass
      /\ IF scan + 1 < Len(RootChunks) THEN scan' = scan + 1 /\ cpc' = "root" ELSE scan' = 0 /\ cpc' = "find"
      /\ heap' = IF root = NULL THEN heap ELSE Coloured(root, grey)
  BY DEF MarkRoot
<1>2. /\ UNCHANGED <<registers, loc, hook, node, todo, bindings, mpc, black, white>> /\ RootChunks' = RootChunks
      /\ Addr' = Addr
  BY <1>1 DEF Marking, MutatorIdle, opVars, RootChunks, Addr
<1>3. scan \in Nat /\ Len(RootChunks) \in Nat /\ scan < Len(RootChunks) /\ 0 \in Addr
      /\ root \in OrNull(Values(K) \cup Lists(K))
  <2>1. /\ Len(RootChunks) \in Nat
        /\ \A j \in 1 .. Len(RootChunks) : RootChunks[j] \in OrNull(Values(K) \cup Lists(K))
    BY RootList DEF Shape
  <2>2. scan \in Nat /\ scan < Len(RootChunks) /\ 0 \in Addr
    BY <1>1, HeapAssumption DEF CollectorInRange, Addr
  <2>3. scan + 1 \in 1 .. Len(RootChunks)
    BY <2>1, <2>2
  <2> QED
    BY <2>1, <2>2, <2>3
<1>4. loc.cs = 0 /\ 0 \in Lists(K)
  BY DEF Shape, Roots0
<1>5. x \in Values(K) \cup Lists(K) /\ (UNCHANGED heap \/ heap' = Coloured(x, grey))
  BY <1>1, <1>3, <1>4 DEF OrNull
<1>6. x # node /\ x \in K /\ x \in Addr
  BY <1>5, NodeIsNoRoot
<1>7. ~ InWork' /\ ~ Greys' /\ ~ Greys
  BY <1>1 DEF InWork, Greys
<1> HIDE DEF x
<1>8. \A i \in Addr : heap'[i].colour = IF i = x /\ heap' # heap THEN grey ELSE heap[i].colour
  BY <1>5, ColourKeeps DEF Shape, grey
<1>9. mpc = "link" => heap'[node].colour = green
  <2>1. mpc = "link" => node \in Addr /\ heap[node].colour = green
    BY Known DEF Shape, InHand, HasNode, Nodes, Fresh, Words
  <2> QED
    BY <1>6, <1>8, <2>1
<1>10. Shape(K, o, c)' /\ SameWords(K)
  BY <1>1, <1>5, <1>6, <1>7, <1>9, MarkingKeeps DEF grey, CollectorStep
<1>11. CollectorInRange'
  BY <1>1, <1>2, <1>3 DEF CollectorInRange
<1>12. Marked(S) \subseteq Marked(S)' /\ (root # NULL => root \in Marked(S)')
  <2>1. root # NULL => heap'[root].colour = grey /\ root \in Addr
    BY <1>1, <1>3, NodeIsNoRoot, ColourKeeps DEF Shape, grey, OrNull
  <2> QED
    BY <1>2, <1>7, <1>8, <2>1 DEF Marked, Grey
<1>13. Pending \subseteq Marked(S)' \cup Pending' /\ Pending' \subseteq Pending /\ (cpc' = "find" => Pending' = {})
  <2>1. ASSUME NEW j \in scan + 1 .. Len(RootChunks), j # scan + 1
        PROVE  cpc' = "root" /\ j \in scan' + 1 .. Len(RootChunks)
    BY <1>1, <1>3, <2>1
  <2>2. Pending \subseteq Marked(S)' \cup Pending'
    BY <1>1, <1>2, <1>12, <2>1 DEF Pending
  <2>3. cpc' = "root" => \A j \in scan' + 1 .. Len(RootChunks) : j \in scan + 1 .. Len(RootChunks)
    BY <1>1, <1>3
  <2> QED
    BY <1>1, <1>2, <2>2, <2>3 DEF Pending
<1>20. \A s \in Symbol : Unseen(s) => Unseen(s)' \/ bindings[s] \in OrNull(Marked(S)')
  <2> SUFFICES ASSUME NEW s \in Symbol, scan < s + 3 PROVE Unseen(s)' \/ bindings[s] \in OrNull(Marked(S)')
    BY DEF Unseen
  <2>1. s + 3 \in 3 .. Len(RootChunks) /\ RootChunks[s + 3] = bindings[s]
    BY RootList DEF Shape
  <2>2. s \in Nat
    BY SymbolAssumption, FS_CardinalityType
  <2>3. CASE s + 3 = scan + 1
    BY <1>12, <2>1, <2>3 DEF OrNull
  <2>4. CASE s + 3 > scan + 1
    <3>1. scan + 1 < Len(RootChunks)
      BY <1>3, <2>1, <2>2, <2>4
    <3> QED
      BY <1>1, <2>4, <3>1 DEF Unseen
  <2> QED
    BY <1>3, <2>2, <2>3, <2>4
<1>14. Ranges' /\ Marked(S)' \cup Pending' \subseteq Addr
  <2>1. Ranges'
    BY <1>10 DEF Shape
  <2>2. Marked(S)' \subseteq Addr
    BY <1>2, <1>7, Known DEF Marked, Grey
  <2>3. Pending \subseteq Addr
    BY Known
  <2> QED
    BY <1>13, <2>1, <2>2, <2>3
<1>15. Grows(S, S)
  BY <1>20, <1>1, <1>2, <1>10, <1>12, <1>13, <1>14, ColoursGrow
<1>16. Done(K, S)'
  <2>0. S \subseteq Addr /\ white # grey /\ black # grey
    BY Known DEF Shape, SwapInv, Colours, grey
  <2>1. \A i \in S : heap'[i].colour # white'
    BY <1>2, <1>8, <2>0 DEF Tri, Done
  <2>2. \A i \in Addr : heap'[i].colour = black' => i \in S
    BY <1>2, <1>8, <2>0 DEF Tri, Done
  <2>3. \A y \in S : Weak(S, y) => heap'[y].colour = green
    BY <1>6, <1>8, Known DEF Weak
  <2> QED
    BY <1>2, <1>10, <1>15, <2>1, <2>2, <2>3, SettledStays DEF Tri
<1>17. RootsDone(S)' /\ LocalsDone(S, c)' /\ HooksDone(S)' /\ PopDone(S)' /\ PushDone(S)'
  BY <1>2, <1>10, <1>15, HoldingStays DEF Tri, PushDone
<1>18. AtWork(S)'
  BY <1>1, <1>7 DEF AtWork
<1>19. Passes(S)'
  <2>1. cpc' = "find" => 0 \in Marked(S)' /\ 0 # node'
    BY <1>2, <1>4, <1>13, <1>17, NodeIsNoRoot DEF RootsDone
  <2> QED
    BY <1>1, <2>1 DEF Passes
<1> QED
  BY <1>10, <1>11, <1>16, <1>17, <1>18, <1>19 DEF Tri

(* Round the heap *)
LEMMA RoundTheHeap ==
  ASSUME NEW from \in Addr, NEW to \in Addr
  PROVE  /\ Between(to, to) = Addr \ {to} /\ Between(from, to) \subseteq Addr
         /\ from + 1 = to => Between(from, to) = {}
         /\ from + 1 # to => /\ (from + 1) % N \in Addr
                             /\ \A g \in Between(from, to) : g = (from + 1) % N \/ g \in Between((from + 1) % N, to)
<1> USE HeapAssumption DEF Addr, Between
<1>1. Between(to, to) = Addr \ {to} /\ Between(from, to) \subseteq Addr /\ (from + 1 = to => Between(from, to) = {})
  OBVIOUS
<1>2. (from + 1) % N = IF from + 1 = N THEN 0 ELSE from + 1
  OBVIOUS
<1>3. CASE from + 1 = N
  BY <1>1, <1>2, <1>3
<1>4. CASE from + 1 # N
  BY <1>1, <1>2, <1>4
<1> QED
  BY <1>3, <1>4

LEMMA FindKeeps ==
  ASSUME NEW K, NEW o, NEW c, Shape(K, o, c), CollectorInRange, NEW S \in SUBSET K, Tri(K, S, c),
         FindHere \/ FindNext \/ (FindPassOver /\ cpc' # "build")
  PROVE  Shape(K, o, c)' /\ CollectorInRange' /\ Tri(K, S, c)'
<1>1. /\ UNCHANGED heap /\ Marking /\ CollectorStep /\ cpc \in {"find", "scan"} /\ cpc' \in {"first", "scan"}
      /\ cpc' = "first" => heap[chunk'].colour = grey /\ chunk' \in Addr /\ scan' \in Nat /\ pass' \in {0, pass}
      /\ cpc' = "scan" => /\ chunk' = chunk /\ scan' \in Addr
                          /\ \/ cpc = "find" /\ heap[chunk].colour # grey /\ scan' = chunk /\ pass' = 1
                             \/ /\ cpc = "scan" /\ scan + 1 # chunk /\ heap[scan'].colour # grey
                                /\ scan' = (scan + 1) % N /\ pass' = pass
                             \/ cpc = "scan" /\ scan + 1 = chunk /\ scan' = chunk /\ pass' = pass + 1 /\ pass < ScanPasses
  <2>1. CASE FindHere
    BY <2>1, HeapAssumption DEF FindHere, CollectorInRange, CollectorStep, Addr
  <2>2. CASE FindNext
    <3>1. cpc = "scan" /\ scan \in Addr /\ chunk \in Addr /\ scan + 1 # chunk
      BY <2>2 DEF FindNext, CollectorInRange
    <3>2. (scan + 1) % N \in Addr
      BY <3>1, RoundTheHeap
    <3> QED
      BY <2>2, <3>1, <3>2 DEF FindNext, CollectorStep
  <2>3. CASE FindPassOver /\ cpc' # "build"
    BY <2>3, HeapAssumption DEF FindPassOver, CollectorInRange, CollectorStep, Addr
  <2> QED
    BY <2>1, <2>2, <2>3
<1>2. /\ UNCHANGED <<registers, loc, hook, node, todo, bindings, mpc, black, white>> /\ Addr' = Addr
  BY <1>1 DEF Marking, MutatorIdle, opVars, Addr
<1>3. ~ Greys' /\ ~ Greys /\ Pending = {} /\ Pending' = {} /\ Grey' = Grey /\ Marked(S)' = Marked(S)
  BY <1>1, <1>2 DEF Greys, Pending, Grey, Marked
<1>4. K \subseteq Addr /\ Grey \subseteq K /\ Marked(S) \subseteq K /\ (mpc = "link" => heap[node].colour = green)
  <2>1. mpc = "link" => heap[node].colour = green
    BY DEF Shape, Fresh
  <2> QED
    BY <2>1, Known
<1>5. Shape(K, o, c)' /\ SameWords(K)
  <2>1. InWork' => chunk' \in K /\ (mpc = "link" => chunk' # node)
    BY <1>1, <1>4 DEF InWork, Grey, grey, green
  <2> QED
    BY <1>1, <1>3, <1>4, <2>1, MarkingKeeps
<1>6. CollectorInRange'
  <2>1. chunk' \in Addr /\ scan' \in Nat /\ pass' \in 0 .. ScanPasses
    BY <1>1, HeapAssumption DEF CollectorInRange, Addr, ScanPasses
  <2> QED
    BY <1>1, <1>2, <2>1 DEF CollectorInRange
<1>7. Grows(S, S)
  <2>1. Ranges' /\ Marked(S)' \cup Pending' \subseteq Addr
    BY <1>3, <1>4, <1>5 DEF Shape
  <2> QED
    BY <1>1, <1>2, <1>3, <1>5, <2>1, ColoursGrow
<1>8. Done(K, S)'
  <2>1. \A y \in S : Weak(S, y) => heap'[y].colour = green
    BY <1>1 DEF Weak
  <2> QED
    BY <1>1, <1>2, <1>5, <1>7, <2>1, SettledStays DEF Tri, Done
<1>9. RootsDone(S)' /\ LocalsDone(S, c)' /\ HooksDone(S)' /\ PopDone(S)' /\ PushDone(S)'
  BY <1>2, <1>5, <1>7, HoldingStays DEF Tri, PushDone
<1>10. AtWork(S)'
  BY <1>1 DEF AtWork, InWork
<1>11. Passes(S)'
  <2> SUFFICES ASSUME cpc' = "scan" PROVE Passes(S)'
    BY <1>1 DEF Passes
  <2>1. chunk' = chunk /\ node' = node /\ chunk \in Addr /\ Unsettled(S)' = Unsettled(S)
    BY <1>1, <1>2, <1>3 DEF CollectorInRange, Unsettled
  <2>2. chunk \in S /\ chunk \in Marked(S) /\ (chunk = node => heap[chunk].colour # green)
    <3>1. cpc = "find" => heap[chunk].colour # grey
      BY <1>1
    <3> QED
      BY <1>1, <1>3, <2>1, <3>1 DEF Tri, Passes, Marked, Grey
  <2>3. CASE scan' = chunk /\ pass' = 1
    <3>1. Ahead' = Addr \ {chunk}
      BY <1>2, <2>1, <2>3, RoundTheHeap DEF Ahead, Between
    <3> QED
      BY <1>1, <1>2, <1>3, <2>1, <2>2, <2>3, <3>1 DEF Passes, Unsettled, Grey
  <2>4. CASE cpc = "scan" /\ scan + 1 # chunk /\ heap[scan'].colour # grey /\ scan' = (scan + 1) % N /\ pass' = pass
    <3>1. scan \in Addr
      BY <2>4 DEF CollectorInRange
    <3>2. \A g \in Ahead : g = scan' \/ g \in Ahead'
      BY <2>1, <2>4, <3>1, RoundTheHeap DEF Ahead, Between
    <3>3. scan' \notin Unsettled(S)
      BY <2>4 DEF Unsettled, Grey
    <3> QED
      BY <1>1, <1>2, <1>3, <2>1, <2>2, <2>4, <3>2, <3>3 DEF Tri, Passes
  <2>5. CASE cpc = "scan" /\ scan + 1 = chunk /\ scan' = chunk /\ pass' = pass + 1
    <3>1. Ahead' = Addr \ {chunk}
      BY <1>2, <2>1, <2>5, RoundTheHeap DEF Ahead, Between
    <3>2. Ahead = {} /\ pass \in Nat
      BY <2>1, <2>5, RoundTheHeap DEF Ahead, CollectorInRange
    <3>3. Unsettled(S) # {} => \E g \in Unsettled(S) : g # hook.blacken
      BY <2>5, <3>2 DEF Tri, Passes
    <3>4. Unsettled(S) \subseteq Ahead'
      BY <2>2, <3>1 DEF Unsettled, Grey
    <3> QED
      BY <1>1, <1>2, <1>3, <2>1, <2>2, <2>5, <3>2, <3>3, <3>4 DEF Passes
  <2> QED
    BY <1>1, <2>3, <2>4, <2>5
<1> QED
  BY <1>5, <1>6, <1>8, <1>9, <1>10, <1>11 DEF Tri

(* In the next state too *)
LEMMA MarkedAlong ==
  ASSUME NEW T, Ranges', Marked(T)' \subseteq Addr
  PROVE  /\ Marked(T)' \subseteq Along(T)' /\ NextClosed(heap', node', Along(T)') /\ Along(T)' \subseteq Addr
         /\ \A C \in SUBSET Addr : Marked(T)' \subseteq C /\ NextClosed(heap', node', C) => Along(T)' \subseteq C
<1>0. Addr' = Addr
  BY DEF Addr
<1>1. NextClosed(heap', node', Addr) /\ NULL \notin Addr
  BY <1>0 DEF NextClosed, Ranges, Pointer, OrNull, Addr, NULL
<1> QED
  BY <1>0, <1>1, NextHullFacts DEF Along

(* collector_darken_successors reads a word and the colour of the chunk it *)
(* refers to.                                                              *)
LEMMA DarkenReadKeeps ==
  ASSUME NEW K, NEW o, NEW c, Shape(K, o, c), CollectorInRange, NEW S \in SUBSET K, Tri(K, S, c),
         NEW k \in {1, 2}, (k = 1 /\ DarkenFirst) \/ (k = 2 /\ DarkenSecond)
  PROVE  Shape(K, o, c)' /\ CollectorInRange' /\ Tri(K, S, c)'
<1>1. /\ UNCHANGED heap /\ Marking /\ CollectorStep /\ chunk' = chunk /\ pass' = pass
      /\ IF k = 1 THEN cpc = "first" /\ cpc' \in {"grey_first", "second"}
                  ELSE cpc = "second" /\ cpc' \in {"grey_second", "blacken"}
      /\ IF Len(Successors(chunk)) = 2 /\ Darkens(Word(k))
         THEN cpc' \in {"grey_first", "grey_second"} /\ scan' = Word(k)
         ELSE cpc' \in {"second", "blacken"} /\ scan' = scan
  BY DEF DarkenFirst, DarkenSecond, Darken, CollectorStep
<1>2. /\ UNCHANGED <<registers, loc, hook, node, todo, bindings, mpc, black, white>> /\ Addr' = Addr
  BY <1>1 DEF Marking, MutatorIdle, opVars, Addr
<1>3. ~ Greys /\ Pending = {} /\ Pending' = {} /\ Grey' = Grey /\ InWork /\ InWork'
  BY <1>1, <1>2 DEF Greys, Pending, Grey, InWork
<1>4. /\ K \subseteq Addr /\ NULL \notin Addr /\ Marked(S) \subseteq K /\ AllClosed(heap, K) /\ chunk \in K
      /\ heap[chunk].type \in {"integer", "symbol", "escaped", "list", "node"}
      /\ white # grey /\ black # grey /\ heap[chunk].colour \in {grey, black}
  <2>1. /\ K \subseteq Addr /\ NULL \notin Addr /\ Marked(S) \subseteq K /\ AllClosed(heap, K)
        /\ \A i \in K : heap[i].type \in {"integer", "symbol", "escaped", "list", "node"}
    BY Known
  <2>2. chunk \in K /\ white # grey /\ black # grey /\ heap[chunk].colour \in {grey, black}
    BY <1>3 DEF Shape, InHand, SwapInv, Colours, grey, Tri, AtWork
  <2> QED
    BY <2>1, <2>2
<1>5. Len(Successors(chunk)) = 2 <=> heap[chunk].type \in {"list", "node"}
  BY <1>4 DEF Successors, SuccessorsIn
<1>6. heap[chunk].type \in {"list", "node"} => Word(k) \in OrNull(K) /\ (mpc = "link" => Word(k) # node)
  <2> SUFFICES ASSUME heap[chunk].type \in {"list", "node"}
               PROVE  Word(k) \in OrNull(K) /\ (mpc = "link" => Word(k) # node)
    OBVIOUS
  <2>1. Word(k) \in {heap[chunk].a, heap[chunk].b}
    <3>1. Words(K) /\ Len(Successors(chunk)) = 2 /\ chunk \in K
      BY <1>4, <1>5 DEF Shape
    <3> QED
      BY <3>1, WordKnown DEF Word
  <2>2. chunk \in Nodes(K) \cup Lists(K)
    BY <1>4 DEF Nodes, Lists
  <2> QED
    BY <1>4, <2>1, <2>2 DEF AllClosed, Shape, Fresh
<1>7. cpc' \in {"grey_first", "grey_second"} => scan' \in K /\ scan' \in Nat /\ (mpc = "link" => scan' # node)
  <2> SUFFICES ASSUME cpc' \in {"grey_first", "grey_second"}
               PROVE  scan' \in K /\ scan' \in Nat /\ (mpc = "link" => scan' # node)
    OBVIOUS
  <2>1. Len(Successors(chunk)) = 2 /\ Darkens(Word(k)) /\ scan' = Word(k)
    BY <1>1
  <2>2. scan' # NULL
    BY <2>1 DEF Darkens
  <2>3. scan' \in K /\ (mpc = "link" => scan' # node)
    BY <1>5, <1>6, <2>1, <2>2 DEF OrNull
  <2> QED
    BY <1>4, <2>3 DEF Addr
<1>8. Greys' <=> cpc' \in {"grey_first", "grey_second"}
  BY DEF Greys
<1>9. Shape(K, o, c)' /\ SameWords(K)
  <2>1. mpc = "link" => heap'[node].colour = green /\ chunk' # node
    BY <1>1, <1>3 DEF Shape, Fresh
  <2> QED
    BY <1>1, <1>3, <1>4, <1>7, <1>8, <2>1, MarkingKeeps
<1>10. CollectorInRange'
  <2>1. scan' \in Nat /\ cpc' \notin {"root", "scan", "build"}
    BY <1>1, <1>7 DEF CollectorInRange
  <2> QED
    BY <1>1, <1>2, <2>1 DEF CollectorInRange
<1>11. Marked(S)' = Marked(S) \cup (IF Greys' THEN {scan'} ELSE {})
  BY <1>3 DEF Marked
<1>12. Grows(S, S)
  <2>1. Ranges' /\ Marked(S)' \cup Pending' \subseteq Addr /\ Marked(S) \subseteq Marked(S)'
    BY <1>3, <1>4, <1>7, <1>8, <1>9, <1>11 DEF Shape
  <2> QED
    BY <1>1, <1>2, <1>3, <1>9, <2>1, ColoursGrow
<1>13. Done(K, S)'
  <2>1. \A y \in S : Weak(S, y) => heap'[y].colour = green
    BY <1>1 DEF Weak
  <2> QED
    BY <1>1, <1>2, <1>9, <1>12, <2>1, SettledStays DEF Tri, Done
<1>14. RootsDone(S)' /\ LocalsDone(S, c)' /\ HooksDone(S)' /\ PopDone(S)' /\ PushDone(S)'
  BY <1>2, <1>9, <1>12, HoldingStays DEF Tri, PushDone
<1>15. heap[chunk].type \in {"list", "node"} => Word(k) \in OrNull(Marked(S)')
  <2>1. CASE Darkens(Word(k))
    BY <1>1, <1>5, <1>8, <1>11, <2>1 DEF OrNull
  <2>2. CASE ~ Darkens(Word(k))
    <3>1. ASSUME heap[chunk].type \in {"list", "node"}, Word(k) # NULL PROVE Word(k) \in Marked(S)
      <4>1. Word(k) \in Addr /\ heap[Word(k)].colour \in 0 .. 3 /\ heap[Word(k)].colour \notin {white, green}
        BY <1>4, <1>6, <2>2, <3>1 DEF Darkens, OrNull, Shape, Ranges
      <4>2. heap[Word(k)].colour \in {grey, black}
        BY <4>1 DEF Shape, SwapInv, Colours, grey, green
      <4> QED
        BY <4>1, <4>2 DEF Marked, Grey, Tri, Done
    <3> QED
      BY <1>11, <3>1 DEF OrNull
  <2> QED
    BY <2>1, <2>2
<1>16. IF k = 1 THEN FirstDone(S, chunk)' ELSE SecondDone(S, chunk)'
  <2>0. /\ heap[chunk].type = "list" => Word(k) = IF k = 1 THEN heap[chunk].a ELSE heap[chunk].b
        /\ heap[chunk].type = "node" => Word(k) = IF k = 1 THEN heap[chunk].b ELSE heap[chunk].a
    BY DEF Word, Successors, SuccessorsIn
  <2>1. Marked(S)' \subseteq Along(S)'
    <3>1. CollectorInRange' /\ Shape(K, o, c)'
      BY <1>9, <1>10
    <3> QED
      BY <1>2, <1>3, <1>4, <1>7, <1>8, <1>9, <1>11, MarkedAlong DEF Shape
  <2>2. heap[chunk].type = "node" => heap[chunk].a # NULL
    BY <1>4 DEF Shape, Words, Nodes, Values
  <2> QED
    BY <1>1, <1>15, <2>0, <2>1, <2>2 DEF FirstDone, SecondDone, OrNull
<1>17. AtWork(S)'
  <2>1. k = 2 => FirstDone(S, chunk)'
    BY <1>1, <1>4, <1>9, <1>12, DoneStays DEF Tri, AtWork
  <2> QED
    BY <1>1, <1>2, <1>4, <1>16, <2>1 DEF AtWork
<1>18. Passes(S)'
  BY <1>1 DEF Passes
<1> QED
  BY <1>9, <1>10, <1>13, <1>14, <1>17, <1>18 DEF Tri

LEMMA DarkenWriteKeeps ==
  ASSUME NEW K, NEW o, NEW c, Shape(K, o, c), CollectorInRange, NEW S \in SUBSET K, Tri(K, S, c), DarkenWrite,
         NEW T, T = Greyed(S, scan)
  PROVE  Shape(K, o, c)' /\ CollectorInRange' /\ T \in SUBSET K /\ Tri(K, T, c)'
<1>1. /\ heap' = Coloured(scan, grey) /\ Marking /\ CollectorStep /\ chunk' = chunk /\ pass' = pass /\ scan' = 0
      /\ \/ cpc = "grey_first" /\ cpc' = "second"
         \/ cpc = "grey_second" /\ cpc' = "blacken"
  BY DEF DarkenWrite, CollectorStep
<1>2. /\ UNCHANGED <<registers, loc, hook, node, todo, bindings, mpc, black, white>> /\ Addr' = Addr
  BY <1>1 DEF Marking, MutatorIdle, opVars, Addr
<1>3. Greys /\ ~ Greys' /\ Pending = {} /\ Pending' = {} /\ InWork /\ InWork'
  BY <1>1, <1>2 DEF Greys, Pending, InWork
<1>4. /\ K \subseteq Addr /\ Marked(S) \subseteq K /\ chunk \in K /\ scan \in K /\ scan \in Addr
      /\ mpc = "link" => node \in Addr /\ heap[node].colour = green /\ scan # node /\ chunk # node
  <2>1. K \subseteq Addr /\ Marked(S) \subseteq K
    BY Known
  <2>2. chunk \in K /\ scan \in K
    BY <1>3 DEF Shape, InHand
  <2>3. mpc = "link" => node \in K /\ heap[node].colour = green /\ scan # node /\ chunk # node
    BY <1>3 DEF Shape, Fresh, InHand, HasNode, Nodes
  <2> QED
    BY <2>1, <2>2, <2>3
<1>5. \A i \in Addr : heap'[i].colour = IF i = scan THEN grey ELSE heap[i].colour
  BY <1>1, ColourKeeps DEF Shape, grey
<1>6. Shape(K, o, c)' /\ SameWords(K)
  <2>1. mpc = "link" => heap'[node].colour = green /\ chunk' # node
    BY <1>1, <1>4, <1>5
  <2> QED
    BY <1>1, <1>3, <1>4, <2>1, MarkingKeeps DEF grey
<1>7. CollectorInRange'
  BY <1>1, <1>2 DEF CollectorInRange
<1>8. T \subseteq S /\ S \subseteq T \cup {scan} /\ T \in SUBSET K
  BY DEF Greyed
<1>9. Marked(T)' = Marked(S)
  BY <1>2, <1>3, <1>4, <1>5, <1>8 DEF Marked, Grey
<1>10. Grows(S, T)
  <2>1. Ranges' /\ Marked(T)' \cup Pending' \subseteq Addr
    BY <1>3, <1>4, <1>6, <1>9 DEF Shape
  <2> QED
    BY <1>1, <1>2, <1>3, <1>6, <1>9, <2>1, ColoursGrow
<1>11. Done(K, T)'
  <2>1. Awaited => Awaited'
    BY <1>2 DEF Awaited, Hooking
  <2> QED
    BY <1>2, <1>4, <1>5, <1>6, <1>10, <2>1, GreyedStays DEF Tri
<1>12. mpc = "link" => T = S
  BY <1>4 DEF Greyed
<1>13. RootsDone(T)' /\ LocalsDone(T, c)' /\ HooksDone(T)' /\ PopDone(T)' /\ PushDone(T)'
  BY <1>2, <1>6, <1>8, <1>10, <1>12, HoldingStays DEF Tri, PushDone
<1>14. AtWork(T)'
  <2>1. /\ heap[chunk].colour \in {grey, black} /\ FirstDone(S, chunk) /\ (cpc = "grey_second" => SecondDone(S, chunk))
    BY <1>1, <1>3 DEF Tri, AtWork
  <2>2. heap'[chunk].colour \in {grey, black}
    BY <1>4, <1>5, <2>1
  <2> QED
    BY <1>1, <1>2, <1>4, <1>6, <1>10, <2>1, <2>2, DoneStays DEF AtWork
<1>15. Passes(T)'
  BY <1>1 DEF Passes
<1> QED
  BY <1>6, <1>7, <1>8, <1>11, <1>13, <1>14, <1>15 DEF Tri

(* The collector blackens a list just before the mutator makes a node,     *)
(* whose successors have been seen to already, its first item.             *)
WithNode(x) == IF mpc = "link" /\ now.op = "push_front" /\ P = x THEN {x, node} ELSE {x}

LEMMA BlackenKeeps ==
  ASSUME NEW K, NEW o, NEW c, Shape(K, o, c), CollectorInRange, NEW S \in SUBSET K, Tri(K, S, c), Blacken,
         NEW T, T = S \cup WithNode(chunk)
  PROVE  Shape(K, o, c)' /\ CollectorInRange' /\ T \in SUBSET K /\ Tri(K, T, c)'
<1>1. /\ heap' = Coloured(chunk, black) /\ Marking /\ CollectorStep /\ UNCHANGED <<chunk, scan, pass>>
      /\ cpc = "blacken" /\ cpc' = "find"
  BY DEF Blacken, CollectorStep
<1>2. /\ UNCHANGED <<registers, loc, hook, node, todo, bindings, mpc, black, white>> /\ Addr' = Addr
  BY <1>1 DEF Marking, MutatorIdle, opVars, Addr
<1>3. ~ Greys /\ ~ Greys' /\ Pending = {} /\ Pending' = {} /\ InWork /\ ~ InWork'
  BY <1>1, <1>2 DEF Greys, Pending, InWork
<1>4. K \subseteq Addr /\ Marked(S) \subseteq K /\ chunk \in K /\ chunk \in Addr
  <2>1. K \subseteq Addr /\ Marked(S) \subseteq K
    BY Known
  <2>2. chunk \in K
    BY <1>3 DEF Shape, InHand
  <2> QED
    BY <2>1, <2>2
<1>5. white # grey /\ black # grey /\ white # black /\ black # green /\ white # green /\ black \in 0 .. 3
  BY DEF Shape, SwapInv, Colours, grey, green
<1>6. mpc = "link" =>
        /\ node \in Addr /\ node \in K /\ heap[node].colour = green /\ chunk # node /\ heap[node].type = "node"
        /\ P # node /\ P \in Lists(K) /\ heap[node].a = X
        /\ now.op = "push_front" => heap[node].b = heap[P].a
  <2>1. mpc = "link" => node \in K /\ node \in Addr /\ P # node /\ P \in Lists(K) /\ heap[node].type = "node"
    BY AtLink DEF Nodes
  <2> QED
    BY <1>3, <2>1 DEF Shape, Fresh
<1>7. \A i \in Addr : heap'[i].colour = IF i = chunk THEN black ELSE heap[i].colour
  BY <1>1, <1>5, ColourKeeps DEF Shape
<1>8. Shape(K, o, c)' /\ SameWords(K)
  <2>1. mpc = "link" => heap'[node].colour = green
    BY <1>6, <1>7
  <2> QED
    BY <1>1, <1>3, <1>4, <1>5, <2>1, MarkingKeeps
<1>9. CollectorInRange'
  BY <1>1, <1>2 DEF CollectorInRange
<1>10. T \in SUBSET K /\ S \subseteq T /\ chunk \in T
  BY <1>4, <1>6 DEF WithNode
<1>11. Marked(S) \subseteq Marked(T)' /\ Marked(T)' \subseteq K
  <2>1. Marked(S) = S \cup Grey /\ Marked(T)' = T \cup Grey'
    BY <1>3 DEF Marked
  <2>2. Grey' = Grey \ {chunk}
    BY <1>2, <1>5, <1>7 DEF Grey
  <2> QED
    BY <1>4, <1>10, <2>1, <2>2
<1>12. Grows(S, T)
  <2>1. Ranges' /\ Marked(T)' \cup Pending' \subseteq Addr
    BY <1>3, <1>4, <1>8, <1>11 DEF Shape
  <2> QED
    BY <1>1, <1>2, <1>3, <1>8, <1>11, <2>1, ColoursGrow
<1>13. FirstDone(S, chunk) /\ SecondDone(S, chunk)
  BY <1>1 DEF Tri, AtWork
<1>14. ASSUME mpc = "link", now.op = "push_front", P = chunk
       PROVE  (FirstDone(T, node)' \/ Weak(T, node)') /\ SecondDone(T, node)'
  <2>1. /\ heap'[node].b = heap[P].a /\ heap'[node].a = X /\ heap'[node].type = "node"
        /\ heap'[node].colour = green /\ X \in Marked(S)
    BY <1>6, <1>7, <1>8, <1>14 DEF SameWords, Tri, PushDone, Pushes
  <2>2. heap[P].a \in OrNull(Along(S))
    BY <1>6, <1>13, <1>14 DEF FirstDone, Lists
  <2>3. SecondDone(T, node)'
    BY <1>2, <1>11, <2>1 DEF SecondDone
  <2>4. CASE heap[P].a = NULL
    BY <1>2, <2>1, <2>3, <2>4 DEF FirstDone, OrNull
  <2>5. CASE heap[P].a \in Along(S)
    BY <1>2, <1>12, <1>14, <2>1, <2>3, <2>5 DEF Weak, Awaited, Grows
  <2> QED
    BY <2>2, <2>4, <2>5 DEF OrNull
<1>15. Done(K, T)'
  <2>1. FirstDone(T, chunk)' /\ SecondDone(T, chunk)'
    BY <1>1, <1>4, <1>8, <1>12, <1>13, DoneStays
  <2>2. \A y \in T \ S : (FirstDone(T, y)' \/ Weak(T, y)') /\ SecondDone(T, y)'
    BY <1>1, <1>2, <1>14, <2>1 DEF WithNode
  <2>3. \A i \in T : heap'[i].colour # white'
    BY <1>2, <1>4, <1>5, <1>6, <1>7, <1>10 DEF Tri, Done, WithNode
  <2>4. \A i \in Addr : heap'[i].colour = black' => i \in T
    BY <1>2, <1>5, <1>7, <1>10 DEF Tri, Done
  <2>5. \A y \in T \cap S : Weak(S, y) => heap'[y].colour = green \/ FirstDone(S, y)
    BY <1>4, <1>7, <1>10, <1>13 DEF Weak
  <2> QED
    BY <1>2, <1>8, <1>10, <1>12, <2>2, <2>3, <2>4, <2>5, SettledStays DEF Tri
<1>16. mpc = "link" /\ (now.op = "push_back" \/ P \in T) => node \in T
  <2> SUFFICES ASSUME mpc = "link", now.op = "push_back" \/ P \in T PROVE node \in T
    OBVIOUS
  <2>1. now.op \in Pushes
    BY AtLink
  <2>2. CASE now.op = "push_back" \/ P \in S
    BY <1>10, <2>2 DEF Tri, PushDone
  <2>3. CASE now.op = "push_front" /\ P = chunk
    BY <2>3 DEF WithNode
  <2> QED
    BY <1>6, <2>1, <2>2, <2>3 DEF WithNode, Pushes
<1>17. RootsDone(T)' /\ LocalsDone(T, c)' /\ HooksDone(T)' /\ PopDone(T)' /\ PushDone(T)'
  BY <1>2, <1>8, <1>10, <1>12, <1>16, HoldingStays DEF Tri
<1>18. AtWork(T)'
  BY <1>1 DEF AtWork, InWork
<1>19. Passes(T)'
  <2>1. chunk \in Marked(T)' /\ heap'[chunk].colour # green
    BY <1>4, <1>5, <1>7, <1>10 DEF Marked
  <2> QED
    BY <1>1, <2>1 DEF Passes
<1> QED
  BY <1>8, <1>9, <1>10, <1>15, <1>17, <1>18, <1>19 DEF Tri

(* When no grey chunk is left, S is all that the program can get at.       *)
Within(o, S) == [n \in S |-> IF o[n] \in S THEN o[n] ELSE NULL]

LEMMA Shrinks ==
  ASSUME NEW K, NEW o, NEW c, Shape(K, o, c), CollectorInRange, NEW S \in SUBSET K, Tri(K, S, c),
         Unsettled(S) = {}, ~ Greys, Pending = {}, ~ InWork, cpc # "root", NEW q, q = Within(o, S)
  PROVE  Shape(S, q, c) /\ \A i \in S : heap[i].colour # white
<1>1. /\ Marked(S) = S /\ Along(S) = S /\ Coming(S) = S /\ AllClosed(heap, S)
  BY Settled DEF Tri
<1>2. K \subseteq Addr /\ NULL \notin Addr /\ NULL \notin S
  BY Known
<1>3. Nodes(S) = Nodes(K) \cap S /\ Lists(S) = Lists(K) \cap S /\ Values(S) = Values(K) \cap S
  BY DEF Nodes, Lists, Values
<1>4. /\ \A i \in Nodes(S) : heap[i].a \in Values(S) /\ heap[i].b \in OrNull(Nodes(S))
      /\ \A i \in Lists(S) : heap[i].a \in OrNull(Nodes(S)) /\ heap[i].b \in OrNull(Nodes(S))
  <2>1. /\ \A i \in Nodes(K) : heap[i].a \in Values(K) /\ heap[i].b \in OrNull(Nodes(K))
        /\ \A i \in Lists(K) : heap[i].a \in OrNull(Nodes(K)) /\ heap[i].b \in OrNull(Nodes(K))
    BY DEF Shape, Words
  <2>2. \A i \in Nodes(S) \cup Lists(S) : heap[i].a \in OrNull(S) /\ heap[i].b \in OrNull(S)
    BY <1>1 DEF AllClosed, Nodes, Lists
  <2>3. NULL \notin Values(K)
    BY <1>2 DEF Values
  <2> QED
    BY <1>3, <2>1, <2>2, <2>3 DEF OrNull
<1>5. Words(S)
  <2>1. /\ S \subseteq Addr /\ \A i \in S : heap[i].type # "free"
        /\ \A i \in S : heap[i].type \in {"symbol", "escaped"} => heap[i].a \in Symbol
    BY <1>2 DEF Shape, Words
  <2> QED
    BY <1>4, <2>1 DEF Words
<1>6. /\ \A k \in 1 .. Len(registers) : registers[k] \in S
      /\ \A s \in Symbol : bindings[s] \in OrNull(S)
      /\ loc.ds \in S /\ loc.cs \in S
  BY <1>1 DEF Tri, RootsDone, Unseen
<1>7. Roots0(S)
  <2>1. bindings \in [Symbol -> OrNull(Values(S))]
    BY <1>3, <1>6 DEF Shape, Roots0, OrNull
  <2>2. registers \in Seq(S)
    BY <1>6 DEF Shape, Roots0
  <2> QED
    BY <1>3, <1>6, <2>1, <2>2 DEF Shape, Roots0
<1>8. Hooking => hook \in Hooks(S)
  <2> SUFFICES ASSUME Hooking PROVE hook \in Hooks(S)
    OBVIOUS
  <2>1. hook \in Hooks(K)
    BY DEF Shape, InHand
  <2>2. Range(hook.darken) \subseteq S /\ hook.blacken \in OrNull(S)
    BY <1>1 DEF Tri, HooksDone
  <2>3. hook.darken \in Seq(S)
    BY <2>1, <2>2 DEF Hooks, Range
  <2> QED
    BY <2>1, <2>2, <2>3 DEF Hooks
<1>9. HasNode => node \in Nodes(S)
  <2> SUFFICES ASSUME HasNode PROVE node \in S
    BY <1>3 DEF Shape, InHand
  <2>1. node \in K /\ now.op \in Pushes
    BY DEF Shape, InHand, Control, Nodes
  <2>2. CASE mpc = "link"
    <3>1. P \in S
      BY <1>1, <2>1, <2>2 DEF Tri, PushDone
    <3> QED
      BY <2>1, <2>2, <3>1 DEF Tri, PushDone, Pushes
  <2>3. CASE mpc \in {"link_hook", "last"}
    BY <1>1, <2>3 DEF Tri, PushDone
  <2>4. CASE Hooking /\ hook.then = "last"
    <3>1. node \in Looked(S)
      BY <2>4 DEF Tri, HooksDone
    <3>2. Range(hook.darken) \subseteq S /\ hook.blacken \in OrNull(S)
      BY <1>1, <2>4 DEF Tri, HooksDone
    <3>3. node # NULL
      BY <1>2, <2>1
    <3> QED
      BY <1>1, <3>1, <3>2, <3>3 DEF Looked, OrNull
  <2> QED
    BY <2>2, <2>3, <2>4 DEF HasNode, Linking
<1>10. InHand(S)
  <2>1. \A i \in Addr : heap[i].colour = grey => i \in S
    BY DEF Unsettled, Grey
  <2> QED
    BY <1>8, <1>9, <2>1 DEF Shape, InHand
<1>11. Halfway(S)
  <2>1. mpc = "unlink_last" => P \in S
    BY <1>1 DEF Tri, PopDone
  <2> QED
    BY <1>3, <2>1 DEF Shape, Halfway
<1>12. \A n \in S : q[n] = IF o[n] \in S THEN o[n] ELSE NULL
  BY DEF Within
<1>13. Owned(S, q)
  <2>0. Owned(K, o)
    BY DEF Shape
  <2>1. \A n \in Nodes(S) : q[n] \in OrNull(Lists(S))
    BY <1>3, <1>12, <2>0 DEF Owned, OrNull
  <2>2. ASSUME NEW l \in Lists(S)
        PROVE  /\ heap[l].a = NULL <=> LastOf(l) = NULL
               /\ heap[l].a # NULL => /\ q[heap[l].a] = l
                                      /\ LastOf(l) \in Nodes(S) /\ q[LastOf(l)] = l /\ heap[LastOf(l)].b = NULL
    <3>1. LastOf(l) \in OrNull(Nodes(S))
      <4>1. Linking => HasNode
        BY DEF HasNode
      <4> QED
        BY <1>4, <1>9, <4>1 DEF LastOf, OrNull
    <3>2. heap[l].a \in OrNull(Nodes(S))
      BY <1>4
    <3>3. /\ heap[l].a = NULL <=> LastOf(l) = NULL
          /\ heap[l].a # NULL => o[heap[l].a] = l /\ LastOf(l) # NULL /\ o[LastOf(l)] = l /\ heap[LastOf(l)].b = NULL
      BY <1>2, <1>3, <2>0 DEF Owned
    <3>4. l \in S /\ Nodes(S) \subseteq S
      BY DEF Lists, Nodes
    <3> QED
      BY <1>12, <3>1, <3>2, <3>3, <3>4 DEF OrNull
  <2>3. ASSUME NEW n \in Nodes(S), q[n] # NULL
        PROVE  /\ heap[n].b = NULL => n = LastOf(q[n])
               /\ heap[n].b # NULL => q[heap[n].b] = q[n]
    <3>1. n \in S /\ n \in Nodes(K) /\ q[n] = o[n] /\ o[n] \in S
      BY <1>3, <1>12, <2>3
    <3>2. heap[n].b # NULL => heap[n].b \in S
      BY <1>3, <1>4 DEF OrNull
    <3>3. (heap[n].b = NULL => n = LastOf(o[n])) /\ (heap[n].b # NULL => o[heap[n].b] = o[n])
      BY <2>0, <2>3, <3>1 DEF Owned
    <3> QED
      BY <1>12, <3>1, <3>2, <3>3
  <2> QED
    BY <2>1, <2>2, <2>3 DEF Owned
<1>14. Fresh(S, q)
  <2> SUFFICES ASSUME mpc = "link" PROVE Fresh(S, q)
    BY DEF Fresh
  <2>1. node \in S
    BY <1>9 DEF HasNode, Nodes
  <2>2. q[node] = NULL
    BY <1>12, <2>1 DEF Shape, Fresh
  <2> QED
    BY <1>3, <2>2 DEF Shape, Fresh
<1>15. Knows(S, c)
  <2>0. Knows(K, c)
    BY DEF Shape
  <2>1. KnowsLocals(S, c)
    BY <1>1, <1>3, <2>0 DEF Knows, KnowsLocals, Tri, LocalsDone
  <2>2. KnowsRegisters(S, c)
    <3>1. \A k \in 1 .. Len(c.regs) : registers[k] \in S
      <4>1. Len(registers) = Len(c.regs) + Len(InRegisters) /\ c.regs \in Seq(Kept) /\ Len(InRegisters) \in Nat
        BY <2>0 DEF Knows, KnowsRegisters, InRegisters, Held
      <4> QED
        BY <1>6, <4>1
    <3> QED
      BY <1>3, <2>0, <3>1 DEF Knows, KnowsRegisters
  <2>3. KnowsBound(S, c)
    <3>1. \A e \in c.bound : bindings[e[1]] \in Values(S)
      BY <1>2, <1>3, <1>6, <2>0 DEF Knows, KnowsBound, OrNull, Values
    <3> QED
      BY <2>0, <3>1 DEF Knows, KnowsBound
  <2> QED
    BY <2>0, <2>1, <2>2, <2>3 DEF Knows
<1> QED
  BY <1>5, <1>7, <1>10, <1>11, <1>13, <1>14, <1>15 DEF Shape, Tri, Done

NoWhite(K) == \A i \in K : heap[i].colour # white

LEMMA GoesToBuildKeeps ==
  ASSUME NEW K, NEW o, NEW c, Shape(K, o, c), CollectorInRange, NEW S \in SUBSET K, Tri(K, S, c),
         FindPassOver, cpc' = "build", NEW q, q = Within(o, S)
  PROVE  Shape(S, q, c)' /\ CollectorInRange' /\ NoWhite(S)' /\ S \subseteq Addr
<1>1. /\ UNCHANGED heap /\ Marking /\ CollectorStep /\ cpc = "scan" /\ scan + 1 = chunk /\ pass >= ScanPasses
      /\ scan' = 0 /\ pass' = 0 /\ chunk' = chunk
  <2>1. cpc = "scan" /\ cpc' # cpc
    BY DEF FindPassOver
  <2>2. ~ (pass < ScanPasses)
    BY <2>1 DEF FindPassOver
  <2> QED
    BY <2>1, <2>2 DEF FindPassOver, CollectorStep, CollectorInRange, ScanPasses
<1>2. UNCHANGED <<registers, loc, hook, node, todo, bindings, mpc, black, white>>
  BY <1>1 DEF Marking, MutatorIdle, opVars
<1>3. ~ Greys /\ Pending = {} /\ ~ InWork /\ ~ Greys' /\ ~ InWork'
  BY <1>1 DEF Greys, Pending, InWork
<1>4. Ahead = {}
  BY <1>1, RoundTheHeap DEF Ahead, CollectorInRange
<1>5. Unsettled(S) = {}
  <2>1. pass > 1
    BY <1>1 DEF CollectorInRange, ScanPasses
  <2> QED
    BY <1>1, <1>4, <2>1 DEF Tri, Passes
<1>6. Shape(S, q, c) /\ NoWhite(S)
  BY <1>1, <1>3, <1>5, Shrinks DEF NoWhite
<1>7. Shape(S, q, c)'
  <2>1. mpc = "link" => heap'[node].colour = green
    BY <1>1 DEF Shape, Fresh
  <2> QED
    BY <1>1, <1>3, <1>6, <2>1, MarkingKeeps DEF grey
<1>8. CollectorInRange'
  BY <1>1, HeapAssumption DEF CollectorInRange, Addr, ScanPasses
<1> QED
  BY <1>1, <1>2, <1>6, <1>7, <1>8, Known DEF NoWhite

LEMMA BuildKeeps ==
  ASSUME NEW K, NEW o, NEW c, Shape(K, o, c), CollectorInRange, NoWhite(K), collector_list \in Pointer,
         Build \/ BuildOver
  PROVE  Shape(K, o, c)' /\ CollectorInRange' /\ NoWhite(K)'
<1>1. /\ MutatorIdle /\ CollectorStep /\ UNCHANGED <<black, white>> /\ cpc = "build" /\ K \subseteq Addr
      /\ \A i \in K : i \in Addr /\ heap[i].colour # white
      /\ DOMAIN heap = Addr /\ Addr' = Addr
  <2>1. MutatorIdle /\ CollectorStep /\ UNCHANGED <<black, white>> /\ cpc = "build"
    BY DEF Build, Builds, BuildOver, Marking, CollectorStep
  <2> QED
    BY <2>1 DEF NoWhite, Shape, Words, SwapInv, HeapOfRecords, Addr
<1>2. UNCHANGED <<registers, loc, hook, node, todo, bindings, mpc>>
  BY <1>1 DEF MutatorIdle, opVars
<1>3. /\ chunk' \in Addr /\ scan' \in Nat /\ pass' \in 0 .. ScanPasses
      /\ \/ cpc' = "build" /\ scan' <= N
         \/ cpc' = "await"
  BY HeapAssumption DEF Build, Builds, BuildOver, CollectorInRange, Addr
<1>4. CollectorInRange'
  BY <1>3 DEF CollectorInRange
<1>5. ~ InWork' /\ ~ Greys'
  BY <1>3 DEF InWork, Greys
<1>6. \/ UNCHANGED heap
      \/ scan \in Addr /\ heap[scan].colour = white /\ heap' = [heap EXCEPT ![scan] = FreeChunk(collector_list)]
  <2>1. ASSUME Build, ~ UNCHANGED heap
        PROVE  scan \in Addr /\ heap[scan].colour = white /\ heap' = [heap EXCEPT ![scan] = FreeChunk(collector_list)]
    <3>1. scan \in Nat /\ scan < N /\ N \in Nat
      BY <2>1, HeapAssumption DEF Build, Builds, CollectorInRange
    <3> QED
      BY <2>1, <3>1 DEF Build, Builds, Addr
  <2> QED
    BY <2>1 DEF BuildOver
<1>7. \A i \in Addr : \/ heap'[i] = heap[i]
                      \/ i = scan /\ heap[scan].colour = white /\ heap'[i] = FreeChunk(collector_list)
  BY <1>1, <1>6
<1>8. \A i \in K : heap'[i] = heap[i]
  BY <1>1, <1>7
<1>9. FreeChunk(collector_list) = [type |-> "free", colour |-> 3, a |-> -1, b |-> collector_list]
  BY DEF FreeChunk, green, NULL
<1>10. Ranges'
  <2> DEFINE f == FreeChunk(collector_list)
  <2>1. /\ f.type = "free" /\ f.colour = 3 /\ f.a = -1 /\ f.b = collector_list
    BY <1>9
  <2> HIDE DEF f
  <2>2. /\ f.type \in Types /\ f.type # "block" /\ f.colour \in 0 .. 3
        /\ f.a \in Pointer \cup Nat /\ f.b \in Pointer
        /\ f.type \in {"list", "node"} => f.a \in Pointer
    BY <2>1 DEF Types, Pointer, NULL
  <2>3. \A i \in Addr : heap'[i] = heap[i] \/ heap'[i] = f
    BY <1>7 DEF f
  <2>4. Pointer' = Pointer
    BY <1>1 DEF Pointer
  <2> QED
    BY <1>1, <2>2, <2>3, <2>4 DEF Shape, Ranges
<1>11. SwapInv'
  BY <1>1, CollectorKeepsSwapInv DEF Shape
<1>12. \A i \in Addr : heap'[i].colour = grey => i \in K
  <2>1. FreeChunk(collector_list).colour # grey
    BY <1>9 DEF grey
  <2> QED
    BY <1>7, <2>1 DEF Shape, InHand
<1>13. mpc = "link" => heap'[node].colour = green
  BY <1>8 DEF Shape, Fresh, InHand, HasNode, Nodes
<1>14. Shape(K, o, c)'
  <2>1. SameWords(K)
    BY <1>8 DEF SameWords
  <2>2. Shape(K, o, c) => Shape(K, o, c)'
    BY <1>2, <1>5, <1>10, <1>11, <1>12, <1>13, <2>1, CollectorFrame
  <2> QED
    BY <2>2
<1> QED
  BY <1>1, <1>4, <1>8, <1>14 DEF NoWhite

(* What an allocation works on is in the registers while it waits. *)
HeldKept ==
  mpc \in {"await", "granted"} /\ now.op \in Pushes => P \in Range(registers) /\ X \in Range(registers)

LEMMA HandoverStarts ==
  ASSUME NEW K, NEW o, NEW c, Shape(K, o, c), CollectorInRange, HeldKept, Handover
  PROVE  Shape(K, o, c)' /\ CollectorInRange' /\ HeldKept' /\ Tri(K, {}, c)'
<1>1. /\ cpc = "await" /\ mpc = "await" /\ mpc' = "granted" /\ cpc' = "root" /\ scan' = 0
      /\ UNCHANGED <<bindings, registers, loc, hook, node, todo, chunk, pass>>
      /\ black' = white /\ white' = black /\ process = "running"
  BY DEF Handover, HandsOver
<1>2. /\ Shape(K, o, c)' /\ SameWords(K)
      /\ \A i \in Addr : heap'[i].colour = (IF i \in Range(registers) THEN grey ELSE heap[i].colour)
  BY HandoverKeeps
<1>3. K \subseteq Addr /\ Addr' = Addr /\ Range(registers) \subseteq Addr /\ Range(registers) = {registers[k] : k \in 1 .. Len(registers)}
  <2>1. K \subseteq Addr /\ Addr' = Addr /\ registers \in Seq(K)
    BY DEF Shape, Roots0, Words, Addr
  <2>2. Range(registers) = {registers[k] : k \in 1 .. Len(registers)}
    BY <2>1 DEF Range
  <2> QED
    BY <2>1, <2>2
<1>4. /\ RootChunks' = RootChunks /\ now' = now /\ P' = P /\ X' = X /\ ~ Hooking' /\ ~ Linking' /\ ~ InWork' /\ ~ Greys'
  BY <1>1 DEF RootChunks, now, P, X, Hooking, Linking, InWork, Greys
<1>5. /\ Len(RootChunks) \in Nat /\ Len(RootChunks) >= 2
      /\ RootChunks[1] = loc.ds /\ RootChunks[2] = loc.cs
      /\ \A s \in Symbol : s + 3 \in 1 .. Len(RootChunks) /\ RootChunks[s + 3] = bindings[s]
  <2>1. /\ Len(RootChunks) = Cardinality(Symbol) + 2 /\ Len(RootChunks) \in Nat
        /\ RootChunks[1] = loc.ds /\ RootChunks[2] = loc.cs
        /\ \A s \in Symbol : s + 3 \in 3 .. Len(RootChunks) /\ RootChunks[s + 3] = bindings[s]
    BY RootList DEF Shape
  <2>2. Cardinality(Symbol) \in Nat
    BY SymbolAssumption, FS_CardinalityType
  <2>3. \A s \in Symbol : s \in Nat
    BY <2>2, SymbolAssumption
  <2> QED
    BY <2>1, <2>2, <2>3
<1>6. CollectorInRange'
  BY <1>1, <1>3, <1>4, <1>5 DEF CollectorInRange
<1>7. HeldKept'
  BY <1>1, <1>4 DEF HeldKept
<1>8. Marked({})' = Grey' /\ Range(registers) \subseteq Grey'
  BY <1>2, <1>3, <1>4 DEF Marked, Grey
<1>9. Pending' = {RootChunks[j] : j \in 1 .. Len(RootChunks)} \ {NULL}
  BY <1>1, <1>4 DEF Pending
<1>10. loc.ds \in Pending' /\ loc.cs \in Pending' /\ \A s \in Symbol : bindings[s] \in OrNull(Pending')
  <2>1. loc.ds # NULL /\ loc.cs # NULL
    BY <1>3 DEF Shape, Roots0, Lists, Addr, NULL
  <2>2. 1 \in 1 .. Len(RootChunks) /\ 2 \in 1 .. Len(RootChunks)
    BY <1>5
  <2>3. \A s \in Symbol : bindings[s] \in {RootChunks[j] : j \in 1 .. Len(RootChunks)}
    <3>1. \A s \in Symbol : \E j \in 1 .. Len(RootChunks) : RootChunks[j] = bindings[s]
      BY <1>5
    <3> QED
      BY <3>1
  <2>4. loc.ds \in {RootChunks[j] : j \in 1 .. Len(RootChunks)} /\ loc.cs \in {RootChunks[j] : j \in 1 .. Len(RootChunks)}
    BY <1>5, <2>2
  <2> QED
    BY <1>9, <2>1, <2>3, <2>4 DEF OrNull
<1>11. Done(K, {})'
  <2>1. \A i \in Addr : heap[i].colour # white
    BY <1>1 DEF Shape, SwapInv, NothingWhiteAtSwap, White
  <2>2. \A i \in Addr : heap'[i].colour # black'
    BY <1>1, <1>2, <2>1 DEF Shape, SwapInv, Colours, grey
  <2> QED
    BY <1>3, <2>2 DEF Done
<1>12. RootsDone({})'
  <2>1. \A k \in 1 .. Len(registers) : registers[k] \in Marked({})'
    BY <1>3, <1>8
  <2> QED
    <3>1. \A s \in Symbol : s \in Nat
      BY SymbolAssumption, FS_CardinalityType
    <3> QED
      BY <1>1, <1>10, <2>1, <3>1 DEF RootsDone, Unseen
<1>13. now.op \in Pushes => P \in Marked({})' /\ X \in Marked({})'
  BY <1>1, <1>8 DEF HeldKept
<1>14. LocalsDone({}, c)'
  <2>1. todo # <<>> /\ now.op \in {"new", "new_block"} \cup Pushes /\ now.op # "new_block"
    <3>1. todo # <<>> /\ now.op \in {"new", "new_block"} \cup Pushes
      BY <1>1 DEF Shape, Control
    <3> QED
      BY <1>1, <3>1, NextOperation DEF Shape, Pushes
  <2>2. PICK d : TypedPush(now, c, d) \/ TypedNew(Plain, now, c, d)
    <3>1. PICK d : Typed(Plain, now, c, d)
      BY <1>1, <2>1, TypedNow DEF Shape
    <3> QED
      BY <2>1, <3>1, TypedAs
  <2>3. ASSUME NEW e \in c.loc PROVE loc[e[1]] \in Marked({})'
    <3>1. now.op \in Pushes /\ e[1] \in {now.p, now.x}
      BY <2>2 DEF TypedPush, TypedNew, Pushes
    <3> QED
      BY <1>13, <3>1 DEF P, X
  <2> QED
    BY <1>1, <2>3 DEF LocalsDone
<1>15. PushDone({})'
  BY <1>1, <1>4, <1>13 DEF PushDone
<1>16. AtWork({})' /\ HooksDone({})' /\ PopDone({})' /\ Passes({})'
  BY <1>1, <1>4 DEF AtWork, HooksDone, PopDone, Passes
<1> QED
  BY <1>2, <1>6, <1>7, <1>11, <1>12, <1>14, <1>15, <1>16 DEF Tri

-----------------------------------------------------------------------------
(* The mutator's steps, one by one: its hooks *)

LEMMA HookGoesOn ==
  ASSUME NEW K, NEW o, NEW c, Shape(K, o, c), CollectorInRange, NEW S \in SUBSET K, NEW T, Grows(S, T), SameWords(K),
         RootsDone(S), LocalsDone(S, c), HooksDone(S), PushDone(S), PopDone(S),
         Hooking, NEW h \in Hooks(K), h.then = hook.then, todo' = todo,
         \/ Hooking' /\ hook' = h
         \/ mpc' = h.then /\ hook' = NoHook /\ h.darken = <<>> /\ h.blacken = NULL,
         Range(h.darken) \subseteq Range(hook.darken), h.blacken \in OrNull({hook.blacken}),
         Range(hook.darken) \subseteq Marked(T)' \cup Range(h.darken),
         hook.blacken \in Marked(T)' \cup {h.blacken, NULL},
         UNCHANGED <<registers, loc, bindings, node>>
  PROVE  RootsDone(T)' /\ LocalsDone(T, c)' /\ HooksDone(T)' /\ PushDone(T)' /\ PopDone(T)'
<1>1. now' = now /\ P' = P /\ X' = X
  BY DEF now, P, X
<1>2. hook.then \in {"alloc", "unlink", "last"} /\ hook \in Hooks(K) /\ todo # <<>> /\ NULL \notin K
  <2>1. todo # <<>>
    BY DEF Shape, Control, Hooking
  <2>2. NULL \notin K
    BY Known
  <2> QED
    BY <2>1, <2>2 DEF Shape, InHand, Hooks
<1>3. RootsDone(T)'
  BY DEF RootsDone, Grows, OrNull
<1>4. Looked(S) \subseteq Marked(T)' \cup Range(h.darken) \cup {h.blacken, NULL}
  BY DEF Looked, Grows
<1>5. hook.then = "alloc" => /\ now.op \in Pushes /\ P \in K /\ X \in K
                             /\ P \in Looked(S) /\ X \in Looked(S)
                             /\ \A e \in c.loc : e[1] \in {now.p, now.x}
  <2> SUFFICES ASSUME hook.then = "alloc"
               PROVE  /\ now.op \in Pushes /\ P \in K /\ X \in K
                      /\ P \in Looked(S) /\ X \in Looked(S)
                      /\ \A e \in c.loc : e[1] \in {now.p, now.x}
    OBVIOUS
  <2>1. now.op \in Pushes /\ mpc # "unlink_last"
    BY DEF Shape, Control, Hooking
  <2>2. P \in Lists(K) /\ X \in Values(K)
    BY <1>2, <2>1, PushKnown DEF Shape
  <2>3. PICK d : TypedPush(now, c, d)
    BY <1>2, <2>1, TypedNow, TypedAs DEF Shape
  <2>4. \A e \in c.loc : e[1] \in {now.p, now.x}
    BY <2>3 DEF TypedPush
  <2> QED
    BY <2>1, <2>2, <2>4 DEF HooksDone, Lists, Values
<1>6. hook.then = "unlink" =>
         P \in K /\ (heap[P].a # NULL => /\ heap[P].a \in K /\ heap[heap[P].a].a \in K
                                          /\ heap[heap[P].a].a \in Looked(S))
  <2> SUFFICES ASSUME hook.then = "unlink"
               PROVE  P \in K /\ (heap[P].a # NULL => /\ heap[P].a \in K /\ heap[heap[P].a].a \in K
                                          /\ heap[heap[P].a].a \in Looked(S))
    OBVIOUS
  <2>1. now.op = "pop_to_register" /\ mpc # "unlink_last"
    BY DEF Shape, Control, Hooking
  <2>2. P \in Lists(K)
    BY <1>2, <2>1, PopKnown DEF Shape
  <2>3. heap[P].a # NULL => heap[P].a \in Nodes(K) /\ heap[heap[P].a].a \in Values(K)
    BY <2>2 DEF Shape, Words, OrNull
  <2> QED
    BY <2>2, <2>3 DEF HooksDone, Lists, Values, Nodes
<1>7. hook.then = "last" => node \in K /\ node \in Looked(S) /\ P \in Marked(S)
  BY DEF HooksDone, PushDone, Linking, Shape, InHand, HasNode, Nodes
<1>8. CASE Hooking' /\ hook' = h
  <2>1. Linking' = Linking /\ (Early' <=> hook.then = "alloc") /\ (Early <=> hook.then = "alloc")
    BY <1>8 DEF Linking, Hooking, Early
  <2>2. LocalsDone(T, c)'
    BY <2>1 DEF LocalsDone, Grows
  <2>3. PushDone(T)' /\ PopDone(T)'
    BY <1>1, <1>8, <2>1 DEF PushDone, PopDone, Hooking, Grows
  <2>4. Range(h.darken) \subseteq Coming(T)' /\ h.blacken \in OrNull(Coming(T)')
    BY DEF HooksDone, Grows, OrNull
  <2>5. Looked(T)' = Marked(T)' \cup Range(h.darken) \cup {h.blacken}
    BY <1>8 DEF Looked
  <2>6. /\ hook.then = "alloc" => P \in Looked(T)' /\ X \in Looked(T)'
        /\ hook.then = "last" => node \in Looked(T)'
    BY <1>2, <1>4, <1>5, <1>7, <2>5
  <2>7. hook.then = "unlink" /\ heap'[P].a # NULL => heap'[heap'[P].a].a \in Looked(T)'
    BY <1>2, <1>4, <1>6, <2>5 DEF SameWords
  <2>8. h.blacken # NULL /\ heap'[h.blacken].type \in {"list", "node"} =>
           /\ heap'[h.blacken].a \in OrNull(Marked(T)' \cup Range(h.darken))
           /\ heap'[h.blacken].b \in OrNull(Marked(T)' \cup Range(h.darken))
    <3> SUFFICES ASSUME h.blacken # NULL, heap'[h.blacken].type \in {"list", "node"}, NEW j,
                        j = heap'[h.blacken].a \/ j = heap'[h.blacken].b
                 PROVE  j \in OrNull(Marked(T)' \cup Range(h.darken))
      OBVIOUS
    <3>1. h.blacken = hook.blacken /\ hook.blacken \in K
      BY <1>2 DEF OrNull, Hooks
    <3>2. /\ heap[hook.blacken].type \in {"list", "node"}
          /\ j = heap[hook.blacken].a \/ j = heap[hook.blacken].b
      BY <3>1 DEF SameWords
    <3>3. j \in OrNull(Marked(S) \cup Range(hook.darken))
      BY <3>1, <3>2 DEF HooksDone
    <3> QED
      BY <3>3 DEF OrNull, Grows
  <2> QED
    BY <1>1, <1>3, <1>8, <2>2, <2>3, <2>4, <2>6, <2>7, <2>8 DEF HooksDone
<1>9. CASE mpc' = h.then /\ hook' = NoHook /\ h.darken = <<>> /\ h.blacken = NULL
  <2>1. Range(h.darken) = {} /\ ~ Hooking' /\ (Linking' <=> hook.then = "last") /\ (Early <=> hook.then = "alloc")
    BY <1>2, <1>9 DEF Range, Hooking, Linking, Early
  <2>2. \A i \in Looked(S) : i \in K => i \in Marked(T)'
    BY <1>2, <1>4, <1>9, <2>1
  <2>3. LocalsDone(T, c)'
    <3>1. CASE hook.then = "alloc"
      BY <1>5, <2>2, <3>1 DEF LocalsDone, P, X
    <3>2. CASE hook.then # "alloc"
      BY <2>1, <3>2 DEF LocalsDone, Grows
    <3> QED
      BY <3>1, <3>2
  <2>4. PushDone(T)'
    <3>1. hook.then = "alloc" => P' \in Marked(T)' /\ X' \in Marked(T)'
      BY <1>1, <1>5, <2>2
    <3>2. hook.then = "last" => P' \in Marked(T)' /\ node' \in Marked(T)'
      BY <1>1, <1>7, <2>2 DEF Grows
    <3> QED
      BY <1>2, <1>9, <2>1, <3>1, <3>2 DEF PushDone
  <2>5. PopDone(T)'
    <3>1. hook.then = "unlink" /\ heap'[P'].a # NULL => heap'[heap'[P'].a].a \in Marked(T)'
      BY <1>1, <1>6, <2>2 DEF SameWords
    <3> QED
      BY <1>2, <1>9, <3>1 DEF PopDone
  <2> QED
    BY <1>3, <2>1, <2>3, <2>4, <2>5 DEF HooksDone
<1> QED
  BY <1>8, <1>9

LEMMA RangeOfTail ==
  ASSUME NEW T, NEW s \in Seq(T), s # <<>>
  PROVE  Range(s) = {Head(s)} \cup Range(Tail(s)) /\ Head(s) \in T
<1>1. /\ Len(s) \in Nat /\ Len(s) >= 1 /\ Head(s) = s[1]
      /\ Tail(s) \in Seq(T) /\ Len(Tail(s)) = Len(s) - 1
      /\ \A k \in 1 .. Len(Tail(s)) : Tail(s)[k] = s[k + 1]
  BY TailFacts
<1>2. Range(s) = {s[k] : k \in 1 .. Len(s)} /\ Range(Tail(s)) = {Tail(s)[k] : k \in 1 .. Len(Tail(s))}
  <2>1. \A u \in Seq(T) : Range(u) = {u[k] : k \in 1 .. Len(u)}
    BY DEF Range
  <2> QED
    BY <1>1, <2>1
<1>3. \A k \in 1 .. Len(s) : k = 1 \/ (k - 1 \in 1 .. Len(Tail(s)) /\ (k - 1) + 1 = k)
  BY <1>1
<1>4. \A k \in 1 .. Len(s) : s[k] = Head(s) \/ s[k] \in Range(Tail(s))
  <2> SUFFICES ASSUME NEW k \in 1 .. Len(s), k # 1 PROVE s[k] \in Range(Tail(s))
    BY <1>1
  <2>1. k - 1 \in 1 .. Len(Tail(s)) /\ Tail(s)[k - 1] = s[(k - 1) + 1] /\ (k - 1) + 1 = k
    BY <1>1, <1>3
  <2> QED
    BY <1>2, <2>1
<1>5. \A k \in 1 .. Len(Tail(s)) : Tail(s)[k] \in Range(s)
  BY <1>1, <1>2
<1> QED
  BY <1>1, <1>2, <1>4, <1>5

(* A chunk that darkening leaves alone is marked. *)
LEMMA NotDarkens ==
  ASSUME NEW K, NEW S, Ranges, SwapInv, Done(K, S), NEW i \in Addr, ~ Darkens(i)
  PROVE  i \in Marked(S)
<1>1. heap[i].colour \in 0 .. 3 /\ heap[i].colour \notin {white, green}
  BY DEF Darkens, Ranges, Addr, NULL
<1>2. heap[i].colour \in {grey, black}
  BY <1>1 DEF SwapInv, Colours, grey, green
<1> QED
  BY <1>2 DEF Marked, Grey, Done

LEMMA HookReadMarks ==
  ASSUME NEW K, NEW o, NEW c, Shape(K, o, c), CollectorInRange, NEW S \in SUBSET K, Tri(K, S, c), HookRead
  PROVE  Tri(K, S, c)'
<1> DEFINE h == [hook EXCEPT !.darken = Tail(@)]
<1>1. /\ mpc = "hook" /\ hook.darken # <<>> /\ UNCHANGED <<heap, node, cpc, chunk, scan, pass, black, white>>
      /\ UNCHANGED <<registers, loc, bindings, todo>>
      /\ IF Darkens(Head(hook.darken)) THEN mpc' = "darken" /\ UNCHANGED hook ELSE Goes(h)
  BY DEF HookRead, At, AllocatorIdle, collectorVars, Goes, Stay
<1>2. /\ Hooking /\ hook \in Hooks(K) /\ h \in Hooks(K) /\ h.then = hook.then /\ h.blacken = hook.blacken
      /\ h.darken = Tail(hook.darken) /\ hook.darken \in Seq(K)
  <2>1. Hooking /\ hook \in Hooks(K) /\ h \in Hooks(K)
    BY <1>1, HookInHooks DEF Shape, Hooking
  <2> QED
    BY <2>1 DEF Hooks
<1>3. Range(hook.darken) = {Head(hook.darken)} \cup Range(Tail(hook.darken)) /\ Head(hook.darken) \in K
  BY <1>1, <1>2, RangeOfTail
<1>4. /\ Addr' = Addr /\ Pending' = Pending /\ Grey' = Grey /\ Marked(S)' = Marked(S) /\ Unsettled(S)' = Unsettled(S)
      /\ InWork' = InWork /\ Ahead' = Ahead /\ Greys' = Greys
  BY <1>1 DEF Addr, Pending, RootChunks, Grey, Marked, Greys, Unsettled, InWork, Ahead, Between
<1>5. Shape(K, o, c)' /\ SameWords(K)
  BY <1>1, HookReadKeeps DEF SameWords
<1>6. Grows(S, S)
  <2>1. Ranges' /\ Marked(S)' \cup Pending' \subseteq Addr
    BY <1>4, <1>5, Known DEF Shape
  <2>2. \A s \in Symbol : Unseen(s) => Unseen(s)'
    BY <1>1 DEF Unseen
  <2> QED
    BY <1>1, <1>4, <1>5, <2>1, <2>2, ColoursGrow
<1>7. ~ Darkens(Head(hook.darken)) => Head(hook.darken) \in Marked(S)
  BY <1>3, NotDarkens DEF Shape, Words, Tri
<1>8. \/ Hooking' /\ hook' = hook
      \/ ~ Darkens(Head(hook.darken)) /\ Hooking' /\ hook' = h
      \/ ~ Darkens(Head(hook.darken)) /\ mpc' = h.then /\ hook' = NoHook /\ h.darken = <<>> /\ h.blacken = NULL
  <2>1. CASE Darkens(Head(hook.darken))
    BY <1>1, <2>1 DEF Hooking
  <2>2. CASE ~ Darkens(Head(hook.darken))
    <3>1. Goes(h)
      BY <1>1, <2>2
    <3> HIDE DEF h
    <3> QED
      BY <2>2, <3>1 DEF Hooking, Goes, Stay
  <2> QED
    BY <2>1, <2>2
<1> HIDE DEF h
<1>9. RootsDone(S)' /\ LocalsDone(S, c)' /\ HooksDone(S)' /\ PushDone(S)' /\ PopDone(S)'
  <2>1. CASE hook' = hook /\ Hooking'
    BY <1>1, <1>2, <1>5, <1>6, <2>1, HookGoesOn DEF Tri, OrNull
  <2>2. CASE ~ Darkens(Head(hook.darken)) /\ ((Hooking' /\ hook' = h) \/ (mpc' = h.then /\ hook' = NoHook /\ h.darken = <<>> /\ h.blacken = NULL))
    BY <1>1, <1>2, <1>3, <1>4, <1>5, <1>6, <1>7, <2>2, HookGoesOn DEF Tri, OrNull
  <2> QED
    BY <1>8, <2>1, <2>2
<1>10. hook'.blacken \in {hook.blacken, NULL} /\ (node # NULL => (Awaited => Awaited'))
  <2>1. node # NULL => (Awaited => Awaited')
    BY <1>1, <1>2, <1>8 DEF Awaited, Hooking
  <2> QED
    <3>1. NoHook.blacken = NULL
      BY DEF NoHook
    <3> QED
      BY <1>2, <1>8, <2>1, <3>1
<1>11. Done(K, S)'
  <2>1. \A x \in S : Weak(S, x) => heap'[x].colour = green /\ Awaited'
    BY <1>1, <1>10, Known DEF Weak
  <2> QED
    BY <1>1, <1>4, <1>5, <1>6, <2>1, SettledOn DEF Tri, Done
<1>12. AtWork(S)'
  BY <1>1, <1>4, <1>5, <1>6, DoneStays DEF AtWork, Tri, Shape, InHand, InWork
<1>13. Passes(S)'
  <2>1. \A g \in Unsettled(S) : g # NULL /\ (g # hook.blacken => g # hook'.blacken)
    BY <1>10 DEF Unsettled, Grey, Addr, NULL
  <2> QED
    BY <1>1, <1>4, <1>10, <2>1 DEF Tri, Passes
<1> QED
  BY <1>9, <1>11, <1>12, <1>13 DEF Tri

LEMMA HookDarkenMarks ==
  ASSUME NEW K, NEW o, NEW c, Shape(K, o, c), CollectorInRange, NEW S \in SUBSET K, Tri(K, S, c), HookDarken,
         NEW T, T = Greyed(S, Head(hook.darken))
  PROVE  T \in SUBSET K /\ Tri(K, T, c)'
<1> DEFINE h == [hook EXCEPT !.darken = Tail(@)]
           x == Head(hook.darken)
<1>1. /\ mpc = "darken" /\ UNCHANGED <<node, cpc, chunk, scan, pass, black, white>>
      /\ UNCHANGED <<registers, loc, bindings, todo>>
      /\ heap' = Coloured(x, grey) /\ Goes(h)
  BY DEF HookDarken, At, AllocatorIdle, collectorVars, Goes, Stay
<1>2. /\ Hooking /\ hook \in Hooks(K) /\ h \in Hooks(K) /\ h.then = hook.then /\ h.blacken = hook.blacken
      /\ h.darken = Tail(hook.darken) /\ hook.darken \in Seq(K) /\ hook.darken # <<>>
  <2>1. Hooking /\ hook.darken # <<>> /\ hook \in Hooks(K) /\ h \in Hooks(K)
    BY <1>1, HookInHooks DEF Shape, Hooking, Control
  <2> QED
    BY <2>1 DEF Hooks
<1>3. Range(hook.darken) = {x} \cup Range(Tail(hook.darken)) /\ x \in K
  BY <1>2, RangeOfTail
<1>4. \/ Hooking' /\ hook' = h
      \/ mpc' = h.then /\ hook' = NoHook /\ h.darken = <<>> /\ h.blacken = NULL
  <2> HIDE DEF h
  <2> QED
    BY <1>1 DEF Hooking, Goes, Stay
<1> HIDE DEF h, x
<1>5. /\ Addr' = Addr /\ Pending' = Pending /\ InWork' = InWork /\ Ahead' = Ahead /\ Greys' = Greys
      /\ K \subseteq Addr /\ Marked(S) \cup Pending \subseteq K
  <2>1. K \subseteq Addr /\ Marked(S) \cup Pending \subseteq K
    BY Known
  <2> QED
    BY <1>1, <2>1 DEF Addr, Pending, RootChunks, Greys, InWork, Ahead, Between
<1>6. Shape(K, o, c)' /\ SameWords(K)
  BY HookDarkenKeeps
<1>7. \A i \in Addr : heap'[i].colour = IF i = x THEN grey ELSE heap[i].colour
  BY <1>1, <1>3, ColourKeeps DEF Shape, grey
<1>8. T \subseteq S /\ S \subseteq T \cup {x} /\ T \in SUBSET K
  BY DEF Greyed, x
<1>9. Grey' = Grey \cup {x} /\ Marked(T)' = Marked(S) \cup {x}
  BY <1>1, <1>3, <1>5, <1>7, <1>8 DEF Grey, Marked
<1>10. Grows(S, T)
  <2>1. Ranges' /\ Marked(T)' \cup Pending' \subseteq Addr
    BY <1>3, <1>5, <1>6, <1>9 DEF Shape
  <2>2. \A s \in Symbol : Unseen(s) => Unseen(s)'
    BY <1>1 DEF Unseen
  <2> QED
    BY <1>1, <1>5, <1>6, <1>9, <2>1, <2>2, ColoursGrow
<1>11. RootsDone(T)' /\ LocalsDone(T, c)' /\ HooksDone(T)' /\ PushDone(T)' /\ PopDone(T)'
  BY <1>1, <1>2, <1>3, <1>4, <1>6, <1>9, <1>10, HookGoesOn DEF Tri, OrNull
<1>12. hook'.blacken \in {hook.blacken, NULL} /\ (node \in Addr => (Awaited => Awaited'))
  <2>1. node \in Addr => node # NULL
    BY DEF Addr, NULL
  <2>2. NoHook.blacken = NULL
    BY DEF NoHook
  <2> QED
    BY <1>1, <1>2, <1>4, <2>1, <2>2 DEF Awaited, Hooking
<1>13. Done(K, T)'
  BY <1>1, <1>3, <1>6, <1>7, <1>10, <1>12, GreyedStays DEF Tri, x
<1>14. AtWork(T)'
  <2>1. InWork => chunk \in K /\ chunk \in Addr
    BY <1>5 DEF Shape, InHand
  <2> QED
    BY <1>1, <1>5, <1>6, <1>7, <1>10, <2>1, DoneStays DEF AtWork, Tri, InWork
<1>15. ASSUME cpc \in {"find", "scan"}
       PROVE  /\ chunk \in Addr /\ (chunk = node => heap'[chunk].colour # green)
              /\ chunk \in S => chunk \in T
  <2>1. chunk \in Addr
    BY DEF CollectorInRange
  <2>2. chunk = node => heap[chunk].colour # green
    BY <1>15 DEF Tri, Passes
  <2>3. chunk = node /\ chunk \in S => FirstDone(S, chunk)
    BY <2>2 DEF Tri, Done, Weak
  <2> QED
    BY <1>7, <2>1, <2>2, <2>3 DEF Greyed, x, grey, green
<1>16. ASSUME cpc = "scan"
       PROVE  /\ Unsettled(S) \subseteq Unsettled(T)' /\ (Unsettled(S) = {} => Unsettled(T)' = {})
              /\ Unsettled(T)' \subseteq Unsettled(S) \cup {x} /\ Unsettled(T)' \subseteq Addr
  <2>1. Unsettled(T)' = (Grey \cup {x}) \ T
    BY <1>9 DEF Unsettled
  <2>2. ASSUME Unsettled(S) = {} PROVE Unsettled(T)' = {}
    <3>1. Marked(S) = S /\ Coming(S) = S /\ AllClosed(heap, S)
      BY <1>16, <2>2, Settled DEF Tri, Greys, Pending
    <3>2. x \in S
      BY <1>2, <1>3, <3>1 DEF Tri, HooksDone
    <3>3. x = node => FirstDone(S, x)
      BY <3>1, <3>2 DEF FirstDone, AllClosed, Shape, InHand, Nodes, Words, Addr, NULL
    <3>4. T = S
      BY <3>3 DEF Greyed, x
    <3> QED
      BY <2>1, <2>2, <3>2, <3>4 DEF Unsettled
  <2>3. Unsettled(T)' \subseteq Unsettled(S) \cup {x}
    BY <1>8, <2>1 DEF Unsettled
  <2> QED
    BY <1>3, <1>5, <1>8, <2>1, <2>2, <2>3 DEF Unsettled, Grey
<1>17. Passes(T)'
  <2>1. cpc \in {"find", "scan"} => chunk \in Marked(T)' /\ (chunk = node => heap'[chunk].colour # green)
    BY <1>9, <1>15 DEF Tri, Passes
  <2>2. ASSUME cpc = "scan" PROVE chunk \in T /\ pass # 0
    BY <1>15, <2>2 DEF Tri, Passes
  <2>3. ASSUME cpc = "scan", pass = 1, hook'.blacken \in Unsettled(T)'
        PROVE  hook'.blacken \in Ahead \/ \E g \in Unsettled(T)' : g # hook'.blacken
    <3>1. hook'.blacken = hook.blacken
      BY <1>12, <1>16, <2>3 DEF Addr, NULL
    <3>2. CASE hook.blacken \in Unsettled(S)
      BY <1>16, <2>3, <3>1, <3>2 DEF Tri, Passes
    <3>3. CASE hook.blacken \notin Unsettled(S)
      <4>1. Unsettled(S) # {}
        BY <1>16, <2>3
      <4> QED
        BY <1>16, <2>3, <3>1, <3>3, <4>1
    <3> QED
      BY <3>2, <3>3
  <2>4. ASSUME cpc = "scan", pass > 1, Unsettled(T)' # {}
        PROVE  \E g \in Unsettled(T)' \cap Ahead : g # hook'.blacken
    <3>1. PICK g \in Unsettled(S) \cap Ahead : g # hook.blacken
      BY <1>16, <2>4 DEF Tri, Passes
    <3>2. g \in Unsettled(T)' /\ g # NULL
      BY <1>16, <2>4, <3>1 DEF Addr, NULL
    <3> QED
      BY <1>12, <3>1, <3>2
  <2> QED
    BY <1>1, <1>5, <2>1, <2>2, <2>3, <2>4 DEF Passes
<1> QED
  BY <1>8, <1>11, <1>13, <1>14, <1>17 DEF Tri

LEMMA HookBlackenMarks ==
  ASSUME NEW K, NEW o, NEW c, Shape(K, o, c), CollectorInRange, NEW S \in SUBSET K, Tri(K, S, c), HookBlacken,
         NEW x, x = hook.blacken, NEW T, T = S \cup {x}
  PROVE  T \in SUBSET K /\ Tri(K, T, c)'
<1> DEFINE h == [hook EXCEPT !.blacken = NULL]
<1>1. /\ mpc = "hook" /\ hook.darken = <<>> /\ UNCHANGED <<node, cpc, chunk, scan, pass, black, white>>
      /\ UNCHANGED <<registers, loc, bindings, todo>>
      /\ heap' = Coloured(x, black) /\ Goes(h)
  BY DEF HookBlacken, At, AllocatorIdle, collectorVars, Goes, Stay
<1>2. /\ Hooking /\ hook \in Hooks(K) /\ h \in Hooks(K) /\ h.then = hook.then /\ h.blacken = NULL
      /\ h.darken = <<>> /\ x \in K
  <2>1. Hooking /\ hook.blacken # NULL /\ hook \in Hooks(K) /\ h \in Hooks(K)
    BY <1>1, HookInHooks DEF Shape, Hooking, Control
  <2> QED
    BY <1>1, <2>1 DEF Hooks, OrNull
<1>4. mpc' = h.then /\ hook' = NoHook
  <2> HIDE DEF h
  <2> QED
    BY <1>1, <1>2 DEF Goes, Stay
<1> HIDE DEF h
<1>5. /\ Addr' = Addr /\ Pending' = Pending /\ InWork' = InWork /\ Ahead' = Ahead /\ Greys' = Greys
      /\ K \subseteq Addr /\ Marked(S) \cup Pending \subseteq K
  <2>1. K \subseteq Addr /\ Marked(S) \cup Pending \subseteq K
    BY Known
  <2> QED
    BY <1>1, <2>1 DEF Addr, Pending, RootChunks, Greys, InWork, Ahead, Between
<1>6. Shape(K, o, c)' /\ SameWords(K)
  BY HookBlackenKeeps
<1>7. /\ \A i \in Addr : heap'[i].colour = IF i = x THEN black ELSE heap[i].colour
      /\ white # black /\ black # grey /\ black # green
  <2>1. black \in 0 .. 3 /\ white # black /\ black # grey /\ black # green
    BY DEF Shape, SwapInv, Colours, grey, green
  <2> QED
    BY <1>1, <1>2, <2>1, ColourKeeps DEF Shape
<1>8. S \subseteq T /\ x \in T /\ T \in SUBSET K
  BY <1>2
<1>9. Marked(S) \subseteq Marked(T)' /\ Marked(T)' \subseteq K
  <2>1. Grey' = Grey \ {x}
    BY <1>5, <1>7 DEF Grey
  <2> QED
    BY <1>1, <1>5, <1>8, <2>1 DEF Marked
<1>10. Grows(S, T)
  <2>1. Ranges' /\ Marked(T)' \cup Pending' \subseteq Addr
    BY <1>5, <1>6, <1>9 DEF Shape
  <2>2. \A s \in Symbol : Unseen(s) => Unseen(s)'
    BY <1>1 DEF Unseen
  <2> QED
    BY <1>1, <1>5, <1>6, <1>9, <2>1, <2>2, ColoursGrow
<1>11. RootsDone(T)' /\ LocalsDone(T, c)' /\ HooksDone(T)' /\ PushDone(T)' /\ PopDone(T)'
  <2>1. Range(hook.darken) = {} /\ Range(h.darken) = {}
    BY <1>1, <1>2 DEF Range
  <2>2. x \in Marked(T)'
    BY <1>8 DEF Marked
  <2> QED
    BY <1>1, <1>2, <1>4, <1>6, <1>10, <2>1, <2>2, HookGoesOn DEF Tri, OrNull
<1>12. FirstDone(S, x) /\ SecondDone(S, x)
  <2>1. heap[x].type \in {"list", "node"} => heap[x].a \in OrNull(Marked(S)) /\ heap[x].b \in OrNull(Marked(S))
    <3>1. Range(hook.darken) = {} /\ hook.blacken # NULL
      BY <1>1, <1>2, <1>5 DEF Range, Addr, NULL
    <3> QED
      BY <1>2, <3>1 DEF Tri, HooksDone
  <2>2. heap[x].type = "node" => heap[x].a # NULL
    <3>1. heap[x].type = "node" => heap[x].a \in K
      BY <1>2 DEF Shape, Words, Nodes, Values
    <3> QED
      BY <1>5, <3>1 DEF Addr, NULL
  <2>3. Marked(S) \subseteq Along(S)
    BY Hulls
  <2> QED
    BY <2>1, <2>2, <2>3 DEF FirstDone, SecondDone, OrNull
<1>13. Done(K, T)'
  <2>0. FirstDone(T, x)' /\ SecondDone(T, x)'
    BY <1>2, <1>6, <1>10, <1>12, DoneStays
  <2>1. \A i \in T : heap'[i].colour # white'
    BY <1>1, <1>5, <1>7, <1>8 DEF Tri, Done
  <2>2. \A i \in Addr : heap'[i].colour = black' => i \in T
    BY <1>1, <1>7, <1>8 DEF Tri, Done
  <2>3. \A y \in T \cap S : Weak(S, y) => (heap'[y].colour = green /\ Awaited') \/ FirstDone(S, y)
    <3>1. \A y \in S : Weak(S, y) => y = x
      BY <1>1, <1>2 DEF Weak, Awaited
    <3> QED
      BY <1>12, <3>1
  <2> QED
    BY <1>1, <1>6, <1>8, <1>10, <2>0, <2>1, <2>2, <2>3, SettledOn DEF Tri
<1>14. AtWork(T)'
  <2>1. InWork => chunk \in K /\ chunk \in Addr
    BY <1>5 DEF Shape, InHand
  <2> QED
    BY <1>1, <1>5, <1>6, <1>7, <1>10, <2>1, DoneStays DEF AtWork, Tri, InWork
<1>15. Unsettled(T)' \subseteq Unsettled(S) /\ x \notin Unsettled(T)' /\ Unsettled(S) \subseteq Unsettled(T)' \cup {x}
  BY <1>5, <1>7, <1>8 DEF Unsettled, Grey
<1>16. Passes(T)'
  <2>1. NoHook.blacken = NULL
    BY DEF NoHook
  <2>2. cpc \in {"find", "scan"} => chunk \in Marked(T)' /\ (chunk = node => heap'[chunk].colour # green)
    BY <1>7, <1>9 DEF Tri, Passes, CollectorInRange
  <2>3. cpc = "scan" => chunk \in T /\ pass # 0
    BY <1>8 DEF Tri, Passes
  <2>4. \A g \in Unsettled(T)' : g # NULL
    BY <1>5, <1>15 DEF Unsettled, Grey, Addr, NULL
  <2>5. cpc = "scan" /\ pass > 1 /\ Unsettled(T)' # {} => \E g \in Unsettled(T)' \cap Ahead : g # NULL
    BY <1>15, <2>4 DEF Tri, Passes
  <2> QED
    BY <1>1, <1>4, <1>5, <2>1, <2>2, <2>3, <2>4, <2>5 DEF Passes
<1> QED
  BY <1>8, <1>11, <1>13, <1>14, <1>16 DEF Tri

(* A hook begins. *)
LEMMA HookBegins ==
  ASSUME NEW K, NEW o, NEW c, Shape(K, o, c), CollectorInRange, NEW S \in SUBSET K, Tri(K, S, c),
         UNCHANGED <<heap, node, cpc, chunk, scan, pass, black, white, registers, loc, bindings, todo>>,
         mpc \in {"op", "link_hook"}, todo # <<>>, NEW h \in Hooks(K),
         \/ mpc' = "hook" /\ hook' = h
         \/ mpc' = h.then /\ hook' = NoHook /\ h.darken = <<>> /\ h.blacken = NULL,
         Range(h.darken) \subseteq Coming(S), h.blacken \in OrNull(Coming(S)),
         h.blacken # NULL => heap[h.blacken].colour = green,
         NEW L, L = Marked(S) \cup Range(h.darken) \cup {h.blacken},
         \/ h.then = "alloc" /\ mpc = "op" /\ now.op \in Pushes /\ P \in L /\ X \in L
         \/ h.then = "last" /\ mpc = "link_hook" /\ node \in L /\ (heap[node].colour = green => h.blacken = node)
         \/ h.then = "unlink" /\ mpc = "op" /\ c.weak = {} /\ (heap[P].a # NULL => heap[heap[P].a].a \in L),
         h.blacken # NULL /\ heap[h.blacken].type \in {"list", "node"} =>
           /\ heap[h.blacken].a \in OrNull(Marked(S) \cup Range(h.darken))
           /\ heap[h.blacken].b \in OrNull(Marked(S) \cup Range(h.darken))
  PROVE  Shape(K, o, c)' => Tri(K, S, c)'
<1> SUFFICES ASSUME Shape(K, o, c)' PROVE Tri(K, S, c)'
  OBVIOUS
<1>1. now' = now /\ P' = P /\ X' = X
  BY DEF now, P, X
<1>2. ~ Hooking /\ hook.blacken = NULL /\ hook' \in {h, NoHook} /\ NoHook.blacken = NULL
      /\ (Linking <=> h.then = "last") /\ (Linking' <=> h.then = "last")
      /\ (Hooking' => hook' = h)
  BY DEF Hooking, Linking, Shape, InHand, NoHook, Hooks
<1>3. /\ Addr' = Addr /\ Pending' = Pending /\ Grey' = Grey /\ Marked(S)' = Marked(S) /\ Unsettled(S)' = Unsettled(S)
      /\ InWork' = InWork /\ Ahead' = Ahead /\ Greys' = Greys
  BY DEF Addr, Pending, RootChunks, Grey, Marked, Greys, Unsettled, InWork, Ahead, Between
<1>4. SameWords(K) /\ K \subseteq Addr /\ NULL \notin Addr
  BY Known DEF SameWords
<1>5. Grows(S, S)
  <2>1. Ranges' /\ Marked(S)' \cup Pending' \subseteq Addr
    BY <1>3, Known DEF Shape
  <2>2. \A s \in Symbol : Unseen(s) => Unseen(s)'
    BY DEF Unseen
  <2> QED
    BY <1>3, <1>4, <2>1, <2>2, ColoursGrow
<1>6. RootsDone(S)'
  BY <1>5 DEF Tri, RootsDone, Grows, OrNull
<1>7. h.darken = <<>> /\ h.blacken = NULL => L = Marked(S) \cup {NULL}
  BY DEF Range
<1>8. LocalsDone(S, c)'
  <2>1. CASE h.then = "alloc"
    <3>1. PICK d : TypedPush(now, c, d)
      BY <2>1, TypedNow, TypedAs DEF Shape
    <3>2. Early
      BY <2>1 DEF Early
    <3>3. CASE mpc' = "hook" /\ hook' = h
      <4>1. Early'
        BY <2>1, <3>3 DEF Early, Hooking
      <4> QED
        BY <1>5, <3>2, <4>1 DEF LocalsDone, Tri, Grows
    <3>4. CASE h.darken = <<>> /\ h.blacken = NULL
      <4>1. P \in K /\ X \in K
        BY <2>1, PushKnown DEF Shape, Lists, Values
      <4>2. P \in Marked(S) /\ X \in Marked(S)
        BY <1>4, <1>7, <2>1, <3>4, <4>1
      <4> QED
        BY <1>3, <3>1, <4>2 DEF LocalsDone, TypedPush, P, X
    <3> QED
      BY <3>3, <3>4
  <2>2. CASE h.then # "alloc"
    <3>1. \A e \in c.loc : loc[e[1]] \in Marked(S)
      BY <2>2 DEF Tri, LocalsDone, Early, Hooking
    <3> QED
      BY <1>3, <3>1 DEF LocalsDone
  <2> QED
    BY <2>1, <2>2
<1>9. HooksDone(S)'
  <2> SUFFICES ASSUME mpc' = "hook", hook' = h PROVE HooksDone(S)'
    BY <1>2 DEF HooksDone, Hooking, Hooks
  <2>1. Looked(S)' = L
    BY <1>3 DEF Looked
  <2>2. Range(hook'.darken) \subseteq Coming(S)' /\ hook'.blacken \in OrNull(Coming(S)')
    BY <1>5 DEF Grows, OrNull
  <2> QED
    BY <1>1, <1>3, <2>1, <2>2 DEF HooksDone
<1>10. PushDone(S)'
  <2>1. Linking => P \in Marked(S)
    BY DEF Tri, PushDone
  <2>2. CASE mpc' = "hook"
    BY <1>1, <1>2, <1>3, <2>1, <2>2 DEF PushDone
  <2>3. CASE mpc' = h.then /\ h.darken = <<>> /\ h.blacken = NULL
    <3>1. h.then = "alloc" => P \in K /\ X \in K
      BY PushKnown DEF Shape, Lists, Values
    <3>2. h.then = "last" => node \in K
      BY <1>2 DEF Shape, InHand, HasNode, Nodes
    <3> QED
      BY <1>1, <1>2, <1>3, <1>4, <1>7, <2>1, <2>3, <3>1, <3>2 DEF PushDone
  <2> QED
    BY <2>2, <2>3
<1>11. PopDone(S)'
  <2>1. CASE mpc' = "hook"
    BY <2>1 DEF PopDone
  <2>2. CASE mpc' = h.then /\ h.darken = <<>> /\ h.blacken = NULL
    <3>1. h.then = "unlink" /\ heap[P].a # NULL => heap[heap[P].a].a \in K
      <4>1. ASSUME h.then = "unlink", heap[P].a # NULL PROVE heap[heap[P].a].a \in K
        <5>1. now.op = "pop_to_register" /\ mpc # "unlink_last"
          BY <1>1, <2>2, <4>1 DEF Shape, Control
        <5>2. P \in Lists(K)
          BY <5>1, PopKnown DEF Shape
        <5> QED
          BY <4>1, <5>2 DEF Shape, Words, OrNull, Values
      <4> QED
        BY <4>1
    <3> QED
      BY <1>1, <1>3, <1>4, <1>7, <2>2, <3>1 DEF PopDone
  <2> QED
    BY <2>1, <2>2
<1>12. Done(K, S)'
  <2>1. ASSUME NEW x \in S, Weak(S, x) PROVE heap'[x].colour = green /\ Awaited'
    <3>1. x = node /\ x # NULL /\ heap[x].colour = green /\ mpc = "link_hook"
      BY <1>2, <1>4, <2>1 DEF Weak, Awaited
    <3>2. h.blacken = node /\ hook' = h /\ mpc' = "hook"
      BY <3>1
    <3> QED
      BY <3>1, <3>2 DEF Awaited, Hooking
  <2> QED
    BY <1>3, <1>4, <1>5, <2>1, SettledOn DEF Tri, Done
<1>13. AtWork(S)'
  BY <1>3, <1>4, <1>5, DoneStays DEF AtWork, Tri, Shape, InHand, InWork
<1>14. Passes(S)'
  <2>1. \A g \in Unsettled(S) : heap[g].colour = grey /\ g # NULL /\ g # hook'.blacken
    BY <1>2, <1>4 DEF Unsettled, Grey, grey, green
  <2> QED
    BY <1>3, <2>1 DEF Tri, Passes
<1> QED
  BY <1>6, <1>8, <1>9, <1>10, <1>11, <1>12, <1>13, <1>14 DEF Tri

-----------------------------------------------------------------------------
(* What mutator_push_hook looks at is on its list, or marked.              *)

Joined(s, t, w) == w = s \o t

LEMMA JoinRange ==
  ASSUME NEW C, NEW s \in Seq(C), NEW t \in Seq(C), NEW w, Joined(s, t, w)
  PROVE  w \in Seq(C) /\ Range(w) = Range(s) \cup Range(t) /\ Range(w) \subseteq C
<1>1. \A u \in Seq(C) : Range(u) = {u[k] : k \in 1 .. Len(u)} /\ Len(u) \in Nat
  BY DEF Range
<1>2. /\ w \in Seq(C) /\ Len(w) = Len(s) + Len(t)
      /\ \A k \in 1 .. Len(s) : w[k] = s[k]
      /\ \A k \in 1 .. Len(t) : w[Len(s) + k] = t[k]
  BY DEF Joined
<1>a. /\ Range(w) = {w[k] : k \in 1 .. Len(w)} /\ Range(s) = {s[k] : k \in 1 .. Len(s)}
      /\ Range(t) = {t[k] : k \in 1 .. Len(t)} /\ Len(s) \in Nat /\ Len(t) \in Nat
  BY <1>1, <1>2
<1>3. \A k \in 1 .. Len(w) : w[k] \in Range(s) \cup Range(t)
  <2> SUFFICES ASSUME NEW k \in 1 .. Len(w) PROVE w[k] \in Range(s) \cup Range(t)
    OBVIOUS
  <2>1. CASE k \in 1 .. Len(s)
    <3>1. w[k] = s[k]
      BY <1>2, <2>1
    <3> QED
      BY <1>a, <2>1, <3>1
  <2>2. CASE k \notin 1 .. Len(s)
    <3>1. k - Len(s) \in 1 .. Len(t) /\ Len(s) + (k - Len(s)) = k
      BY <1>2, <1>a, <2>2
    <3>2. w[k] = t[k - Len(s)]
      BY <1>2, <3>1
    <3> QED
      BY <1>a, <3>1, <3>2
  <2> QED
    BY <2>1, <2>2
<1>5. \A k \in 1 .. Len(s) : k \in 1 .. Len(w) /\ w[k] = s[k]
  BY <1>2, <1>a
<1>6. \A k \in 1 .. Len(t) : Len(s) + k \in 1 .. Len(w) /\ w[Len(s) + k] = t[k]
  BY <1>2, <1>a
<1>7. Range(w) \subseteq C
  <2>1. \A k \in 1 .. Len(w) : w[k] \in C
    BY <1>2
  <2> QED
    BY <1>a, <2>1
<1>8. Range(s) \subseteq Range(w)
  BY <1>a, <1>5
<1>9. Range(t) \subseteq Range(w)
  BY <1>a, <1>6
<1>10. Range(w) \subseteq Range(s) \cup Range(t)
  BY <1>a, <1>3
<1> QED
  BY <1>2, <1>7, <1>8, <1>9, <1>10

LEMMA RangeOfJoin ==
  ASSUME NEW C, NEW s \in Seq(C), NEW t \in Seq(C)
  PROVE  s \o t \in Seq(C) /\ Range(s \o t) = Range(s) \cup Range(t) /\ Range(s \o t) \subseteq C
<1>1. PICK w : w = s \o t
  OBVIOUS
<1>a. Joined(s, t, w)
  BY <1>1 DEF Joined
<1>2. w \in Seq(C) /\ Range(w) = Range(s) \cup Range(t) /\ Range(w) \subseteq C
  BY <1>a, JoinRange
<1> QED
  BY <1>1, <1>2

LEMMA LooksMark ==
  ASSUME NEW K, NEW S, Ranges, SwapInv, Done(K, S), NEW C \in SUBSET Addr, NEW i \in OrNull(C)
  PROVE  Looks(i) \in Seq(C) /\ i \in OrNull(Marked(S) \cup Range(Looks(i)))
<1>1. CASE Darkens(i)
  <2>1. Looks(i) = <<i>> /\ i \in C
    BY <1>1 DEF Looks, Darkens, OrNull
  <2>2. Range(<<i>>) = {i}
    BY DEF Range
  <2> QED
    BY <2>1, <2>2 DEF OrNull
<1>2. CASE ~ Darkens(i)
  <2>1. Looks(i) = <<>>
    BY <1>2 DEF Looks
  <2>2. i # NULL => i \in Marked(S)
    BY <1>2, NotDarkens DEF OrNull
  <2> QED
    BY <2>1, <2>2 DEF OrNull
<1> QED
  BY <1>1, <1>2

LEMMA LooksAfterMark ==
  ASSUME NEW K, NEW S, Ranges, SwapInv, Done(K, S), NEW C \in SUBSET Addr, AllClosed(heap, C), NEW i \in C
  PROVE  /\ LooksAfter(i) \in Seq(C)
         /\ heap[i].type \in {"list", "node"} =>
              /\ heap[i].a \in OrNull(Marked(S) \cup Range(LooksAfter(i)))
              /\ heap[i].b \in OrNull(Marked(S) \cup Range(LooksAfter(i)))
<1>1. heap[i].type # "block" /\ i \in Addr
  BY DEF Ranges
<1>2. CASE heap[i].type \in {"list", "node"}
  <2>1. PICK u, v : Successors(i) = <<u, v>> /\ ((u = heap[i].a /\ v = heap[i].b) \/ (u = heap[i].b /\ v = heap[i].a))
    BY <1>2 DEF Successors, SuccessorsIn
  <2>2. u \in OrNull(C) /\ v \in OrNull(C)
    BY <1>2, <2>1 DEF AllClosed
  <2>3. LooksAfter(i) = Looks(u) \o Looks(v)
    BY <2>1 DEF LooksAfter
  <2>4. /\ Looks(u) \in Seq(C) /\ Looks(v) \in Seq(C)
        /\ u \in OrNull(Marked(S) \cup Range(Looks(u))) /\ v \in OrNull(Marked(S) \cup Range(Looks(v)))
    BY <2>2, LooksMark
  <2>5. /\ LooksAfter(i) \in Seq(C)
        /\ Range(LooksAfter(i)) = Range(Looks(u)) \cup Range(Looks(v))
    BY <2>3, <2>4, RangeOfJoin
  <2> QED
    BY <2>1, <2>4, <2>5 DEF OrNull
<1>3. CASE heap[i].type \notin {"list", "node"}
  <2>1. LooksAfter(i) = <<>>
    BY <1>1, <1>3 DEF LooksAfter, Successors, SuccessorsIn
  <2> QED
    BY <1>3, <2>1
<1> QED
  BY <1>2, <1>3

(* What mutator_push_hook is about to do. *)
LooksAt(K, S, C, l, d, then) ==
  \E h \in Hooks(K) :
           /\ Goes(h) /\ h.then = then /\ Range(h.darken) \subseteq C /\ h.blacken \in OrNull(C)
           /\ l \in Marked(S) \cup Range(h.darken)
           /\ d \in Marked(S) \cup Range(h.darken) \cup {h.blacken}
           /\ h.blacken # NULL => heap[h.blacken].colour = green
           /\ heap[d].colour = green => h.blacken = d
           /\ h.blacken # NULL /\ heap[h.blacken].type \in {"list", "node"} =>
                /\ heap[h.blacken].a \in OrNull(Marked(S) \cup Range(h.darken))
                /\ heap[h.blacken].b \in OrNull(Marked(S) \cup Range(h.darken))

LEMMA PushHookLooks ==
  ASSUME NEW K, NEW S, Ranges, SwapInv, Done(K, S), NEW C \in SUBSET K, K \subseteq Addr, AllClosed(heap, C),
         NEW l \in C, NEW d \in C, NEW then \in {"alloc", "unlink", "last"}, PushHook(l, d, then)
  PROVE  LooksAt(K, S, C, l, d, then)
<1>0. C \subseteq Addr /\ NULL \notin C /\ l \in OrNull(C) /\ d \in OrNull(C) /\ NULL \in OrNull(C)
      /\ C \subseteq OrNull(C)
  BY DEF Addr, NULL, OrNull
<1>1. /\ Looks(l) \in Seq(C) /\ LooksAfter(l) \in Seq(C) /\ Looks(d) \in Seq(C) /\ LooksAfter(d) \in Seq(C)
      /\ l \in Marked(S) \cup Range(Looks(l)) /\ d \in Marked(S) \cup Range(Looks(d))
      /\ heap[d].type \in {"list", "node"} =>
              /\ heap[d].a \in OrNull(Marked(S) \cup Range(LooksAfter(d)))
              /\ heap[d].b \in OrNull(Marked(S) \cup Range(LooksAfter(d)))
  <2>1. /\ Looks(l) \in Seq(C) /\ Looks(d) \in Seq(C)
        /\ l \in OrNull(Marked(S) \cup Range(Looks(l))) /\ d \in OrNull(Marked(S) \cup Range(Looks(d)))
    BY <1>0, LooksMark
  <2> QED
    BY <1>0, <2>1, LooksAfterMark DEF OrNull
<1>2. Seq(C) \subseteq Seq(K)
  OBVIOUS
<1>3. CASE heap[d].colour = green
  <2>0. PICK r : r = Looks(l) \o LooksAfter(l)
    OBVIOUS
  <2>1. PICK s : s = LooksAfter(d) \o r
    OBVIOUS
  <2>2. /\ s \in Seq(C) /\ Range(s) \subseteq C
        /\ Range(s) = Range(LooksAfter(d)) \cup Range(Looks(l)) \cup Range(LooksAfter(l))
    <3>1. r \in Seq(C) /\ Range(r) = Range(Looks(l)) \cup Range(LooksAfter(l))
      BY <1>1, <2>0, RangeOfJoin
    <3>2. s \in Seq(C) /\ Range(s) = Range(LooksAfter(d)) \cup Range(r) /\ Range(s) \subseteq C
      BY <1>1, <2>1, <3>1, RangeOfJoin
    <3> QED
      BY <3>1, <3>2
  <2>3. s = LooksAfter(d) \o Looks(l) \o LooksAfter(l)
    <3>1. \A t \in Seq(C), u \in Seq(C), v \in Seq(C) : t \o (u \o v) = t \o u \o v
      OBVIOUS
    <3> QED
      BY <1>1, <2>0, <2>1, <3>1
  <2>4. PICK h : h = [darken |-> s, blacken |-> d, then |-> then]
    OBVIOUS
  <2>5. h \in Hooks(K) /\ h.darken = s /\ h.blacken = d /\ h.then = then
    BY <1>0, <1>2, <2>2, <2>4 DEF Hooks, OrNull
  <2>6. Goes(h)
    BY <1>3, <2>3, <2>4 DEF PushHook, Hook
  <2> QED
    BY <1>0, <1>1, <1>3, <2>2, <2>5, <2>6 DEF OrNull, LooksAt
<1>4. CASE heap[d].colour # green
  <2>0. PICK r : r = LooksAfter(l) \o Looks(d)
    OBVIOUS
  <2>1. PICK s : s = Looks(l) \o r
    OBVIOUS
  <2>2. /\ s \in Seq(C) /\ Range(s) \subseteq C
        /\ Range(s) = Range(LooksAfter(l)) \cup Range(Looks(l)) \cup Range(Looks(d))
    <3>1. r \in Seq(C) /\ Range(r) = Range(LooksAfter(l)) \cup Range(Looks(d))
      BY <1>1, <2>0, RangeOfJoin
    <3>2. s \in Seq(C) /\ Range(s) = Range(Looks(l)) \cup Range(r) /\ Range(s) \subseteq C
      BY <1>1, <2>1, <3>1, RangeOfJoin
    <3> QED
      BY <3>1, <3>2
  <2>3. s = Looks(l) \o LooksAfter(l) \o Looks(d)
    <3>1. \A t \in Seq(C), u \in Seq(C), v \in Seq(C) : t \o (u \o v) = t \o u \o v
      OBVIOUS
    <3> QED
      BY <1>1, <2>0, <2>1, <3>1
  <2>4. PICK h : h = [darken |-> s, blacken |-> NULL, then |-> then]
    OBVIOUS
  <2>5. h \in Hooks(K) /\ h.darken = s /\ h.blacken = NULL /\ h.then = then
    BY <1>0, <1>2, <2>2, <2>4 DEF Hooks, OrNull
  <2>6. Goes(h)
    BY <1>4, <2>3, <2>4 DEF PushHook, Hook
  <2> QED
    BY <1>0, <1>1, <1>4, <2>2, <2>5, <2>6 DEF OrNull, LooksAt
<1> QED
  BY <1>3, <1>4

(* A list that is pushed to or popped from hangs on a stack, or a local is *)
(* about it.                                                               *)
LEMMA LocalsComing ==
  ASSUME NEW K, NEW o, NEW c, Shape(K, o, c), CollectorInRange, NEW S \in SUBSET K, Tri(K, S, c)
  PROVE  /\ loc.ds \in Coming(S) /\ loc.cs \in Coming(S)
         /\ \A e \in c.loc : loc[e[1]] \in Coming(S)
<1>1. Marked(S) \subseteq Coming(S) /\ Pending \subseteq Coming(S)
  BY Hulls
<1> QED
  BY <1>1 DEF Tri, RootsDone, LocalsDone

LEMMA PushComing ==
  ASSUME NEW K, NEW o, NEW c, Shape(K, o, c), CollectorInRange, NEW S \in SUBSET K, Tri(K, S, c),
         todo # <<>>, mpc # "unlink_last", now.op \in Pushes
  PROVE  P \in Coming(S) /\ X \in Coming(S)
<1>1. PICK d : TypedPush(now, c, d)
  BY TypedNow, TypedAs DEF Shape
<1>2. /\ loc.ds \in Coming(S) /\ loc.cs \in Coming(S)
      /\ \A e \in c.loc : loc[e[1]] \in Coming(S)
  BY LocalsComing
<1>3. X \in Coming(S)
  <2>1. PICK e \in c.loc : e[1] = now.x
    BY <1>1 DEF TypedPush, Names
  <2> QED
    BY <1>2, <2>1 DEF X
<1>4. P \in Coming(S)
  <2>1. now.p \in {"ds", "cs"} \/ <<now.p, "list">> \in c.loc
    BY <1>1 DEF TypedPush, Is
  <2>2. CASE <<now.p, "list">> \in c.loc
    <3>1. <<now.p, "list">>[1] = now.p
      OBVIOUS
    <3> QED
      BY <1>2, <2>2, <3>1 DEF P
  <2> QED
    BY <1>2, <2>1, <2>2 DEF P
<1> QED
  BY <1>3, <1>4

LEMMA StartPushMarks ==
  ASSUME NEW K, NEW o, NEW c, Shape(K, o, c), CollectorInRange, NEW S \in SUBSET K, Tri(K, S, c), StartPush
  PROVE  Tri(K, S, c)'
<1>1. /\ mpc = "op" /\ todo # <<>> /\ now.op \in Pushes /\ PushHook(P, X, "alloc")
      /\ UNCHANGED <<heap, node, cpc, chunk, scan, pass, black, white, registers, loc, bindings>>
  BY DEF StartPush, In, At, AllocatorIdle, collectorVars, Pushes
<1>2. P \in Coming(S) /\ X \in Coming(S)
  BY <1>1, PushComing
<1>3. Coming(S) \in SUBSET K /\ K \subseteq Addr /\ AllClosed(heap, Coming(S))
  BY Hulls, Known
<1>4. PICK h \in Hooks(K) :
           /\ Goes(h) /\ h.then = "alloc" /\ Range(h.darken) \subseteq Coming(S) /\ h.blacken \in OrNull(Coming(S))
           /\ P \in Marked(S) \cup Range(h.darken)
           /\ X \in Marked(S) \cup Range(h.darken) \cup {h.blacken}
           /\ h.blacken # NULL => heap[h.blacken].colour = green
           /\ h.blacken # NULL /\ heap[h.blacken].type \in {"list", "node"} =>
                /\ heap[h.blacken].a \in OrNull(Marked(S) \cup Range(h.darken))
                /\ heap[h.blacken].b \in OrNull(Marked(S) \cup Range(h.darken))
  <2>1. Ranges /\ SwapInv /\ Done(K, S)
    BY DEF Shape, Tri
  <2>2. "alloc" \in {"alloc", "unlink", "last"}
    OBVIOUS
  <2>3. PICK C : C = Coming(S)
    OBVIOUS
  <2>4. LooksAt(K, S, C, P, X, "alloc")
    BY <1>1, <1>2, <1>3, <2>1, <2>2, <2>3, PushHookLooks
  <2> QED
    BY <2>3, <2>4 DEF LooksAt
<1>5. /\ todo' = todo
      /\ \/ mpc' = "hook" /\ hook' = h
         \/ mpc' = h.then /\ hook' = NoHook /\ h.darken = <<>> /\ h.blacken = NULL
  BY <1>4 DEF Goes, Stay
<1>6. PICK L : L = Marked(S) \cup Range(h.darken) \cup {h.blacken}
  OBVIOUS
<1>7. Shape(K, o, c)' => Tri(K, S, c)'
  BY <1>1, <1>4, <1>5, <1>6, HookBegins
<1> QED
  BY <1>7, StartsKeep

LEMMA LinkHookMarks ==
  ASSUME NEW K, NEW o, NEW c, Shape(K, o, c), CollectorInRange, NEW S \in SUBSET K, Tri(K, S, c), LinkHook
  PROVE  Tri(K, S, c)'
<1>1. /\ mpc = "link_hook" /\ todo # <<>> /\ PushHook(P, node, "last")
      /\ UNCHANGED <<heap, node, cpc, chunk, scan, pass, black, white, registers, loc, bindings>>
  BY DEF LinkHook, At, AllocatorIdle, collectorVars
<1>2. P \in Coming(S) /\ node \in Coming(S)
  <2>1. Marked(S) \subseteq Coming(S)
    BY Hulls
  <2> QED
    BY <1>1, <2>1 DEF Tri, PushDone, Linking
<1>3. Coming(S) \in SUBSET K /\ K \subseteq Addr /\ AllClosed(heap, Coming(S))
  BY Hulls, Known
<1>4. PICK h \in Hooks(K) :
           /\ Goes(h) /\ h.then = "last" /\ Range(h.darken) \subseteq Coming(S) /\ h.blacken \in OrNull(Coming(S))
           /\ node \in Marked(S) \cup Range(h.darken) \cup {h.blacken}
           /\ h.blacken # NULL => heap[h.blacken].colour = green
           /\ heap[node].colour = green => h.blacken = node
           /\ h.blacken # NULL /\ heap[h.blacken].type \in {"list", "node"} =>
                /\ heap[h.blacken].a \in OrNull(Marked(S) \cup Range(h.darken))
                /\ heap[h.blacken].b \in OrNull(Marked(S) \cup Range(h.darken))
  <2>1. Ranges /\ SwapInv /\ Done(K, S)
    BY DEF Shape, Tri
  <2>2. "last" \in {"alloc", "unlink", "last"}
    OBVIOUS
  <2>3. PICK C : C = Coming(S)
    OBVIOUS
  <2>4. LooksAt(K, S, C, P, node, "last")
    BY <1>1, <1>2, <1>3, <2>1, <2>2, <2>3, PushHookLooks
  <2> QED
    BY <2>3, <2>4 DEF LooksAt
<1>5. /\ todo' = todo
      /\ \/ mpc' = "hook" /\ hook' = h
         \/ mpc' = h.then /\ hook' = NoHook /\ h.darken = <<>> /\ h.blacken = NULL
  BY <1>4 DEF Goes, Stay
<1>6. PICK L : L = Marked(S) \cup Range(h.darken) \cup {h.blacken}
  OBVIOUS
<1>7. Shape(K, o, c)' => Tri(K, S, c)'
  BY <1>1, <1>4, <1>5, <1>6, HookBegins
<1> QED
  BY <1>7, StartsKeep

(* What a pop finds in the list *)
LEMMA PopFinds ==
  ASSUME NEW K, NEW o, NEW c, Shape(K, o, c), todo # <<>>, mpc # "unlink_last", ~ Linking,
         now.op \in {"pop_to_register", "pop_front"}
  PROVE  /\ P \in Lists(K) /\ P \in K
         /\ (heap[P].a = NULL <=> heap[P].b = NULL) /\ (IsEmpty(P) <=> heap[P].a = NULL)
         /\ heap[P].a # NULL => heap[P].a \in Nodes(K) /\ heap[heap[P].a].a \in Values(K)
<1> USE DEF Shape
<1>1. P \in Lists(K)
  BY PopKnown
<1>2. LastOf(P) = heap[P].b
  BY DEF LastOf
<1>3. heap[P].a = NULL <=> heap[P].b = NULL
  BY <1>1, <1>2 DEF Owned
<1> QED
  BY <1>1, <1>3 DEF Words, OrNull, IsEmpty, EmptyIn, Lists

LEMMA StartPopMarks ==
  ASSUME NEW K, NEW o, NEW c, Shape(K, o, c), CollectorInRange, NEW S \in SUBSET K, Tri(K, S, c), StartPop
  PROVE  Tri(K, S, c)'
<1>1. /\ mpc = "op" /\ todo # <<>> /\ now.op = "pop_to_register" /\ PopHook(P, "unlink")
      /\ UNCHANGED <<heap, node, cpc, chunk, scan, pass, black, white, registers, loc, bindings>>
  BY DEF StartPop, In, At, AllocatorIdle, collectorVars
<1>2. ~ Linking /\ K \subseteq Addr /\ NULL \notin Addr
  BY <1>1, Known DEF Linking, Hooking
<1>3. PICK d : TypedPop(now, c, d)
  BY <1>1, TypedNow, TypedAs DEF Shape
<1>4. c.weak = {}
  BY <1>3 DEF TypedPop
<1>5. /\ P \in Lists(K) /\ (IsEmpty(P) <=> heap[P].a = NULL)
      /\ heap[P].a # NULL => heap[P].a \in Nodes(K) /\ heap[heap[P].a].a \in Values(K)
  BY <1>1, <1>2, PopFinds
<1>6. P \in Coming(S)
  <2>1. now.p \in {"ds", "cs"} \/ <<now.p, "list+">> \in c.loc
    BY <1>3 DEF TypedPop, Is
  <2>2. CASE <<now.p, "list+">> \in c.loc
    <3>1. <<now.p, "list+">>[1] = now.p
      OBVIOUS
    <3> QED
      BY <2>2, <3>1, LocalsComing DEF P
  <2> QED
    BY <2>1, <2>2, LocalsComing DEF P
<1>7. heap[P].a # NULL => heap[heap[P].a].a \in Coming(S)
  BY <1>2, <1>5, <1>6, Hulls DEF AllClosed, OrNull, Lists, Nodes, Values
<1>8. Coming(S) \in SUBSET K
  BY Hulls
<1>9. PICK s : s = IF heap[P].a = NULL THEN <<>> ELSE Looks(heap[heap[P].a].a)
  OBVIOUS
<1>10. s \in Seq(Coming(S)) /\ (heap[P].a # NULL => heap[heap[P].a].a \in Marked(S) \cup Range(s))
  <2>1. CASE heap[P].a = NULL
    BY <1>9, <2>1
  <2>2. CASE heap[P].a # NULL
    <3>1. heap[heap[P].a].a \in OrNull(Coming(S)) /\ heap[heap[P].a].a # NULL
      BY <1>2, <1>5, <1>7, <2>2 DEF OrNull, Values
    <3>2. Coming(S) \in SUBSET Addr
      BY <1>2, <1>8
    <3>3. /\ Looks(heap[heap[P].a].a) \in Seq(Coming(S))
          /\ heap[heap[P].a].a \in OrNull(Marked(S) \cup Range(Looks(heap[heap[P].a].a)))
      BY <3>1, <3>2, LooksMark DEF Shape, Tri
    <3> QED
      BY <1>9, <2>2, <3>1, <3>3 DEF OrNull
  <2> QED
    BY <2>1, <2>2
<1>11. PICK h : h = [darken |-> s, blacken |-> NULL, then |-> "unlink"]
  OBVIOUS
<1>12. /\ h \in Hooks(K) /\ h.darken = s /\ h.blacken = NULL /\ h.then = "unlink" /\ NULL \in OrNull(Coming(S))
       /\ Range(h.darken) \subseteq Coming(S)
  <2>1. s \in Seq(K)
    BY <1>8, <1>10
  <2>2. Range(s) \subseteq Coming(S)
    <3>1. \A u \in Seq(Coming(S)) : Range(u) \subseteq Coming(S)
      BY DEF Range
    <3> QED
      BY <1>10, <3>1
  <2> QED
    BY <1>11, <2>1, <2>2 DEF Hooks, OrNull
<1>13. Goes(h)
  BY <1>1, <1>5, <1>9, <1>11 DEF PopHook, Hook
<1>14. /\ todo' = todo
       /\ \/ mpc' = "hook" /\ hook' = h
          \/ mpc' = h.then /\ hook' = NoHook /\ h.darken = <<>> /\ h.blacken = NULL
  BY <1>12, <1>13 DEF Goes, Stay
<1>15. PICK L : L = Marked(S) \cup Range(h.darken) \cup {h.blacken}
  OBVIOUS
<1>16. heap[P].a # NULL => heap[heap[P].a].a \in L
  BY <1>10, <1>12, <1>15
<1>17. Shape(K, o, c)' => Tri(K, S, c)'
  BY <1>1, <1>4, <1>12, <1>14, <1>15, <1>16, HookBegins
<1> QED
  BY <1>17, StartsKeep

-----------------------------------------------------------------------------
(* Steps of the mutator that leave the heap as it is, outside a hook       *)

LEMMA RootLength ==
  ASSUME NEW x, NEW y, NEW b
  PROVE  Len(<<x, y>> \o [k \in 1 .. Cardinality(Symbol) |-> b[k - 1]]) = Cardinality(Symbol) + 2
<1> DEFINE n == Cardinality(Symbol)
           v == [k \in 1 .. n |-> b[k - 1]]
           T == {x, y} \cup {b[k - 1] : k \in 1 .. n}
           u == <<x, y>>
<1>1. n \in Nat
  BY SymbolAssumption, FS_CardinalityType
<1> HIDE DEF n
<1>2. v \in [1 .. n -> T]
  OBVIOUS
<1>3. u \in Seq(T) /\ Len(u) = 2
  OBVIOUS
<1> HIDE DEF T, u, v
<1>4. v \in Seq(T) /\ Len(v) = n
  BY <1>1, <1>2
<1>5. Len(u \o v) = Len(v) + 2
  BY <1>3, <1>4, PairBefore
<1> QED
  BY <1>4, <1>5 DEF u, v, n

LEMMA InRangeStays ==
  ASSUME CollectorInRange, UNCHANGED <<cpc, chunk, scan, pass>>
  PROVE  CollectorInRange'
<1>1. Len(RootChunks) = Cardinality(Symbol) + 2
  BY RootLength DEF RootChunks
<1>2. Len(RootChunks)' = Cardinality(Symbol) + 2
  BY RootLength DEF RootChunks
<1> QED
  BY <1>1, <1>2 DEF CollectorInRange, Addr, ScanPasses

LEMMA QuietMarks ==
  ASSUME NEW K, NEW o, NEW c, Shape(K, o, c), CollectorInRange, NEW S \in SUBSET K, Tri(K, S, c),
         UNCHANGED <<heap, node, hook, cpc, chunk, scan, pass, black, white>>,
         ~ Hooking, ~ Hooking', mpc \notin {"link", "link_hook"},
         NEW d, RootsDone(S)', LocalsDone(S, d)', PushDone(S)', PopDone(S)'
  PROVE  Tri(K, S, d)'
<1>1. /\ Addr' = Addr /\ Grey' = Grey /\ Marked(S)' = Marked(S) /\ Unsettled(S)' = Unsettled(S)
      /\ InWork' = InWork /\ Ahead' = Ahead /\ Greys' = Greys /\ Along(S)' = Along(S)
  BY DEF Addr, Grey, Marked, Greys, Unsettled, InWork, Ahead, Between, Along
<1>2. \A x : FirstDone(S, x)' = FirstDone(S, x) /\ SecondDone(S, x)' = SecondDone(S, x) /\ ~ Weak(S, x)
  BY <1>1 DEF FirstDone, SecondDone, Weak, Awaited
<1>3. Done(K, S)'
  BY <1>1, <1>2 DEF Done, Tri
<1>4. AtWork(S)'
  BY <1>1, <1>2 DEF AtWork, Tri
<1>5. HooksDone(S)'
  BY DEF HooksDone
<1>6. Passes(S)'
  BY <1>1 DEF Passes, Tri
<1> QED
  BY <1>3, <1>4, <1>5, <1>6 DEF Tri

(* What the mutator keeps in the registers while it waits *)
LEMMA AskMarks ==
  ASSUME NEW K, NEW o, NEW c, Shape(K, o, c), CollectorInRange, NEW S \in SUBSET K, Tri(K, S, c),
         RunOut \/ Resume \/ Retry \/ GiveUp
  PROVE  Tri(K, S, c)'
<1>1. /\ UNCHANGED <<heap, node, hook, cpc, chunk, scan, pass, black, white, loc, bindings, todo>>
      /\ mpc \in {"op", "alloc", "granted"} /\ mpc' \in {"await", "alloc", "granted"} /\ todo # <<>>
  BY DEF RunOut, Resume, Retry, GiveUp, Allocating, In, At, Stay, shared, collectorVars, opVars
<1>2. ~ Hooking /\ ~ Hooking' /\ Marked(S)' = Marked(S) /\ now' = now /\ P' = P /\ X' = X /\ Pending' = Pending
      /\ ~ Linking' /\ ~ Early'
  BY <1>1 DEF Hooking, Marked, Grey, Greys, Addr, now, P, X, Pending, RootChunks, Linking, Early
<1>3. now.op \in {"new"} \cup Pushes /\ (mpc = "op" => now.op = "new")
  <2>1. CASE mpc = "op"
    <3>1. Allocating
      BY <1>1, <2>1 DEF RunOut, Resume, Retry, GiveUp, At
    <3> QED
      BY <2>1, <3>1, AtAllocation
  <2>2. CASE mpc \in {"alloc", "granted"}
    <3>1. now.op \in {"new", "new_block"} \cup Pushes
      BY <2>2 DEF Shape, Control
    <3>2. now.op # "new_block"
      <4>1. SUFFICES ASSUME now.op = "new_block" PROVE FALSE
        OBVIOUS
      <4>2. PICK d : TypedNewBlock(Plain, now, c, d)
        BY <1>1, <2>2, <4>1, TypedNow, TypedAs DEF Shape
      <4>3. <<now.p, "code">> \in c.loc
        BY <4>2 DEF TypedNewBlock, Plain
      <4> QED
        BY <4>3 DEF Shape, Knows, KnowsLocals, IsA, Ranges, Types, Values, Words
    <3> QED
      BY <2>2, <3>1, <3>2
  <2> QED
    BY <1>1, <2>1, <2>2
<1>4. mpc = "op" => c.loc = {}
  <2> SUFFICES ASSUME mpc = "op" PROVE c.loc = {}
    OBVIOUS
  <2>1. PICK d : TypedNew(Plain, now, c, d)
    BY <1>1, <1>3, TypedNow, TypedAs DEF Shape
  <2> QED
    BY <2>1 DEF TypedNew
<1>5. LocalsDone(S, c)'
  BY <1>1, <1>2, <1>4 DEF LocalsDone, Tri, Early
<1>6. now.op \in Pushes => P \in Marked(S) /\ X \in Marked(S)
  BY <1>1, <1>3 DEF Tri, PushDone, Pushes
<1>7. PushDone(S)' /\ PopDone(S)'
  BY <1>1, <1>2, <1>6 DEF PushDone, PopDone
<1>8. \A k \in 1 .. Len(registers') : registers'[k] \in Marked(S)
  <2>0. registers \in Seq(Marked(S))
    <3>1. registers \in Seq(K) /\ \A k \in 1 .. Len(registers) : registers[k] \in Marked(S)
      BY DEF Tri, RootsDone, Shape, Roots0
    <3> QED
      BY <3>1
  <2>1. Held \in Seq(Marked(S))
    <3>1. Held = <<>> \/ (now.op \in Pushes /\ Held = <<P, X>>)
      BY <1>1, <1>3, HeldKnown DEF Shape
    <3>2. CASE Held = <<>>
      BY <3>2
    <3>3. CASE now.op \in Pushes /\ Held = <<P, X>>
      <4>1. P \in Marked(S) /\ X \in Marked(S)
        BY <1>6, <3>3
      <4> QED
        BY <3>3, <4>1
    <3> QED
      BY <3>1, <3>2, <3>3
  <2>2. registers' \in Seq(Marked(S))
    <3>1. CASE RunOut
      BY <2>0, <2>1, <3>1 DEF RunOut
    <3>2. CASE Resume
      <4>1. Len(registers) - Len(Held) \in 0 .. Len(registers)
        <5>1. Len(registers) = Len(c.regs) + Len(InRegisters) /\ mpc = "granted" /\ c.regs \in Seq(Kept)
          BY <3>2 DEF Resume, At, Shape, Knows, KnowsRegisters
        <5>2. InRegisters = Held
          BY <5>1 DEF InRegisters
        <5> QED
          BY <2>0, <2>1, <5>1, <5>2
      <4>2. registers' = SubSeq(registers, 1, Len(registers) - Len(Held))
        BY <3>2 DEF Resume
      <4> QED
        BY <2>0, <4>1, <4>2, CutFacts
    <3>3. CASE Retry \/ GiveUp
      BY <2>0, <3>3 DEF Retry, GiveUp
    <3> QED
      BY <3>1, <3>2, <3>3
  <2> QED
    BY <2>2
<1>9. RootsDone(S)'
  BY <1>1, <1>2, <1>8 DEF RootsDone, Tri, Unseen
<1> QED
  BY <1>1, <1>2, <1>5, <1>7, <1>9, QuietMarks

LEMMA RootsFirst ==
  ASSUME NEW x, NEW y, NEW b
  PROVE  /\ (<<x, y>> \o [k \in 1 .. Cardinality(Symbol) |-> b[k - 1]])[1] = x
         /\ (<<x, y>> \o [k \in 1 .. Cardinality(Symbol) |-> b[k - 1]])[2] = y
<1> DEFINE n == Cardinality(Symbol)
           v == [k \in 1 .. n |-> b[k - 1]]
           T == {x, y} \cup {b[k - 1] : k \in 1 .. n}
           u == <<x, y>>
<1>1. n \in Nat
  BY SymbolAssumption, FS_CardinalityType
<1> HIDE DEF n
<1>2. v \in [1 .. n -> T]
  OBVIOUS
<1>3. u \in Seq(T) /\ Len(u) = 2 /\ u[1] = x /\ u[2] = y
  OBVIOUS
<1> HIDE DEF T, u, v
<1>4. v \in Seq(T)
  BY <1>1, <1>2
<1>5. (u \o v)[1] = u[1] /\ (u \o v)[2] = u[2]
  BY <1>3, <1>4, PairBefore
<1> QED
  BY <1>3, <1>5 DEF u, v, n

LEMMA AssignMarks ==
  ASSUME NEW K, NEW o, NEW c, Shape(K, o, c), NEW S, LocalsDone(S, c), c.weak = {}, Marked(S)' = Marked(S),
         Coming(S)' = Coming(S), Early',
         NEW v, loc' = [y \in DOMAIN loc \cup {now.x} |-> IF y = now.x THEN v ELSE loc[y]],
         NEW d, NEW kind, Assigns(now, kind, c, d),
         v \in Marked(S) \/ (d.weak = {now.x} /\ v \in Coming(S))
  PROVE  LocalsDone(S, d)'
<1> SUFFICES ASSUME NEW e \in d.loc
             PROVE  \/ loc'[e[1]] \in Marked(S)
                    \/ e[1] \in d.weak /\ loc'[e[1]] \in Coming(S)
  BY DEF LocalsDone
<1>1. CASE e = <<now.x, kind>>
  <2>1. e[1] = now.x /\ loc'[e[1]] = v
    BY <1>1
  <2> QED
    BY <2>1
<1>2. CASE e \in c.loc /\ e[1] # now.x
  <2>1. loc'[e[1]] = loc[e[1]]
    BY <1>2 DEF Shape, Knows, KnowsLocals
  <2> QED
    BY <1>2, <2>1 DEF LocalsDone
<1> QED
  BY <1>1, <1>2 DEF Assigns

LEMMA FetchMarks ==
  ASSUME NEW K, NEW o, NEW c, Shape(K, o, c), CollectorInRange, NEW S \in SUBSET K, Tri(K, S, c), Fetch,
         NEW d, Typed(Plain, now, c, d)
  PROVE  Tri(K, S, d)'
<1>1. /\ UNCHANGED <<heap, bindings, hook, node, cpc, chunk, scan, pass, black, white>> /\ mpc = "op" /\ mpc' = "op"
      /\ todo # <<>> /\ todo' = Tail(todo) /\ Assign(now.x, Fetched)
      /\ registers' = IF now.op = "pop_register" THEN Front(registers) ELSE registers
  BY DEF Fetch, In, At, Finish, AllocatorIdle, collectorVars
<1>2. now.op \in {"pop_register", "front", "dereference"}
  BY <1>1, NextOperation DEF Fetch, In, Pushes, Shape
<1>3. c.weak = {} /\ now.x \notin Stacks
  BY <1>2, TypedAs DEF TypedPopRegister, TypedFront, TypedDereference, Assigns, OwnLocal
<1>4. /\ SameStacks
      /\ loc' = [y \in DOMAIN loc \cup {now.x} |-> IF y = now.x THEN Fetched ELSE loc[y]]
  <2> Roots0(K)
    BY DEF Shape
  <2> QED
    BY <1>1, <1>3 DEF Assign, SameStacks, Stacks, Roots0
<1>5. /\ Marked(S)' = Marked(S) /\ Coming(S)' = Coming(S) /\ Early' /\ ~ Hooking /\ ~ Hooking' /\ ~ Linking'
      /\ Pending' = Pending
  BY <1>1, <1>4 DEF Marked, Grey, Greys, Addr, Coming, Pending, RootChunks, Early, Hooking, Linking, SameStacks
<1>6. registers \in Seq(Marked(S))
  <2>1. registers \in Seq(K) /\ \A k \in 1 .. Len(registers) : registers[k] \in Marked(S)
    BY DEF Tri, RootsDone, Shape, Roots0
  <2> QED
    BY <2>1
<1>7. KnowsLocals(K, c) /\ KnowsRegisters(K, c) /\ KnowsBound(K, c) /\ KnowsItems(c) /\ ~ c.code
  BY <1>1 DEF Knows, Linking, Hooking, Shape
<1>8. now.op = "pop_register" => Len(registers) >= 1
  <2> SUFFICES ASSUME now.op = "pop_register" PROVE Len(registers) >= 1
    OBVIOUS
  <2>1. PICK kind : Gives(c, d, kind)
    BY TypedAs DEF TypedPopRegister
  <2>2. Len(c.regs) \in Nat /\ Len(c.regs) >= 1
    BY <2>1, GivesFacts
  <2>3. Len(registers) = Len(c.regs) + Len(InRegisters) /\ InRegisters = <<>>
    BY <1>1, <1>7 DEF KnowsRegisters, InRegisters
  <2> QED
    BY <2>2, <2>3
<1>9. RootsDone(S)'
  <2>1. registers' \in Seq(Marked(S))
    BY <1>1, <1>6, <1>8, LastFacts
  <2>2. \A k \in 1 .. Len(registers') : registers'[k] \in Marked(S)
    BY <2>1
  <2> QED
    BY <1>1, <1>4, <1>5, <2>2 DEF RootsDone, Tri, Unseen, SameStacks
<1>10. LocalsDone(S, d)'
  <2>1. CASE now.op = "pop_register"
    <3>1. PICK kind : Assigns(now, kind, c, d)
      BY <2>1, TypedAs DEF TypedPopRegister
    <3>2. Fetched = Last(registers) /\ Last(registers) = registers[Len(registers)]
      BY <1>6, <1>8, <2>1, LastFacts DEF Fetched
    <3>3. Fetched \in Marked(S)
      <4>1. Len(registers) \in 1 .. Len(registers)
        BY <1>6, <1>8, <2>1
      <4> QED
        BY <1>6, <3>2, <4>1
    <3> QED
      BY <1>3, <1>4, <1>5, <3>1, <3>3, AssignMarks DEF Tri
  <2>2. CASE now.op = "front"
    <3>1. now.p = "ds" /\ c.top # <<>> /\ Assigns(now, Head(c.top), c, d) /\ d.weak = {now.x}
      BY <1>7, <2>2, TypedAs DEF TypedFront
    <3>2. KnowsItem(Item1, c.top[1])
      BY <1>7, <3>1 DEF KnowsItems
    <3>3. Fetched = heap[Item1].a
      BY <2>2, <3>1 DEF Fetched, Item1, P
    <3>4. Item1 \in Nodes(K) /\ loc.ds \in Lists(K) /\ heap[Item1].a # NULL
      <4>1. loc.ds \in Lists(K) /\ Item1 \in Nodes(K)
        BY <3>2 DEF Item1, KnowsItem, Words, Roots0, OrNull, Shape
      <4> QED
        BY <4>1, Known DEF Words, Values, Shape
    <3>5. Item1 \in Coming(S)
      BY <3>2, <3>4, LocalsComing, Hulls DEF AllClosed, Item1, KnowsItem, OrNull, Lists
    <3>6. Fetched \in Coming(S)
      BY <3>3, <3>4, <3>5, Hulls DEF AllClosed, OrNull, Nodes
    <3> QED
      BY <1>3, <1>4, <1>5, <3>1, <3>6, AssignMarks DEF Tri
  <2>3. CASE now.op = "dereference"
    <3>1. PICK kind : <<now.v, kind>> \in c.bound /\ Assigns(now, kind, c, d) /\ d.weak = {now.x}
      BY <2>3, TypedAs DEF TypedDereference
    <3>2. Fetched = bindings[now.v] /\ now.v \in Symbol /\ bindings[now.v] \in Values(K)
      BY <1>7, <2>3, <3>1 DEF Fetched, KnowsBound
    <3>3. bindings[now.v] \in Coming(S)
      <4>1. Marked(S) \subseteq Coming(S) /\ Pending \subseteq Coming(S) /\ bindings[now.v] # NULL
        BY <3>2, Hulls, Known DEF Values
      <4>2. bindings[now.v] \in Marked(S) \/ Unseen(now.v)
        BY <3>2, <4>1 DEF Tri, RootsDone, OrNull
      <4>3. Unseen(now.v) => bindings[now.v] \in Pending
        <5>1. /\ Len(RootChunks) \in Nat
              /\ now.v + 3 \in 3 .. Len(RootChunks) /\ RootChunks[now.v + 3] = bindings[now.v]
          BY <3>2, RootList DEF Shape
        <5>2. Unseen(now.v) => cpc = "root" /\ now.v + 3 \in scan + 1 .. Len(RootChunks)
          BY <5>1 DEF Unseen, CollectorInRange
        <5> QED
          BY <4>1, <5>1, <5>2 DEF Pending
      <4> QED
        BY <4>1, <4>2, <4>3
    <3> QED
      BY <1>3, <1>4, <1>5, <3>1, <3>2, <3>3, AssignMarks DEF Tri
  <2> QED
    BY <1>2, <2>1, <2>2, <2>3
<1>11. PushDone(S)' /\ PopDone(S)'
  BY <1>1, <1>5 DEF PushDone, PopDone
<1> QED
  BY <1>1, <1>5, <1>9, <1>10, <1>11, QuietMarks

LEMMA KeepMarks ==
  ASSUME NEW K, NEW o, NEW c, Shape(K, o, c), CollectorInRange, NEW S \in SUBSET K, Tri(K, S, c), Keep,
         NEW d, Typed(Plain, now, c, d)
  PROVE  Tri(K, S, d)'
<1>1. /\ UNCHANGED <<heap, bindings, hook, node, cpc, chunk, scan, pass, black, white, loc>> /\ mpc = "op" /\ mpc' = "op"
      /\ todo # <<>> /\ now.op \in {"push_register", "release"}
      /\ registers' = IF now.op = "release" THEN Front(registers) ELSE Append(registers, P)
  BY DEF Keep, In, At, Finish, AllocatorIdle, collectorVars
<1>2. KnowsLocals(K, c) /\ KnowsRegisters(K, c)
  BY DEF Knows, Shape
<1>3. c.weak = {} /\ d.loc \subseteq c.loc /\ (now.op = "push_register" => \E kind : <<now.p, kind>> \in c.loc)
  <2>1. CASE now.op = "push_register"
    <3>1. TypedKeep(now, c, d)
      BY <2>1, TypedAs
    <3>2. ~ Is(c, now.p, "block")
      BY <1>2, NoBlock DEF Shape
    <3> QED
      BY <2>1, <3>1, <3>2 DEF TypedKeep, Is
  <2>2. CASE now.op = "release"
    BY <2>2, TypedAs DEF TypedRelease
  <2> QED
    BY <1>1, <2>1, <2>2
<1>4. /\ Marked(S)' = Marked(S) /\ ~ Hooking /\ ~ Hooking' /\ ~ Linking' /\ Pending' = Pending
  BY <1>1 DEF Marked, Grey, Greys, Addr, Pending, RootChunks, Hooking, Linking
<1>5. \A e \in c.loc : loc[e[1]] \in Marked(S)
  BY <1>3 DEF Tri, LocalsDone
<1>6. registers \in Seq(Marked(S))
  <2>1. registers \in Seq(K) /\ \A k \in 1 .. Len(registers) : registers[k] \in Marked(S)
    BY DEF Tri, RootsDone, Shape, Roots0
  <2> QED
    BY <2>1
<1>7. registers' \in Seq(Marked(S))
  <2>1. CASE now.op = "push_register"
    <3>1. PICK kind : <<now.p, kind>> \in c.loc
      BY <1>3, <2>1
    <3>2. <<now.p, kind>>[1] = now.p
      OBVIOUS
    <3>3. P \in Marked(S)
      BY <1>5, <3>1, <3>2 DEF P
    <3> QED
      BY <1>1, <1>6, <2>1, <3>3
  <2>2. CASE now.op = "release"
    <3>1. PICK kind : Gives(c, d, kind)
      BY <2>2, TypedAs DEF TypedRelease
    <3>2. Len(c.regs) \in Nat /\ Len(c.regs) >= 1
      BY <3>1, GivesFacts
    <3>3. Len(registers) = Len(c.regs) + Len(InRegisters) /\ InRegisters = <<>>
      BY <1>1, <1>2 DEF KnowsRegisters, InRegisters
    <3>4. Len(registers) >= 1
      BY <3>2, <3>3
    <3> QED
      BY <1>1, <1>6, <2>2, <3>4, LastFacts
  <2> QED
    BY <1>1, <2>1, <2>2
<1>8. RootsDone(S)'
  <2>1. \A k \in 1 .. Len(registers') : registers'[k] \in Marked(S)
    BY <1>7
  <2> QED
    BY <1>1, <1>4, <2>1 DEF RootsDone, Tri, Unseen
<1>9. LocalsDone(S, d)' /\ PushDone(S)' /\ PopDone(S)'
  BY <1>1, <1>3, <1>4, <1>5 DEF LocalsDone, PushDone, PopDone
<1> QED
  BY <1>1, <1>4, <1>8, <1>9, QuietMarks

LEMMA BindMarks ==
  ASSUME NEW K, NEW o, NEW c, Shape(K, o, c), CollectorInRange, NEW S \in SUBSET K, Tri(K, S, c), BindSymbol,
         NEW d, Typed(Plain, now, c, d), Shape(K, o, d)'
  PROVE  Tri(K, S, d)'
<1>1. /\ UNCHANGED <<heap, registers, hook, node, cpc, chunk, scan, pass, black, white, loc>> /\ mpc = "op" /\ mpc' = "op"
      /\ now.op = "bind" /\ bindings' = [bindings EXCEPT ![heap[P].a] = X]
  BY DEF BindSymbol, In, At, Finish, AllocatorIdle, collectorVars
<1>2. TypedBind(now, c, d)
  BY <1>1, TypedAs
<1>3. Marked(S)' = Marked(S) /\ ~ Hooking /\ ~ Hooking' /\ ~ Linking'
  BY <1>1 DEF Marked, Grey, Greys, Addr, Hooking, Linking
<1>4. \A e \in c.loc : loc[e[1]] \in Marked(S)
  BY <1>2 DEF Tri, LocalsDone, TypedBind
<1>5. X \in Marked(S)
  <2>1. PICK e \in c.loc : e[1] = now.x
    BY <1>2 DEF TypedBind, Names
  <2> QED
    BY <1>4, <2>1 DEF X
<1>6. \A s \in Symbol : bindings'[s] = X \/ bindings'[s] = bindings[s]
  BY <1>1 DEF Shape, Roots0
<1>7. /\ Len(RootChunks) \in Nat /\ Len(RootChunks)' = Len(RootChunks) /\ Len(RootChunks) >= 2
      /\ RootChunks[1] = loc.ds /\ RootChunks[2] = loc.cs /\ RootChunks'[1] = loc.ds /\ RootChunks'[2] = loc.cs
  <2>1. Len(RootChunks) \in Nat /\ RootChunks[1] = loc.ds /\ RootChunks[2] = loc.cs
    BY RootList DEF Shape
  <2>2. Len(RootChunks) = Cardinality(Symbol) + 2 /\ Len(RootChunks)' = Cardinality(Symbol) + 2
    BY RootLength DEF RootChunks
  <2>3. Cardinality(Symbol) \in Nat
    BY SymbolAssumption, FS_CardinalityType
  <2>4. RootChunks'[1] = loc.ds /\ RootChunks'[2] = loc.cs
    BY <1>1, RootsFirst DEF RootChunks
  <2> QED
    BY <2>1, <2>2, <2>3, <2>4
<1>8. \A x \in Pending : x \in {loc.ds, loc.cs} => x \in Pending' \/ x \in Marked(S)
  <2> SUFFICES ASSUME cpc = "root", NEW j \in scan + 1 .. Len(RootChunks), RootChunks[j] # NULL,
                      RootChunks[j] \in {loc.ds, loc.cs}
               PROVE  RootChunks[j] \in Pending' \/ RootChunks[j] \in Marked(S)
    BY DEF Pending
  <2>1. scan \in Nat /\ j \in 1 .. Len(RootChunks)
    BY <1>7 DEF CollectorInRange
  <2>2. CASE j \in {1, 2}
    <3>1. RootChunks'[j] = RootChunks[j]
      BY <1>7, <2>2
    <3> QED
      BY <1>1, <1>7, <3>1 DEF Pending
  <2>3. CASE j > 2
    <3>1. j - 3 \in Symbol /\ (j - 3) + 3 = j
      <4>1. Len(RootChunks) = Cardinality(Symbol) + 2
        BY RootLength DEF RootChunks
      <4> QED
        BY <2>1, <2>3, <4>1, SymbolAssumption, FS_CardinalityType
    <3>2. bindings[j - 3] = RootChunks[j]
      BY <3>1, RootList DEF Shape
    <3>3. bindings[j - 3] \in OrNull(Values(K))
      BY <3>1 DEF Shape, Roots0
    <3> QED
      BY <3>2, <3>3 DEF Values, OrNull
  <2> QED
    BY <2>1, <2>2, <2>3
<1>9. RootsDone(S)'
  <2>1. \A s \in Symbol : bindings'[s] \in OrNull(Marked(S)) \/ Unseen(s)'
    BY <1>1, <1>5, <1>6 DEF Tri, RootsDone, Unseen, OrNull
  <2>2. loc.ds \in Marked(S) \cup Pending' /\ loc.cs \in Marked(S) \cup Pending'
    BY <1>8 DEF Tri, RootsDone
  <2> QED
    BY <1>1, <1>3, <2>1, <2>2 DEF RootsDone, Tri
<1>10. LocalsDone(S, d)' /\ PushDone(S)' /\ PopDone(S)'
  <2>1. d.loc \subseteq c.loc
    BY <1>2 DEF TypedBind
  <2> QED
    BY <1>1, <1>3, <1>4, <2>1 DEF LocalsDone, PushDone, PopDone
<1> QED
  BY <1>1, <1>3, <1>9, <1>10, QuietMarks

LEMMA CallMarks ==
  ASSUME NEW K, NEW o, NEW c, Shape(K, o, c), CollectorInRange, NEW S \in SUBSET K, Tri(K, S, c), Call,
         NEW d, d.loc = {}
  PROVE  Tri(K, S, d)'
<1>1. /\ UNCHANGED <<heap, registers, bindings, hook, node, cpc, chunk, scan, pass, black, white, mpc>>
      /\ todo = <<>> /\ loc' = [x \in {"cs", "ds"} |-> loc[x]]
  BY DEF Call, Idle, collectorVars, shared
<1>2. mpc = "op" /\ loc'.ds = loc.ds /\ loc'.cs = loc.cs
  BY <1>1 DEF Shape, Control
<1>3. Marked(S)' = Marked(S) /\ ~ Hooking /\ ~ Hooking' /\ ~ Linking' /\ Pending' = Pending
  <2>1. UNCHANGED <<heap, registers, bindings, hook, node, cpc, chunk, scan, mpc>>
    BY <1>1
  <2>2. RootChunks' = RootChunks
    BY <1>2, <2>1 DEF RootChunks
  <2> QED
    BY <1>2, <2>1, <2>2 DEF Marked, Grey, Greys, Addr, Hooking, Linking, Pending
<1>4. RootsDone(S)'
  BY <1>1, <1>2, <1>3 DEF RootsDone, Tri, Unseen
<1>5. LocalsDone(S, d)' /\ PushDone(S)' /\ PopDone(S)'
  BY <1>1, <1>2, <1>3 DEF LocalsDone, PushDone, PopDone
<1> QED
  BY <1>1, <1>2, <1>3, <1>4, <1>5, QuietMarks

LEMMA NothingMarks ==
  ASSUME NEW K, NEW S, NEW c, Tri(K, S, c),
         UNCHANGED <<heap, registers, bindings, loc, todo, mpc, hook, node, cpc, chunk, scan, pass, black, white>>
  PROVE  Tri(K, S, c)'
<1>1. /\ Addr' = Addr /\ Grey' = Grey /\ Marked(S)' = Marked(S) /\ Unsettled(S)' = Unsettled(S)
      /\ InWork' = InWork /\ Ahead' = Ahead /\ Greys' = Greys /\ Along(S)' = Along(S)
      /\ Pending' = Pending /\ Hooking' = Hooking /\ Linking' = Linking /\ now' = now /\ P' = P /\ X' = X
  BY DEF Addr, Grey, Marked, Greys, Unsettled, InWork, Ahead, Between, Along, Pending, RootChunks,
         Hooking, Linking, now, P, X
<1>2. Coming(S)' = Coming(S) /\ Early' = Early /\ Awaited' = Awaited /\ Looked(S)' = Looked(S)
  BY <1>1 DEF Coming, Early, Awaited, Looked
<1>3. \A x : /\ FirstDone(S, x)' = FirstDone(S, x) /\ SecondDone(S, x)' = SecondDone(S, x)
             /\ Weak(S, x)' = Weak(S, x)
  BY <1>1, <1>2 DEF FirstDone, SecondDone, Weak
<1>4. Done(K, S)' /\ AtWork(S)'
  BY <1>1, <1>3 DEF Done, AtWork, Tri
<1>5. RootsDone(S)' /\ LocalsDone(S, c)'
  BY <1>1, <1>2 DEF RootsDone, LocalsDone, Unseen, Tri
<1>6. HooksDone(S)'
  BY <1>1, <1>2 DEF HooksDone, Tri
<1>7. PushDone(S)' /\ PopDone(S)' /\ Passes(S)'
  BY <1>1, <1>2 DEF PushDone, PopDone, Passes, Tri
<1> QED
  BY <1>4, <1>5, <1>6, <1>7 DEF Tri

-----------------------------------------------------------------------------
(* Steps of the mutator that write links                                   *)

LEMMA WritesMark ==
  ASSUME NEW K, NEW o, NEW c, Shape(K, o, c), CollectorInRange, NEW S \in SUBSET K, Tri(K, S, c),
         NEW M, NEW T \in SUBSET M, NEW d, K \subseteq M, M \subseteq Addr, S \subseteq T,
         ~ Hooking, ~ Hooking', hook' = hook, UNCHANGED <<cpc, chunk, scan, pass, black, white>>,
         \A i \in Addr : \/ heap'[i].colour = heap[i].colour
                         \/ i \notin K /\ heap'[i].colour = green,
         \A i \in T \ S : heap'[i].colour = green,
         cpc \in {"find", "scan"} /\ chunk = node' => heap'[chunk].colour # green,
         \A x \in T : (FirstDone(T, x)' \/ Weak(T, x)') /\ SecondDone(T, x)',
         InWork => /\ FirstDone(S, chunk) /\ cpc # "first" => FirstDone(T, chunk)'
                   /\ SecondDone(S, chunk) => SecondDone(T, chunk)',
         RootsDone(T)', LocalsDone(T, d)', PushDone(T)', PopDone(T)'
  PROVE  Tri(M, T, d)'
<1>1. /\ Addr' = Addr /\ InWork' = InWork /\ Ahead' = Ahead /\ Greys' = Greys
      /\ white # green /\ black # green /\ K \subseteq Addr /\ Marked(S) \subseteq K
  <2>1. white # green /\ black # green
    BY DEF Shape, SwapInv, Colours, green
  <2> QED
    BY <2>1, Known DEF Addr, InWork, Ahead, Between, Greys
<1>2. Grey' = Grey
  <2>1. \A i \in Addr : heap[i].colour = grey => i \in K
    BY DEF Shape, InHand
  <2> QED
    BY <1>1, <2>1 DEF Grey, grey, green
<1>3. Unsettled(T)' = Unsettled(S)
  <2>1. \A i \in Grey' : i \in T => i \in S
    BY <1>1 DEF Grey, grey, green
  <2> QED
    BY <1>2, <2>1 DEF Unsettled
<1>4. Done(M, T)'
  <2>1. \A i \in T : heap'[i].colour # white
    BY <1>1 DEF Tri, Done
  <2>2. \A i \in Addr : heap'[i].colour = black => i \in T
    BY <1>1 DEF Tri, Done
  <2> QED
    BY <1>1, <2>1, <2>2 DEF Done
<1>5. AtWork(T)'
  <2>1. InWork => heap'[chunk].colour = heap[chunk].colour
    BY <1>1 DEF Shape, InHand
  <2> QED
    BY <1>1, <2>1 DEF AtWork, Tri, InWork
<1>6. HooksDone(T)'
  BY DEF HooksDone
<1>7. Passes(T)'
  <2>1. Marked(S) \subseteq Marked(T)'
    BY <1>1, <1>2 DEF Marked
  <2> QED
    BY <1>1, <1>3, <2>1 DEF Passes, Tri
<1> QED
  BY <1>4, <1>5, <1>6, <1>7 DEF Tri

(* What the links of other chunks say stays true. *)
LEMMA RestDone ==
  ASSUME NEW S, NEW T, Marked(S) \subseteq Marked(T)', Along(S) \subseteq Along(T)',
         NEW x, heap'[x].type = heap[x].type, heap'[x].a = heap[x].a, heap'[x].b = heap[x].b
  PROVE  /\ FirstDone(S, x) => FirstDone(T, x)'
         /\ SecondDone(S, x) => SecondDone(T, x)'
BY DEF FirstDone, SecondDone, OrNull

(* What is marked stays marked, when no colour changes. *)
LEMMA MarkedStays ==
  ASSUME NEW K, NEW S, NEW T, S \subseteq T, InHand(K), UNCHANGED <<cpc, scan>>,
         \A i \in Addr : heap'[i].colour = heap[i].colour \/ i \notin K
  PROVE  Marked(S) \subseteq Marked(T)'
BY DEF Marked, Grey, Greys, InHand, Addr

LEMMA LinkFrontMarks ==
  ASSUME NEW K, NEW o, NEW c, Shape(K, o, c), CollectorInRange, NEW S \in SUBSET K, Tri(K, S, c), LinkFront,
         NEW q, Shape(K, q, c)',
         NEW T, T = IF P \in S \/ (cpc \in {"grey_first", "second", "grey_second", "blacken"} /\ chunk = P)
                    THEN S \cup {node} ELSE S
  PROVE  T \in SUBSET K /\ Tri(K, T, c)'
<1>1. /\ mpc = "link" /\ now.op = "push_front" /\ mpc' = "link_hook" /\ todo' = todo
      /\ heap' = WrittenA(P, node)
      /\ UNCHANGED <<loc, bindings, registers, hook, node, cpc, chunk, scan, pass, black, white>>
  BY DEF LinkFront, In, At, Stay, AllocatorIdle, collectorVars, WrittenA
<1>a. node' = node /\ P' = P /\ chunk' = chunk /\ X' = X
  BY <1>1 DEF P, X, now
<1>2. /\ P \in Lists(K) /\ P \in K /\ node \in Nodes(K) /\ node \in K /\ P # node
      /\ NULL \notin Addr /\ K \subseteq Addr
  BY <1>1, AtLink
<1>3. /\ \A i \in Addr : heap'[i].type = heap[i].type /\ heap'[i].colour = heap[i].colour
                         /\ heap'[i].b = heap[i].b
      /\ \A i \in Addr : heap'[i].a = IF i = P THEN node ELSE heap[i].a
  BY <1>1, WriteA DEF Shape
<1>4. /\ heap[node].colour = green /\ heap[node].a = X /\ heap[node].b = heap[P].a
      /\ heap[node].type = "node" /\ heap[P].type = "list" /\ (InWork => chunk # node)
  BY <1>1, <1>2 DEF Shape, Fresh, Nodes, Lists
<1>5. P \in Marked(S) /\ X \in Marked(S) /\ (P \in S => node \in S)
  BY <1>1 DEF Tri, PushDone, Pushes
<1>6. T \in SUBSET K /\ S \subseteq T /\ T \subseteq S \cup {node}
  BY <1>2
<1>7. Marked(S) \subseteq Marked(T)' /\ Marked(T)' \subseteq K /\ Ranges'
  <2>1. Marked(S) \subseteq Marked(T)'
    BY <1>1, <1>3, <1>6, MarkedStays DEF Shape
  <2>2. Marked(T)' \subseteq K
    BY <1>1, <1>2, <1>3, <1>6, Known DEF Marked, Grey, Greys, Addr
  <2> QED
    BY <2>1, <2>2 DEF Shape
<1>8. Along(S) \subseteq Along(T)'
  <2>1. \A i \in K : heap[i].type = "node" /\ i # node =>
            /\ heap'[i].type = "node" /\ i # node'
            /\ heap'[i].b = heap[i].b \/ heap[i].b = NULL
    BY <1>1, <1>2, <1>3
  <2>2. Marked(T)' \subseteq Addr
    BY <1>2, <1>7
  <2> QED
    BY <1>7, <2>1, <2>2, AlongGrows
<1>9. Marked(T)' \subseteq Along(T)'
  BY <1>2, <1>7, MarkedAlong
<1>10. \A x \in K : x # P => /\ FirstDone(S, x) => FirstDone(T, x)'
                             /\ SecondDone(S, x) => SecondDone(T, x)'
  BY <1>2, <1>3, <1>7, <1>8, RestDone
<1>11. /\ node \in T => FirstDone(T, P)'
       /\ SecondDone(S, P) => SecondDone(T, P)'
  <2>1. node \in T => node \in Along(T)'
    BY <1>9 DEF Marked
  <2> QED
    BY <1>a, <1>2, <1>3, <1>4, <1>7, <2>1 DEF FirstDone, SecondDone, OrNull
<1>12. node \in T => (FirstDone(T, node)' \/ Weak(T, node)') /\ SecondDone(T, node)'
  <2> SUFFICES ASSUME node \in T PROVE (FirstDone(T, node)' \/ Weak(T, node)') /\ SecondDone(T, node)'
    OBVIOUS
  <2>1. SecondDone(T, node)'
    BY <1>a, <1>2, <1>3, <1>4, <1>5, <1>7 DEF SecondDone
  <2>2. heap[node].b \in OrNull(Along(S))
    <3>1. CASE node \in S
      <4>1. FirstDone(S, node) \/ Weak(S, node)
        BY <3>1 DEF Tri, Done
      <4>2. Marked(S) \subseteq Along(S)
        BY Hulls
      <4> QED
        BY <1>4, <4>1, <4>2 DEF FirstDone, Weak, OrNull
    <3>2. CASE node \notin S
      <4>1. FirstDone(S, P)
        BY <1>5, <3>2 DEF Tri, AtWork
      <4> QED
        BY <1>4, <4>1 DEF FirstDone
    <3> QED
      BY <3>1, <3>2
  <2>3. FirstDone(T, node)' \/ Weak(T, node)'
    <3>1. Awaited'
      BY <1>1 DEF Awaited
    <3>2. heap'[node].b \in OrNull(Along(T)') /\ heap'[node].colour = green /\ heap'[node].type = "node"
      BY <1>2, <1>3, <1>4, <1>8, <2>2 DEF OrNull
    <3> QED
      BY <1>1, <3>1, <3>2 DEF FirstDone, Weak, OrNull
  <2> QED
    BY <2>1, <2>3
<1>13. \A x \in T : (FirstDone(T, x)' \/ Weak(T, x)') /\ SecondDone(T, x)'
  <2> SUFFICES ASSUME NEW x \in T PROVE (FirstDone(T, x)' \/ Weak(T, x)') /\ SecondDone(T, x)'
    OBVIOUS
  <2>1. CASE x = node
    BY <1>a, <1>12, <2>1
  <2>2. CASE x # node
    <3>1. x \in S /\ FirstDone(S, x) /\ SecondDone(S, x) /\ x \in K
      BY <1>6, <2>2 DEF Tri, Done, Weak
    <3>2. CASE x = P
      BY <1>a, <1>5, <1>6, <1>11, <3>1, <3>2
    <3>3. CASE x # P
      BY <1>10, <3>1, <3>3
    <3> QED
      BY <3>2, <3>3
  <2> QED
    BY <2>1, <2>2
<1>14. InWork => /\ FirstDone(S, chunk) /\ cpc # "first" => FirstDone(T, chunk)'
                 /\ SecondDone(S, chunk) => SecondDone(T, chunk)'
  <2> SUFFICES ASSUME InWork
               PROVE  /\ FirstDone(S, chunk) /\ cpc # "first" => FirstDone(T, chunk)'
                      /\ SecondDone(S, chunk) => SecondDone(T, chunk)'
    OBVIOUS
  <2>1. chunk \in K
    BY DEF Shape, InHand
  <2>2. CASE chunk = P
    <3>1. cpc # "first" => node \in T
      BY <2>2 DEF InWork
    <3> QED
      BY <1>a, <1>11, <2>2, <3>1
  <2> QED
    BY <1>a, <1>10, <2>1, <2>2
<1>15. ~ Hooking /\ ~ Hooking' /\ Linking' /\ ~ Early /\ now' = now /\ P' = P /\ X' = X /\ Pending' = Pending
  BY <1>1 DEF Hooking, Linking, Early, now, P, X, Pending, RootChunks
<1>16. RootsDone(T)' /\ LocalsDone(T, c)'
  BY <1>1, <1>7, <1>15 DEF Tri, RootsDone, LocalsDone, OrNull, Unseen
<1>17. PushDone(T)' /\ PopDone(T)'
  <2>1. node \in Coming(T)'
    <3>1. Marked(T)' \subseteq Coming(T)' /\ AllClosed(heap', Coming(T)')
      <4>1. Pending \subseteq Addr /\ AllClosed(heap', Addr) /\ Marked(T)' \subseteq Addr
        BY <1>2, <1>7, Known DEF AllClosed, Ranges, Pointer, OrNull, Addr
      <4>2. (Marked(T)' \cup Pending') \in SUBSET Addr /\ Addr' = Addr
        BY <1>15, <4>1 DEF Addr
      <4> QED
        BY <1>2, <4>1, <4>2, AllHullFacts DEF Coming
    <3>2. heap'[P].a = node /\ heap'[P].type = "list" /\ P \in Marked(T)'
      BY <1>2, <1>3, <1>4, <1>5, <1>7
    <3> QED
      BY <1>2, <3>1, <3>2 DEF AllClosed, OrNull
  <2> QED
    BY <1>1, <1>5, <1>7, <1>15, <2>1 DEF PushDone, PopDone
<1>18. cpc \in {"find", "scan"} /\ chunk = node' => heap'[chunk].colour # green
  BY <1>1, <1>3 DEF Tri, Passes, CollectorInRange
<1>19. \A i \in T \ S : heap'[i].colour = green
  BY <1>2, <1>3, <1>4, <1>6
<1>20. Tri(K, T, c)'
  BY <1>1, <1>2, <1>3, <1>6, <1>13, <1>14, <1>15, <1>16, <1>17, <1>18, <1>19, WritesMark
<1> QED
  BY <1>6, <1>20

LEMMA LinkBackMarks ==
  ASSUME NEW K, NEW o, NEW c, Shape(K, o, c), CollectorInRange, NEW S \in SUBSET K, Tri(K, S, c), LinkBack,
         NEW q, Shape(K, q, c)'
  PROVE  Tri(K, S, c)'
<1>1. /\ mpc = "link" /\ now.op = "push_back" /\ mpc' = "last" /\ todo' = todo
      /\ heap' = IF heap[P].a = NULL THEN WrittenA(P, node) ELSE WrittenB(heap[P].b, node)
      /\ UNCHANGED <<loc, bindings, registers, hook, node, cpc, chunk, scan, pass, black, white>>
  BY DEF LinkBack, In, At, Stay, AllocatorIdle, collectorVars, WrittenA, WrittenB
<1>a. node' = node /\ P' = P /\ chunk' = chunk /\ X' = X
  BY <1>1 DEF P, X, now
<1>2. /\ P \in Lists(K) /\ P \in K /\ node \in Nodes(K) /\ node \in K /\ P # node
      /\ NULL \notin Addr /\ K \subseteq Addr /\ LastOf(P) = heap[P].b
  BY <1>1, AtLink
<1>4. /\ heap[node].colour = green /\ heap[node].b = NULL /\ (InWork => chunk # node)
      /\ heap[node].type = "node" /\ heap[P].type = "list"
      /\ \A i \in Lists(K) : heap[i].b # node
  BY <1>1, <1>2 DEF Shape, Fresh, Nodes, Lists
<1>5. P \in Marked(S) /\ node \in S
  BY <1>1 DEF Tri, PushDone, Pushes
<1>6. heap[P].a # NULL => heap[P].b \in Nodes(K) /\ heap[heap[P].b].b = NULL /\ heap[P].b # node
  BY <1>2, <1>4 DEF Shape, Owned
<1>3. /\ \A i \in Addr : heap'[i].type = heap[i].type /\ heap'[i].colour = heap[i].colour
      /\ \A i \in Addr : heap'[i].a = IF i = P /\ heap[P].a = NULL THEN node ELSE heap[i].a
      /\ \A i \in Addr : heap'[i].b = IF i = heap[P].b /\ heap[P].a # NULL THEN node ELSE heap[i].b
  <2>1. CASE heap[P].a = NULL
    BY <1>1, <2>1, WriteA DEF Shape
  <2>2. CASE heap[P].a # NULL
    BY <1>1, <2>2, WriteB DEF Shape
  <2> QED
    BY <2>1, <2>2
<1>7. Marked(S) \subseteq Marked(S)' /\ Marked(S)' \subseteq K /\ Ranges'
  <2>1. Marked(S) \subseteq Marked(S)'
    BY <1>1, <1>3, MarkedStays DEF Shape
  <2>2. Marked(S)' \subseteq K
    BY <1>1, <1>2, <1>3, Known DEF Marked, Grey, Greys, Addr
  <2> QED
    BY <2>1, <2>2 DEF Shape
<1>8. Along(S) \subseteq Along(S)'
  <2>1. \A i \in K : heap[i].type = "node" /\ i # node =>
            /\ heap'[i].type = "node" /\ i # node'
            /\ heap'[i].b = heap[i].b \/ heap[i].b = NULL
    BY <1>1, <1>2, <1>3, <1>6
  <2>2. Marked(S)' \subseteq Addr
    BY <1>2, <1>7
  <2> QED
    BY <1>7, <2>1, <2>2, AlongGrows
<1>9. Marked(S)' \subseteq Along(S)' /\ node \in Marked(S)'
  <2>1. Marked(S)' \subseteq Along(S)'
    BY <1>2, <1>7, MarkedAlong
  <2> QED
    BY <1>5, <1>7, <2>1 DEF Marked
<1>10. \A x \in K : /\ FirstDone(S, x) => FirstDone(S, x)'
                    /\ SecondDone(S, x) => SecondDone(S, x)'
  <2> SUFFICES ASSUME NEW x \in K
               PROVE  /\ FirstDone(S, x) => FirstDone(S, x)'
                      /\ SecondDone(S, x) => SecondDone(S, x)'
    OBVIOUS
  <2>1. /\ heap'[x].type = heap[x].type
        /\ heap'[x].a = IF x = P /\ heap[P].a = NULL THEN node ELSE heap[x].a
        /\ heap'[x].b = IF x = heap[P].b /\ heap[P].a # NULL THEN node ELSE heap[x].b
    BY <1>2, <1>3
  <2>2. CASE x = P
    <3>1. heap'[x].b = heap[x].b /\ heap'[x].a \in {node, heap[x].a} /\ heap[x].type = "list"
      BY <1>2, <1>4, <1>6, <2>1, <2>2 DEF Nodes
    <3> QED
      BY <1>7, <1>8, <1>9, <2>1, <3>1 DEF FirstDone, SecondDone, OrNull
  <2>3. CASE x = heap[P].b /\ heap[P].a # NULL
    <3>1. heap'[x].b = node /\ heap'[x].a = heap[x].a /\ heap[x].type = "node"
      BY <1>2, <1>4, <1>6, <2>1, <2>3 DEF Nodes
    <3> QED
      BY <1>7, <1>8, <1>9, <2>1, <3>1 DEF FirstDone, SecondDone, OrNull
  <2>4. CASE x # P /\ ~ (x = heap[P].b /\ heap[P].a # NULL)
    BY <1>7, <1>8, <2>1, <2>4, RestDone
  <2> QED
    BY <2>2, <2>3, <2>4
<1>13. \A x \in S : (FirstDone(S, x)' \/ Weak(S, x)') /\ SecondDone(S, x)'
  <2>1. FirstDone(S, node)
    BY <1>4 DEF FirstDone, OrNull
  <2> QED
    BY <1>10, <2>1 DEF Tri, Done, Weak
<1>14. InWork => /\ FirstDone(S, chunk) /\ cpc # "first" => FirstDone(S, chunk)'
                 /\ SecondDone(S, chunk) => SecondDone(S, chunk)'
  <2>1. InWork => chunk \in K
    BY DEF Shape, InHand
  <2> QED
    BY <1>a, <1>10, <2>1
<1>15. ~ Hooking /\ ~ Hooking' /\ Linking' /\ ~ Early /\ now' = now /\ Pending' = Pending
  BY <1>1 DEF Hooking, Linking, Early, now, Pending, RootChunks
<1>16. RootsDone(S)' /\ LocalsDone(S, c)'
  BY <1>1, <1>7, <1>15 DEF Tri, RootsDone, LocalsDone, OrNull, Unseen
<1>17. PushDone(S)' /\ PopDone(S)'
  BY <1>a, <1>1, <1>5, <1>7, <1>9, <1>15 DEF PushDone, PopDone
<1>18. cpc \in {"find", "scan"} /\ chunk = node' => heap'[chunk].colour # green
  BY <1>1, <1>3 DEF Tri, Passes, CollectorInRange
<1> QED
  BY <1>1, <1>2, <1>3, <1>13, <1>14, <1>15, <1>16, <1>17, <1>18, WritesMark

LEMMA LinkLastMarks ==
  ASSUME NEW K, NEW o, NEW c, Shape(K, o, c), CollectorInRange, NEW S \in SUBSET K, Tri(K, S, c), LinkLast,
         NEW d, TypedPush(now, c, d), Shape(K, o, d)'
  PROVE  Tri(K, S, d)'
<1>1. /\ mpc = "last" /\ mpc' = "op" /\ node' = NULL
      /\ heap' = WrittenB(P, node) \/ UNCHANGED heap
      /\ UNCHANGED <<loc, bindings, registers, hook, cpc, chunk, scan, pass, black, white>>
  BY DEF LinkLast, In, At, Finish, AllocatorIdle, collectorVars, WrittenB
<1>2. /\ Linking /\ ~ Hooking /\ ~ Hooking' /\ ~ Linking' /\ ~ Early /\ Pending' = Pending
      /\ NULL \notin Addr /\ K \subseteq Addr
  <2>1. NULL \notin Addr /\ K \subseteq Addr
    BY Known
  <2> QED
    BY <1>1, <2>1 DEF Hooking, Linking, Early, Pending, RootChunks
<1>3. /\ P \in Lists(K) /\ P \in K /\ heap[P].type = "list"
  <2>1. now.op \in Pushes /\ todo # <<>>
    BY <1>1, <1>2 DEF Shape, Control, HasNode
  <2> QED
    BY <1>1, <2>1, PushKnown DEF Shape, Lists
<1>5. P \in Marked(S) /\ node \in Marked(S)
  BY <1>1, <1>2 DEF Tri, PushDone
<1>4. /\ \A i \in Addr : heap'[i].type = heap[i].type /\ heap'[i].colour = heap[i].colour /\ heap'[i].a = heap[i].a
      /\ \A i \in Addr : heap'[i].b = heap[i].b \/ (i = P /\ heap'[i].b = node)
  <2>1. CASE UNCHANGED heap
    BY <2>1
  <2>2. CASE heap' = WrittenB(P, node)
    BY <2>2, WriteB DEF Shape
  <2> QED
    BY <1>1, <2>1, <2>2
<1>7. Marked(S) \subseteq Marked(S)' /\ Marked(S)' \subseteq K /\ Ranges'
  <2>1. Marked(S) \subseteq Marked(S)'
    BY <1>1, <1>4, MarkedStays DEF Shape
  <2>2. Marked(S)' \subseteq K
    BY <1>1, <1>2, <1>4, Known DEF Marked, Grey, Greys, Addr
  <2> QED
    BY <2>1, <2>2 DEF Shape
<1>8. Along(S) \subseteq Along(S)'
  <2>1. \A i \in K : heap[i].type = "node" /\ i # node =>
            /\ heap'[i].type = "node" /\ i # node'
            /\ heap'[i].b = heap[i].b \/ heap[i].b = NULL
    BY <1>1, <1>2, <1>3, <1>4
  <2>2. Marked(S)' \subseteq Addr
    BY <1>2, <1>7
  <2> QED
    BY <1>7, <2>1, <2>2, AlongGrows
<1>10. \A x \in K : /\ FirstDone(S, x) => FirstDone(S, x)'
                    /\ SecondDone(S, x) => SecondDone(S, x)'
  <2> SUFFICES ASSUME NEW x \in K
               PROVE  /\ FirstDone(S, x) => FirstDone(S, x)'
                      /\ SecondDone(S, x) => SecondDone(S, x)'
    OBVIOUS
  <2>1. /\ heap'[x].type = heap[x].type /\ heap'[x].a = heap[x].a
        /\ heap'[x].b = heap[x].b \/ (x = P /\ heap'[x].b = node)
    BY <1>2, <1>4
  <2>2. CASE x = P
    BY <1>3, <1>5, <1>7, <1>8, <2>1, <2>2 DEF FirstDone, SecondDone, OrNull
  <2>3. CASE x # P
    BY <1>7, <1>8, <2>1, <2>3, RestDone
  <2> QED
    BY <2>2, <2>3
<1>13. \A x \in S : (FirstDone(S, x)' \/ Weak(S, x)') /\ SecondDone(S, x)'
  <2>1. \A x : ~ Weak(S, x)
    BY <1>1, <1>2 DEF Weak, Awaited
  <2> QED
    BY <1>10, <2>1 DEF Tri, Done
<1>14. InWork => /\ FirstDone(S, chunk) /\ cpc # "first" => FirstDone(S, chunk)'
                 /\ SecondDone(S, chunk) => SecondDone(S, chunk)'
  <2>1. InWork => chunk \in K /\ chunk' = chunk
    BY <1>1 DEF Shape, InHand
  <2> QED
    BY <1>10, <2>1
<1>16. RootsDone(S)' /\ LocalsDone(S, d)'
  <2>1. \A e \in d.loc : e \in c.loc
    BY PushOver
  <2> QED
    BY <1>1, <1>2, <1>7, <2>1 DEF Tri, RootsDone, LocalsDone, OrNull, Unseen
<1>17. PushDone(S)' /\ PopDone(S)'
  BY <1>1, <1>2 DEF PushDone, PopDone
<1>18. cpc \in {"find", "scan"} /\ chunk = node' => heap'[chunk].colour # green
  BY <1>1, <1>2 DEF CollectorInRange
<1> QED
  BY <1>1, <1>2, <1>4, <1>13, <1>14, <1>16, <1>17, <1>18, WritesMark

(* The node that goes leads on to nodes that will be marked too. *)
LEMMA UnlinkMarks ==
  ASSUME NEW K, NEW o, NEW c, Shape(K, o, c), CollectorInRange, NEW S \in SUBSET K, Tri(K, S, c), Unlink,
         NEW d, now.op = "pop_to_register" => TypedPop(now, c, d),
         now.op = "pop_front" => TypedDrop(now, c, d),
         NEW q, Shape(K, q, d)'
  PROVE  Tri(K, S, d)'
<1> DEFINE result == heap[heap[P].a].a
           second == heap[heap[P].a].b
<1>0. /\ now.op \in {"pop_to_register", "pop_front"} /\ todo # <<>> /\ mpc \in {"op", "unlink"}
      /\ ~ Linking /\ ~ Hooking /\ ~ Waiting /\ ~ HasNode
      /\ P \in Lists(K) /\ P \in K /\ P \in Addr /\ now.p \in DOMAIN loc
      /\ NULL \notin Addr /\ K \subseteq Addr
      /\ heap[P].a # NULL => /\ heap[P].a \in Nodes(K) /\ heap[heap[P].a].a \in Values(K)
                             /\ heap[heap[P].a].b = NULL <=> heap[P].a = heap[P].b
  BY AtUnlink
<1>1. /\ UNCHANGED <<bindings, hook, node, cpc, chunk, scan, pass, black, white>> /\ mpc' \in {"op", "unlink_last"}
      /\ heap' = IF heap[P].a = NULL THEN heap ELSE WrittenA(P, second)
      /\ mpc' = "unlink_last" => todo' = todo /\ heap[P].a # NULL
  <2>1. UNCHANGED <<bindings, hook, node, cpc, chunk, scan, pass, black, white>>
    BY DEF Unlink, AllocatorIdle, collectorVars
  <2>2. heap' = IF heap[P].a = NULL THEN heap ELSE WrittenA(P, second)
    BY <1>0 DEF Unlink, WrittenA
  <2>3. mpc' \in {"op", "unlink_last"} /\ (mpc' = "unlink_last" => todo' = todo /\ heap[P].a # NULL)
    BY DEF Unlink, Stay, Finish
  <2> QED
    BY <2>1, <2>2, <2>3
<1>2. /\ heap[P].a = NULL \/ now.op = "pop_front" => UNCHANGED <<loc, registers>>
      /\ heap[P].a # NULL /\ now.op = "pop_to_register" =>
           /\ loc' = [y \in DOMAIN loc \cup {now.x} |-> IF y = now.x THEN result ELSE loc[y]]
           /\ registers' = Append(registers, result)
      /\ now.op = "pop_to_register" => mpc = "unlink"
  <2>1. now.op = "pop_to_register" => mpc = "unlink"
    BY DEF Unlink, In, At
  <2> QED
    BY <1>0, <2>1 DEF Unlink, Assign
<1>3. /\ \A i \in Addr : heap'[i].type = heap[i].type /\ heap'[i].colour = heap[i].colour
                         /\ heap'[i].b = heap[i].b
      /\ \A i \in Addr : heap'[i].a = IF i = P /\ heap[P].a # NULL THEN second ELSE heap[i].a
  <2>1. SwapInv
    BY DEF Shape
  <2>2. CASE heap[P].a = NULL
    BY <1>1, <2>2
  <2>3. CASE heap[P].a # NULL
    <3>1. heap' = WrittenA(P, second)
      BY <1>1, <2>3
    <3> HIDE DEF second
    <3> QED
      BY <2>1, <2>3, <3>1, WriteA
  <2> QED
    BY <2>2, <2>3
<1>4. now.op = "pop_to_register" =>
        heap[P].a # NULL /\ now.x # now.p /\ now.x \notin Stacks /\ c.weak = {}
  BY <1>0, PopNonEmpty DEF TypedPop, Assigns, OwnLocal
<1>5. SameStacks /\ loc'[now.p] = P
  BY <1>0, <1>2, <1>4 DEF SameStacks, Stacks, Shape, Roots0, P
<1>6. ~ Linking' /\ ~ Hooking' /\ Pending' = Pending
  <2>1. ~ Linking' /\ ~ Hooking'
    BY <1>1 DEF Linking, Hooking
  <2>2. RootChunks' = RootChunks
    BY <1>1, <1>5 DEF RootChunks, SameStacks
  <2> QED
    BY <1>1, <2>1, <2>2 DEF Pending
<1>a. result \in Marked(S) \/ heap[P].a = NULL \/ now.op = "pop_front"
  BY <1>0, <1>2 DEF Tri, PopDone
<1>b. heap[P].type = "list" /\ (heap[P].a # NULL => heap[heap[P].a].type = "node") /\ node = NULL
  BY <1>0 DEF Lists, Nodes, Shape, InHand
<1>c. FirstDone(S, P) => heap[P].a = NULL \/ second \in OrNull(Along(S))
  <2>1. NextClosed(heap, node, Along(S))
    BY Hulls
  <2> SUFFICES ASSUME FirstDone(S, P), heap[P].a # NULL PROVE second \in OrNull(Along(S))
    OBVIOUS
  <2>2. heap[P].a \in Along(S) /\ heap[P].a # node
    BY <1>b DEF FirstDone, OrNull
  <2> QED
    BY <1>b, <2>1, <2>2 DEF NextClosed
<1> HIDE DEF result, second
<1>7. Marked(S) \subseteq Marked(S)' /\ Marked(S)' \subseteq K /\ Ranges'
  <2>1. Marked(S) \subseteq Marked(S)'
    BY <1>1, <1>3, MarkedStays DEF Shape
  <2>2. Marked(S)' \subseteq K
    BY <1>0, <1>1, <1>3, Known DEF Marked, Grey, Greys, Addr
  <2> QED
    BY <2>1, <2>2 DEF Shape
<1>8. Along(S) \subseteq Along(S)'
  <2>1. \A i \in K : heap[i].type = "node" /\ i # node =>
            /\ heap'[i].type = "node" /\ i # node'
            /\ heap'[i].b = heap[i].b \/ heap[i].b = NULL
    BY <1>0, <1>1, <1>3
  <2>2. Marked(S)' \subseteq Addr
    BY <1>0, <1>7
  <2> QED
    BY <1>7, <2>1, <2>2, AlongGrows
<1>10. \A x \in K : /\ FirstDone(S, x) => FirstDone(S, x)'
                    /\ SecondDone(S, x) => SecondDone(S, x)'
  <2> SUFFICES ASSUME NEW x \in K
               PROVE  /\ FirstDone(S, x) => FirstDone(S, x)'
                      /\ SecondDone(S, x) => SecondDone(S, x)'
    OBVIOUS
  <2>1. /\ heap'[x].type = heap[x].type /\ heap'[x].b = heap[x].b
        /\ heap'[x].a = IF x = P /\ heap[P].a # NULL THEN second ELSE heap[x].a
    BY <1>0, <1>3
  <2>2. CASE x = P
    BY <1>b, <1>c, <1>7, <1>8, <2>1, <2>2 DEF FirstDone, SecondDone, OrNull
  <2>3. CASE x # P
    BY <1>7, <1>8, <2>1, <2>3, RestDone
  <2> QED
    BY <2>2, <2>3
<1>13. \A x \in S : (FirstDone(S, x)' \/ Weak(S, x)') /\ SecondDone(S, x)'
  <2>1. \A x : ~ Weak(S, x)
    BY <1>0 DEF Weak, Awaited, HasNode, Linking
  <2> QED
    BY <1>10, <2>1 DEF Tri, Done
<1>14. InWork => /\ FirstDone(S, chunk) /\ cpc # "first" => FirstDone(S, chunk)'
                 /\ SecondDone(S, chunk) => SecondDone(S, chunk)'
  <2>1. InWork => chunk \in K /\ chunk' = chunk
    BY <1>1 DEF Shape, InHand
  <2> QED
    BY <1>10, <2>1
<1>15. RootsDone(S)'
  <2>1. \A k \in 1 .. Len(registers') : registers'[k] \in Marked(S)'
    <3>1. registers \in Seq(Marked(S)')
      <4>1. registers \in Seq(K) /\ \A k \in 1 .. Len(registers) : registers[k] \in Marked(S)'
        BY <1>7 DEF Tri, RootsDone, Shape, Roots0
      <4> QED
        BY <4>1
    <3>2. registers' \in Seq(Marked(S)')
      <4>1. CASE heap[P].a = NULL \/ now.op = "pop_front"
        BY <1>2, <3>1, <4>1
      <4>2. CASE heap[P].a # NULL /\ now.op # "pop_front"
        BY <1>0, <1>2, <1>7, <1>a, <3>1, <4>2
      <4> QED
        BY <4>1, <4>2
    <3> QED
      BY <3>2
  <2> QED
    BY <1>1, <1>5, <1>6, <1>7, <2>1 DEF RootsDone, Tri, Unseen, SameStacks, OrNull
<1>16. LocalsDone(S, d)'
  <2>1. CASE now.op = "pop_front"
    BY <1>0, <2>1 DEF TypedDrop, LocalsDone
  <2>2. CASE now.op = "pop_to_register"
    <3>1. \A e \in c.loc : loc[e[1]] \in Marked(S)' /\ (e[1] # now.x => loc'[e[1]] = loc[e[1]])
      BY <1>2, <1>4, <1>7, <2>2 DEF Tri, LocalsDone, Shape, Knows, KnowsLocals
    <3>2. loc'[now.x] \in Marked(S)'
      BY <1>2, <1>4, <1>7, <1>a, <2>2
    <3>3. \A e \in d.loc : \/ e[1] = now.x
                           \/ e \in c.loc /\ e[1] # now.x
                           \/ e[1] = now.p /\ <<now.p, "list+">> \in c.loc
      BY <2>2 DEF TypedPop, Assigns, Is
    <3>4. <<now.p, "list+">> \in c.loc => loc'[now.p] \in Marked(S)'
      BY <1>5, <3>1 DEF P
    <3>5. \A e \in d.loc : loc'[e[1]] \in Marked(S)'
      BY <3>1, <3>2, <3>3, <3>4
    <3> QED
      BY <3>5 DEF LocalsDone
  <2> QED
    BY <1>0, <2>1, <2>2
<1>17. PushDone(S)' /\ PopDone(S)'
  <2>1. P \in Marked(S) \cup Pending
    <3>1. CASE now.p \in Stacks
      BY <3>1 DEF Stacks, Tri, RootsDone, P
    <3>2. CASE now.p \notin Stacks
      <4>1. now.op = "pop_to_register" /\ Is(c, now.p, "list+") /\ c.weak = {}
        BY <1>0, <3>2 DEF TypedPop, TypedDrop, Stacks
      <4>2. \E e \in c.loc : e[1] = now.p
        BY <4>1 DEF Is
      <4> QED
        BY <4>1, <4>2 DEF Tri, LocalsDone, P
    <3> QED
      BY <3>1, <3>2
  <2>2. mpc' = "unlink_last" => P' = P
    BY <1>1, <1>5 DEF P, now
  <2>3. mpc' = "unlink_last" => P' \in Marked(S)' \cup Pending'
    BY <1>6, <1>7, <2>1, <2>2
  <2> QED
    BY <1>1, <1>6, <2>3 DEF PushDone, PopDone
<1>18. cpc \in {"find", "scan"} /\ chunk = node' => heap'[chunk].colour # green
  BY <1>0, <1>1, <1>b DEF CollectorInRange
<1> QED
  BY <1>0, <1>1, <1>3, <1>6, <1>13, <1>14, <1>15, <1>16, <1>17, <1>18, WritesMark

LEMMA UnlinkLastMarks ==
  ASSUME NEW K, NEW o, NEW c, Shape(K, o, c), CollectorInRange, NEW S \in SUBSET K, Tri(K, S, c), UnlinkLast,
         Shape(K, o, c)'
  PROVE  Tri(K, S, c)'
<1>0. /\ mpc = "unlink_last" /\ ~ Linking /\ ~ Hooking /\ ~ HasNode /\ node = NULL
      /\ P \in Lists(K) /\ P \in K /\ NULL \notin Addr /\ K \subseteq Addr
  BY DEF UnlinkLast, At, Linking, Hooking, HasNode, Shape, Halfway, Lists, Words, Addr, NULL, InHand
<1>1. /\ mpc' = "op" /\ heap' = WrittenB(P, NULL)
      /\ UNCHANGED <<loc, bindings, registers, hook, node, cpc, chunk, scan, pass, black, white>>
  BY DEF UnlinkLast, Finish, AllocatorIdle, collectorVars, WrittenB
<1>3. /\ \A i \in Addr : heap'[i].type = heap[i].type /\ heap'[i].colour = heap[i].colour
                         /\ heap'[i].a = heap[i].a
      /\ \A i \in Addr : heap'[i].b = IF i = P THEN NULL ELSE heap[i].b
  BY <1>1, WriteB DEF Shape
<1>6. ~ Linking' /\ ~ Hooking' /\ Pending' = Pending /\ ~ Early /\ heap[P].type = "list"
  BY <1>0, <1>1 DEF Linking, Hooking, Pending, RootChunks, Early, Lists
<1>7. Marked(S) \subseteq Marked(S)' /\ Marked(S)' \subseteq K /\ Ranges'
  <2>1. Marked(S) \subseteq Marked(S)'
    BY <1>1, <1>3, MarkedStays DEF Shape
  <2>2. Marked(S)' \subseteq K
    BY <1>0, <1>1, <1>3, Known DEF Marked, Grey, Greys, Addr
  <2> QED
    BY <2>1, <2>2 DEF Shape
<1>8. Along(S) \subseteq Along(S)'
  <2>1. \A i \in K : heap[i].type = "node" /\ i # node =>
            /\ heap'[i].type = "node" /\ i # node'
            /\ heap'[i].b = heap[i].b \/ heap[i].b = NULL
    BY <1>0, <1>1, <1>3, <1>6
  <2>2. Marked(S)' \subseteq Addr
    BY <1>0, <1>7
  <2> QED
    BY <1>7, <2>1, <2>2, AlongGrows
<1>10. \A x \in K : /\ FirstDone(S, x) => FirstDone(S, x)'
                    /\ SecondDone(S, x) => SecondDone(S, x)'
  <2> SUFFICES ASSUME NEW x \in K
               PROVE  /\ FirstDone(S, x) => FirstDone(S, x)'
                      /\ SecondDone(S, x) => SecondDone(S, x)'
    OBVIOUS
  <2>1. /\ heap'[x].type = heap[x].type /\ heap'[x].a = heap[x].a
        /\ heap'[x].b = IF x = P THEN NULL ELSE heap[x].b
    BY <1>0, <1>3
  <2>2. CASE x = P
    BY <1>6, <1>7, <1>8, <2>1, <2>2 DEF FirstDone, SecondDone, OrNull
  <2>3. CASE x # P
    BY <1>7, <1>8, <2>1, <2>3, RestDone
  <2> QED
    BY <2>2, <2>3
<1>13. \A x \in S : (FirstDone(S, x)' \/ Weak(S, x)') /\ SecondDone(S, x)'
  <2>1. \A x : ~ Weak(S, x)
    BY <1>0 DEF Weak, Awaited
  <2> QED
    BY <1>10, <2>1 DEF Tri, Done
<1>14. InWork => /\ FirstDone(S, chunk) /\ cpc # "first" => FirstDone(S, chunk)'
                 /\ SecondDone(S, chunk) => SecondDone(S, chunk)'
  <2>1. InWork => chunk \in K /\ chunk' = chunk
    BY <1>1 DEF Shape, InHand
  <2> QED
    BY <1>10, <2>1
<1>15. RootsDone(S)' /\ LocalsDone(S, c)' /\ PushDone(S)' /\ PopDone(S)'
  <2>1. RootsDone(S)'
    BY <1>1, <1>6, <1>7 DEF RootsDone, Tri, Unseen, OrNull
  <2>2. LocalsDone(S, c)'
    BY <1>1, <1>6, <1>7 DEF LocalsDone, Tri
  <2> QED
    BY <1>1, <1>6, <2>1, <2>2 DEF PushDone, PopDone
<1>18. cpc \in {"find", "scan"} /\ chunk = node' => heap'[chunk].colour # green
  BY <1>0, <1>1 DEF CollectorInRange
<1> QED
  BY <1>0, <1>1, <1>3, <1>6, <1>13, <1>14, <1>15, <1>18, WritesMark

(* A new chunk counts as seen to at once, unless it is to be the first of  *)
(* a list that is not.                                                     *)
LEMMA AllocateMarks ==
  ASSUME NEW K, NEW o, NEW c, Shape(K, o, c), CollectorInRange, NEW S \in SUBSET K, Tri(K, S, c), Allocate,
         FreeIsFree, NEW n, n = free_list, NEW M, M = K \cup {n}, NEW q, NEW d, Shape(M, q, d)',
         now.op \in Pushes => d = c,
         now.op = "new" => TypedNew(Plain, now, c, d),
         NEW T, T = IF now.op = "push_front" /\ P \notin S THEN S ELSE S \cup {n}
  PROVE  T \in SUBSET M /\ Tri(M, T, d)'
<1>1. /\ Adds1(K, n) /\ SameStacks
      /\ heap'[n] = Filled /\ UNCHANGED <<cpc, chunk, scan, bindings, registers, hook>>
      /\ now.op \in Pushes => /\ heap'[n].type = "node" /\ mpc' = "link" /\ todo' = todo /\ node' = n /\ loc' = loc
      /\ now.op = "new" => /\ heap'[n].type = now.p /\ mpc' = "op" /\ todo' = Tail(todo) /\ node' = NULL
                           /\ loc' = [y \in DOMAIN loc \cup {now.x} |-> IF y = now.x THEN n ELSE loc[y]]
  BY AllocateAdds
<1>2. UNCHANGED <<pass, black, white>>
  BY DEF Allocate, collectorVars
<1>3. /\ now.op \in {"new"} \cup Pushes /\ mpc \in {"op", "alloc", "granted"}
      /\ mpc # "op" \/ now.op = "new"
      /\ ~ Linking /\ ~ HasNode /\ ~ Hooking /\ node = NULL
      /\ now.op \in Pushes => /\ P \in Lists(K) /\ P \in K /\ X \in Values(K) /\ X \in K
  BY AtAllocation DEF Allocate
<1>4. NULL \notin Addr /\ K \subseteq Addr /\ M \subseteq Addr /\ n \in Addr /\ n \notin K /\ n # NULL
  <2>1. NULL \notin Addr /\ K \subseteq Addr
    BY Known
  <2> QED
    BY <1>1, <2>1 DEF Adds1
<1>5. /\ \A i \in Addr : i # n => heap'[i] = heap[i]
      /\ \A i \in K : heap'[i] = heap[i] /\ i # n
      /\ heap'[n].colour = green
  BY <1>1, <1>4 DEF Adds1
<1>6. ~ Hooking' /\ ~ Linking' /\ Pending' = Pending
  <2>1. RootChunks' = RootChunks
    BY <1>1 DEF RootChunks, SameStacks
  <2> QED
    BY <1>1, <1>3, <2>1 DEF Hooking, Linking, Pending
<1>7. T \in SUBSET M /\ S \subseteq T /\ T \subseteq S \cup {n} /\ K \subseteq M
  OBVIOUS
<1>8. Marked(S) \subseteq Marked(T)' /\ Marked(T)' \subseteq M /\ Ranges' /\ T \subseteq Marked(T)'
  <2>1. Marked(S) \subseteq Marked(T)'
    BY <1>1, <1>5, <1>7, MarkedStays DEF Shape
  <2>2. Marked(T)' \subseteq M
    BY <1>1, <1>4, <1>5, <1>7, Known DEF Marked, Grey, Greys, Addr, grey, green
  <2> QED
    BY <2>1, <2>2 DEF Shape, Marked
<1>9. Along(S) \subseteq Along(T)' /\ Marked(T)' \subseteq Along(T)'
  <2>1. \A i \in K : heap[i].type = "node" /\ i # node =>
            /\ heap'[i].type = "node" /\ i # node'
            /\ heap'[i].b = heap[i].b \/ heap[i].b = NULL
    BY <1>1, <1>3, <1>4, <1>5
  <2>2. Marked(T)' \subseteq Addr
    BY <1>4, <1>8
  <2>3. Along(S) \subseteq Along(T)'
    BY <1>8, <2>1, <2>2, AlongGrows
  <2> QED
    BY <1>4, <1>8, <2>2, <2>3, MarkedAlong
<1>10. \A x \in K : /\ FirstDone(S, x) => FirstDone(T, x)'
                    /\ SecondDone(S, x) => SecondDone(T, x)'
  BY <1>5, <1>8, <1>9, RestDone
<1>11. now.op \in Pushes => P \in Marked(S) /\ X \in Marked(S) /\ P' = P /\ X' = X /\ now' = now
  BY <1>1, <1>3 DEF Tri, PushDone, P, X, now, Pushes
<1>12. now.op = "push_front" /\ P \in S => heap[P].a \in OrNull(Along(S))
  <2>1. now.op = "push_front" /\ P \in S => FirstDone(S, P) /\ heap[P].type = "list"
    BY <1>3 DEF Tri, Done, Weak, Awaited, HasNode, Linking, Lists, Pushes
  <2> QED
    BY <2>1 DEF FirstDone
<1>13. n \in T => (FirstDone(T, n)' \/ Weak(T, n)') /\ SecondDone(T, n)'
  <2>1. CASE now.op = "new"
    <3>1. heap'[n].type \notin {"list", "node"} \/ (heap'[n].type = "list" /\ heap'[n].a = NULL /\ heap'[n].b = NULL)
      BY <1>1, <2>1 DEF Adds1, TypedNew
    <3> QED
      BY <1>5, <3>1 DEF FirstDone, SecondDone, OrNull
  <2>2. CASE now.op = "push_back"
    <3>1. Filled = [type |-> "node", colour |-> green, a |-> X, b |-> NULL]
      BY <2>2 DEF Filled
    <3>2. heap'[n].type = "node" /\ heap'[n].a = X /\ heap'[n].b = NULL
      BY <1>1, <3>1
    <3> QED
      BY <1>8, <1>11, <2>2, <3>2 DEF FirstDone, SecondDone, OrNull, Pushes
  <2>3. CASE now.op = "push_front"
    <3> SUFFICES ASSUME n \in T PROVE (FirstDone(T, n)' \/ Weak(T, n)') /\ SecondDone(T, n)'
      OBVIOUS
    <3>1. Filled = [type |-> "node", colour |-> green, a |-> X, b |-> heap[P].a]
      BY <2>3 DEF Filled
    <3>2. heap'[n].type = "node" /\ heap'[n].a = X /\ heap'[n].b = heap[P].a
      BY <1>1, <3>1
    <3>3. P \in S
      BY <1>4, <2>3
    <3>4. heap'[n].b \in OrNull(Along(T)')
      BY <1>9, <1>12, <2>3, <3>2, <3>3 DEF OrNull
    <3>5. Awaited' /\ node' = n
      BY <1>1, <2>3 DEF Awaited, Pushes
    <3>6. FirstDone(T, n)' \/ Weak(T, n)'
      BY <1>5, <3>2, <3>4, <3>5 DEF FirstDone, Weak, OrNull
    <3> QED
      BY <1>8, <1>11, <2>3, <3>2, <3>6 DEF SecondDone, Pushes
  <2> QED
    BY <1>3, <2>1, <2>2, <2>3 DEF Pushes
<1>14. \A x \in T : (FirstDone(T, x)' \/ Weak(T, x)') /\ SecondDone(T, x)'
  <2>1. \A x : ~ Weak(S, x)
    BY <1>3 DEF Weak, Awaited, HasNode, Linking
  <2> QED
    BY <1>7, <1>10, <1>13, <2>1 DEF Tri, Done
<1>15. InWork => /\ FirstDone(S, chunk) /\ cpc # "first" => FirstDone(T, chunk)'
                 /\ SecondDone(S, chunk) => SecondDone(T, chunk)'
  <2>1. InWork => chunk \in K /\ chunk' = chunk
    BY <1>1 DEF Shape, InHand
  <2> QED
    BY <1>10, <2>1
<1>16. RootsDone(T)'
  BY <1>1, <1>6, <1>8 DEF RootsDone, Tri, Unseen, OrNull, SameStacks
<1>17. LocalsDone(T, d)'
  <2>1. CASE now.op = "new"
    <3>1. \A e \in d.loc : e[1] = now.x
      BY <2>1 DEF TypedNew
    <3>2. loc'[now.x] = n /\ n \in T
      BY <1>1, <2>1
    <3> QED
      BY <1>8, <3>1, <3>2 DEF LocalsDone
  <2>2. CASE now.op \in Pushes
    <3>1. d = c /\ loc' = loc /\ ~ Early
      BY <1>1, <1>3, <2>2 DEF Early, Pushes
    <3> QED
      BY <1>8, <3>1 DEF LocalsDone, Tri
  <2> QED
    BY <1>3, <2>1, <2>2
<1>18. PushDone(T)' /\ PopDone(T)'
  <2>1. CASE now.op = "new"
    BY <1>1, <1>6, <2>1 DEF PushDone, PopDone
  <2>2. CASE now.op \in Pushes
    <3>1. P' \in Marked(T)' /\ X' \in Marked(T)'
      BY <1>8, <1>11, <2>2
    <3>2. now'.op = "push_back" \/ P' \in T => n \in T
      BY <1>3, <1>4, <1>11, <2>2
    <3> QED
      BY <1>1, <1>6, <2>2, <3>1, <3>2 DEF PushDone, PopDone
  <2> QED
    BY <1>3, <2>1, <2>2
<1>19. cpc \in {"find", "scan"} /\ chunk = node' => heap'[chunk].colour # green
  <2>1. cpc \in {"find", "scan"} => chunk \in K
    BY Known DEF Tri, Passes
  <2> QED
    BY <1>1, <1>3, <1>4, <2>1
<1>20. Tri(M, T, d)'
  <2>1. \A i \in Addr : heap'[i].colour = heap[i].colour \/ (i \notin K /\ heap'[i].colour = green)
    BY <1>4, <1>5
  <2>2. \A i \in T \ S : heap'[i].colour = green
    BY <1>5, <1>7
  <2> QED
    BY <1>1, <1>2, <1>3, <1>4, <1>6, <1>7, <1>14, <1>15, <1>16, <1>17, <1>18, <1>19, <2>1, <2>2, WritesMark
<1> QED
  BY <1>7, <1>20

-----------------------------------------------------------------------------
(* The whole invariant, for a heap whose stacks are there                  *)

Sound(K, o, c, S) ==
  /\ Shape(K, o, c) /\ CollectorInRange /\ HeldKept
  /\ Marks => S \in SUBSET K /\ Tri(K, S, c)
  /\ ~ Marks => NoWhite(K)

(* Nobody waits after most steps, and no step of the mutator whitens. *)
LEMMA SoundStep ==
  ASSUME NEW K, NEW o, NEW c, NEW S, Sound(K, o, c, S), MutatorStep, UNCHANGED <<cpc, chunk, scan, pass>>,
         HeldKept', NEW M, NEW q, NEW d, Shape(M, q, d)', \A i \in M \ K : heap'[i].colour = green,
         NEW T, Marks => T \in SUBSET M /\ Tri(M, T, d)'
  PROVE  Sound(M, q, d, T)'
<1>1. CollectorInRange'
  BY InRangeStays DEF Sound
<1>2. Marks' = Marks
  BY DEF Marks
<1>3. ~ Marks => NoWhite(M)'
  <2>1. NoneWhitened /\ UNCHANGED white
    BY MutatorNeverWhitens DEF Sound, Shape
  <2>2. white \notin {grey, green, black}
    BY DEF Sound, Shape, SwapInv, Colours, grey, green
  <2>3. K \subseteq Addr
    BY DEF Sound, Shape, Words
  <2>4. ~ Marks => \A i \in K : heap'[i].colour # white
    BY <2>1, <2>2, <2>3 DEF NoneWhitened, Sound, NoWhite
  <2>5. ~ Marks => \A i \in M : heap'[i].colour # white
    BY <2>2, <2>4
  <2> QED
    BY <2>1, <2>5 DEF NoWhite
<1> QED
  BY <1>1, <1>2, <1>3 DEF Sound

LEMMA NobodyWaits ==
  ASSUME mpc' \notin {"await", "granted"}
  PROVE  HeldKept'
BY DEF HeldKept

LEMMA HookSound ==
  ASSUME NEW K, NEW o, NEW c, NEW S, Sound(K, o, c, S), HookRead \/ HookDarken \/ HookBlacken
  PROVE  \E M, q, d, T : Sound(M, q, d, T)'
<1>1. /\ MutatorStep /\ UNCHANGED <<cpc, chunk, scan, pass>> /\ Shape(K, o, c)
  BY DEF MutatorStep, HookRead, HookDarken, HookBlacken, AllocatorIdle, collectorVars, Sound
<1>2. HeldKept'
  <2>1. hook.then \notin {"await", "granted"}
    <3>1. Hooking
      BY DEF HookRead, HookDarken, HookBlacken, At, Hooking
    <3>2. hook \in Hooks(K)
      BY <1>1, <3>1, HookInHooks DEF Shape
    <3> QED
      BY <3>2 DEF Hooks
  <2>2. [hook EXCEPT !.darken = Tail(@)].then = hook.then /\ [hook EXCEPT !.blacken = NULL].then = hook.then
    BY <1>1 DEF Shape, SwapInv, HookReturns
  <2>3. mpc' \notin {"await", "granted"}
    BY <2>1, <2>2 DEF HookRead, HookDarken, HookBlacken, Goes, Stay
  <2> QED
    BY <2>3, NobodyWaits
<1>3. ASSUME NEW T, Shape(K, o, c)', Marks => T \in SUBSET K /\ Tri(K, T, c)'
      PROVE  \E M, q, d, U : Sound(M, q, d, U)'
  <2>1. Sound(K, o, c, T)'
    BY <1>1, <1>2, <1>3, SoundStep
  <2> QED
    BY <2>1
<1>4. CASE HookRead
  <2>1. Shape(K, o, c)' /\ (Marks => S \in SUBSET K /\ Tri(K, S, c)')
    BY <1>4, HookReadKeeps, HookReadMarks DEF Sound
  <2> QED
    BY <1>3, <2>1
<1>5. CASE HookDarken
  <2>1. PICK T : T = Greyed(S, Head(hook.darken))
    OBVIOUS
  <2>2. Shape(K, o, c)' /\ (Marks => T \in SUBSET K /\ Tri(K, T, c)')
    BY <1>5, <2>1, HookDarkenKeeps, HookDarkenMarks DEF Sound
  <2> QED
    BY <1>3, <2>2
<1>6. CASE HookBlacken
  <2>0. PICK x : x = hook.blacken
    OBVIOUS
  <2>1. PICK T : T = S \cup {x}
    OBVIOUS
  <2>2. Shape(K, o, c)' /\ (Marks => T \in SUBSET K /\ Tri(K, T, c)')
    BY <1>6, <2>0, <2>1, HookBlackenKeeps, HookBlackenMarks DEF Sound
  <2> QED
    BY <1>3, <2>2
<1> QED
  BY <1>4, <1>5, <1>6

LEMMA StartSound ==
  ASSUME NEW K, NEW o, NEW c, NEW S, Sound(K, o, c, S), StartPush \/ LinkHook \/ StartPop
  PROVE  \E M, q, d, T : Sound(M, q, d, T)'
<1>1. /\ MutatorStep /\ UNCHANGED <<cpc, chunk, scan, pass>> /\ Shape(K, o, c)
  BY DEF MutatorStep, StartPush, LinkHook, StartPop, AllocatorIdle, collectorVars, Sound
<1>2. HeldKept'
  <2>1. mpc' \notin {"await", "granted"}
    BY DEF StartPush, LinkHook, StartPop, PushHook, PopHook, Hook, Goes, Stay
  <2> QED
    BY <2>1, NobodyWaits
<1>3. Shape(K, o, c)'
  BY <1>1, StartsKeep
<1>4. Marks => S \in SUBSET K /\ Tri(K, S, c)'
  BY StartPushMarks, LinkHookMarks, StartPopMarks DEF Sound
<1>5. Sound(K, o, c, S)'
  BY <1>1, <1>2, <1>3, <1>4, SoundStep
<1> QED
  BY <1>5

LEMMA LinkSound ==
  ASSUME NEW K, NEW o, NEW c, NEW S, Sound(K, o, c, S), LinkFront \/ LinkBack \/ LinkLast
  PROVE  \E M, q, d, T : Sound(M, q, d, T)'
<1>1. /\ MutatorStep /\ UNCHANGED <<cpc, chunk, scan, pass>> /\ Shape(K, o, c) /\ CollectorInRange
  BY DEF MutatorStep, LinkFront, LinkBack, LinkLast, AllocatorIdle, collectorVars, Sound
<1>2. HeldKept'
  <2>1. mpc' \notin {"await", "granted"}
    BY DEF LinkFront, LinkBack, LinkLast, Stay, Finish
  <2> QED
    BY <2>1, NobodyWaits
<1>3. ASSUME NEW q, NEW d, NEW T, Shape(K, q, d)', Marks => T \in SUBSET K /\ Tri(K, T, d)'
      PROVE  \E M, p, e, U : Sound(M, p, e, U)'
  <2>1. Sound(K, q, d, T)'
    BY <1>1, <1>2, <1>3, SoundStep
  <2> QED
    BY <2>1
<1>4. CASE LinkFront
  <2>1. PICK q : q = Links(o, node, P)
    OBVIOUS
  <2>2. PICK T : T = IF P \in S \/ (cpc \in {"grey_first", "second", "grey_second", "blacken"} /\ chunk = P)
                     THEN S \cup {node} ELSE S
    OBVIOUS
  <2>3. Shape(K, q, c)'
    BY <1>1, <1>4, <2>1, LinkFrontKeeps
  <2>4. Marks => T \in SUBSET K /\ Tri(K, T, c)'
    BY <1>1, <1>4, <2>2, <2>3, LinkFrontMarks DEF Sound
  <2> QED
    BY <1>3, <2>3, <2>4
<1>5. CASE LinkBack
  <2>1. PICK q : q = Links(o, node, P)
    OBVIOUS
  <2>3. Shape(K, q, c)'
    BY <1>1, <1>5, <2>1, LinkBackKeeps
  <2>4. Marks => S \in SUBSET K /\ Tri(K, S, c)'
    BY <1>1, <1>5, <2>3, LinkBackMarks DEF Sound
  <2> QED
    BY <1>3, <2>3, <2>4
<1>6. CASE LinkLast
  <2>1. todo # <<>> /\ mpc = "last" /\ Knows(K, c) /\ now.op \in Pushes
    BY <1>1, <1>6 DEF LinkLast, At, Shape, Control, HasNode, Linking
  <2>2. PICK d : TypedPush(now, c, d) /\ Certified(Plain, Tail(todo), d)
    BY <2>1, TypedNow, TypedAs
  <2>3. Shape(K, o, d)'
    BY <1>1, <1>6, <2>2, LinkLastKeeps
  <2>4. Marks => S \in SUBSET K /\ Tri(K, S, d)'
    BY <1>1, <1>6, <2>2, <2>3, LinkLastMarks DEF Sound
  <2> QED
    BY <1>3, <2>3, <2>4
<1> QED
  BY <1>4, <1>5, <1>6

LEMMA UnlinkSound ==
  ASSUME NEW K, NEW o, NEW c, NEW S, Sound(K, o, c, S), Unlink \/ UnlinkLast
  PROVE  \E M, q, d, T : Sound(M, q, d, T)'
<1>1. /\ MutatorStep /\ UNCHANGED <<cpc, chunk, scan, pass>> /\ Shape(K, o, c) /\ CollectorInRange
  BY DEF MutatorStep, Unlink, UnlinkLast, AllocatorIdle, collectorVars, Sound
<1>2. HeldKept'
  <2>1. mpc' \notin {"await", "granted"}
    BY DEF Unlink, UnlinkLast, Stay, Finish
  <2> QED
    BY <2>1, NobodyWaits
<1>3. ASSUME NEW q, NEW d, Shape(K, q, d)', Marks => S \in SUBSET K /\ Tri(K, S, d)'
      PROVE  \E M, p, e, U : Sound(M, p, e, U)'
  <2>1. Sound(K, q, d, S)'
    BY <1>1, <1>2, <1>3, SoundStep
  <2> QED
    BY <2>1
<1>4. CASE Unlink
  <2>1. now.op \in {"pop_to_register", "pop_front"} /\ todo # <<>> /\ mpc # "unlink_last" /\ Knows(K, c)
    BY <1>1, <1>4, AtUnlink DEF Shape
  <2>2. PICK d : Typed(Plain, now, c, d) /\ Certified(Plain, Tail(todo), d)
    BY <2>1, TypedNow
  <2>3. /\ now.op = "pop_to_register" => TypedPop(now, c, d)
        /\ now.op = "pop_front" => TypedDrop(now, c, d)
    BY <2>2, TypedAs
  <2>4. PICK q : q = IF heap[P].a # NULL /\ heap[P].a = heap[P].b THEN Unowns(o, P) ELSE o
    OBVIOUS
  <2>5. Shape(K, q, d)'
    BY <1>1, <1>4, <2>2, <2>3, <2>4, UnlinkKeeps
  <2>6. Marks => S \in SUBSET K /\ Tri(K, S, d)'
    BY <1>1, <1>4, <2>3, <2>5, UnlinkMarks DEF Sound
  <2> QED
    BY <1>3, <2>5, <2>6
<1>5. CASE UnlinkLast
  <2>1. Shape(K, o, c)'
    BY <1>1, <1>5, UnlinkLastKeeps
  <2>2. Marks => S \in SUBSET K /\ Tri(K, S, c)'
    BY <1>1, <1>5, <2>1, UnlinkLastMarks DEF Sound
  <2> QED
    BY <1>3, <2>1, <2>2
<1> QED
  BY <1>4, <1>5

LEMMA AllocateSound ==
  ASSUME NEW K, NEW o, NEW c, NEW S, Sound(K, o, c, S), FreeIsFree, Allocate
  PROVE  \E M, q, d, T : Sound(M, q, d, T)'
<1>1. /\ MutatorStep /\ UNCHANGED <<cpc, chunk, scan, pass>> /\ Shape(K, o, c) /\ CollectorInRange
  BY DEF MutatorStep, Allocate, collectorVars, Sound
<1>2. HeldKept'
  <2>1. mpc' \notin {"await", "granted"}
    BY DEF Allocate, Stay, Finish
  <2> QED
    BY <2>1, NobodyWaits
<1>3. now.op \in {"new"} \cup Pushes /\ todo # <<>> /\ mpc # "unlink_last" /\ Knows(K, c)
  BY <1>1, AtAllocation DEF Allocate, Shape
<1>4. PICK d : /\ now.op \in Pushes => d = c
               /\ now.op = "new" => TypedNew(Plain, now, c, d) /\ Certified(Plain, Tail(todo), d)
  <2>1. CASE now.op = "new"
    BY <1>3, <2>1, TypedNow, TypedAs DEF Pushes
  <2>2. CASE now.op \in Pushes
    BY <2>2 DEF Pushes
  <2> QED
    BY <1>3, <2>1, <2>2
<1>5. PICK n : n = free_list
  OBVIOUS
<1>6. PICK M : M = K \cup {n}
  OBVIOUS
<1>7. PICK q : q = Links(o, n, NULL)
  OBVIOUS
<1>8. PICK T : T = IF now.op = "push_front" /\ P \notin S THEN S ELSE S \cup {n}
  OBVIOUS
<1>9. Shape(M, q, d)'
  BY <1>1, <1>4, <1>5, <1>6, <1>7, AllocateKeeps
<1>10. Marks => T \in SUBSET M /\ Tri(M, T, d)'
  BY <1>1, <1>4, <1>5, <1>6, <1>8, <1>9, AllocateMarks DEF Sound
<1>11. \A i \in M \ K : heap'[i].colour = green
  <2>1. Adds1(K, n)
    BY <1>1, <1>5, AllocateAdds
  <2> QED
    BY <1>6, <2>1 DEF Adds1
<1>12. Sound(M, q, d, T)'
  BY <1>1, <1>2, <1>9, <1>10, <1>11, SoundStep
<1> QED
  BY <1>12

LEMMA AskSound ==
  ASSUME NEW K, NEW o, NEW c, NEW S, Sound(K, o, c, S), RunOut \/ Resume \/ Retry \/ GiveUp
  PROVE  \E M, q, d, T : Sound(M, q, d, T)'
<1>1. /\ MutatorStep /\ UNCHANGED <<cpc, chunk, scan, pass, loc, todo>> /\ Shape(K, o, c) /\ CollectorInRange /\ HeldKept
  BY DEF MutatorStep, RunOut, Resume, Retry, GiveUp, Stay, opVars, collectorVars, Sound
<1>2. HeldKept'
  <2>0. now' = now /\ P' = P /\ X' = X
    BY <1>1 DEF now, P, X
  <2>1. CASE RunOut
    <3>1. todo # <<>> /\ now.op \in {"new"} \cup Pushes /\ mpc # "unlink_last"
      BY <1>1, <2>1, AtAllocation DEF RunOut
    <3>2. now.op \in Pushes => P \in Range(registers') /\ X \in Range(registers')
      <4> SUFFICES ASSUME now.op \in Pushes PROVE P \in Range(registers') /\ X \in Range(registers')
        OBVIOUS
      <4>1. Held = <<P, X>> /\ registers' = registers \o Held
        BY <1>1, <2>1, <3>1, HeldKnown DEF RunOut
      <4>2. registers \in Seq(K) /\ Held \in Seq(Values(K) \cup Lists(K))
        BY <1>1, <3>1, HeldKnown DEF Shape, Roots0
      <4>3. \A u, v : <<u, v>> = Held => u \in Range(registers \o <<u, v>>) /\ v \in Range(registers \o <<u, v>>)
        <5> SUFFICES ASSUME NEW u, NEW v
                     PROVE  u \in Range(registers \o <<u, v>>) /\ v \in Range(registers \o <<u, v>>)
          OBVIOUS
        <5>1. /\ Len(registers) + 1 \in DOMAIN (registers \o <<u, v>>)
              /\ Len(registers) + 2 \in DOMAIN (registers \o <<u, v>>)
              /\ (registers \o <<u, v>>)[Len(registers) + 1] = u
              /\ (registers \o <<u, v>>)[Len(registers) + 2] = v
          BY <4>2
        <5> QED
          BY <5>1 DEF Range
      <4> QED
        BY <4>1, <4>3
    <3> QED
      BY <2>0, <3>2 DEF HeldKept
  <2>2. CASE Resume
    <3>1. mpc' \notin {"await", "granted"}
      BY <2>2 DEF Resume, Stay
    <3> QED
      BY <3>1, NobodyWaits
  <2>3. CASE Retry \/ GiveUp
    <3>1. mpc = "granted" /\ registers' = registers
      BY <2>3 DEF Retry, GiveUp, At
    <3> QED
      BY <1>1, <2>0, <3>1 DEF HeldKept
  <2> QED
    BY <2>1, <2>2, <2>3
<1>3. Shape(K, o, c)'
  BY <1>1, AskKeeps
<1>4. Marks => S \in SUBSET K /\ Tri(K, S, c)'
  BY <1>1, AskMarks DEF Sound
<1>5. Sound(K, o, c, S)'
  BY <1>1, <1>2, <1>3, <1>4, SoundStep
<1> QED
  BY <1>5

LEMMA QuietSound ==
  ASSUME NEW K, NEW o, NEW c, NEW S, Sound(K, o, c, S), Fetch \/ Keep \/ BindSymbol
  PROVE  \E M, q, d, T : Sound(M, q, d, T)'
<1>1. /\ MutatorStep /\ UNCHANGED <<cpc, chunk, scan, pass>> /\ Shape(K, o, c) /\ CollectorInRange
  BY DEF MutatorStep, Fetch, Keep, BindSymbol, AllocatorIdle, collectorVars, Sound
<1>2. HeldKept'
  <2>1. mpc' \notin {"await", "granted"}
    BY DEF Fetch, Keep, BindSymbol, Finish
  <2> QED
    BY <2>1, NobodyWaits
<1>3. PICK d : Typed(Plain, now, c, d) /\ Shape(K, o, d)'
  BY <1>1, FetchKeeps, KeepKeeps, BindKeeps
<1>4. Marks => S \in SUBSET K /\ Tri(K, S, d)'
  BY <1>1, <1>3, FetchMarks, KeepMarks, BindMarks DEF Sound
<1>5. Sound(K, o, d, S)'
  BY <1>1, <1>2, <1>3, <1>4, SoundStep
<1> QED
  BY <1>5

LEMMA MutatorSound ==
  ASSUME NEW K, NEW o, NEW c, NEW S, Sound(K, o, c, S), FreeIsFree, MutatorStep
  PROVE  \E M, q, d, T : Sound(M, q, d, T)'
<1>1. ~ MoveCurrent /\ ~ Exit
  <2>1. ASSUME MoveCurrent \/ Exit PROVE FALSE
    <3>1. todo # <<>> /\ mpc = "op" /\ now.op \in {"rewind", "advance", "stop"}
      BY <2>1 DEF MoveCurrent, Exit, In, At
    <3> QED
      BY <3>1, NextOperation DEF Sound, Shape, Pushes
  <2> QED
    BY <2>1
<1> QED
  BY <1>1, HookSound, StartSound, LinkSound, UnlinkSound, AllocateSound, AskSound, QuietSound DEF MutatorStep

LEMMA ClientSound ==
  ASSUME NEW K, NEW o, NEW c, NEW S, Sound(K, o, c, S), Call \/ Fail \/ Return \/ UNCHANGED gcVars
  PROVE  \E M, q, d, T : Sound(M, q, d, T)'
<1>1. /\ UNCHANGED <<heap, registers, bindings, hook, node, mpc, cpc, chunk, scan, pass, black, white>>
      /\ Shape(K, o, c) /\ CollectorInRange /\ HeldKept
  BY DEF Call, Fail, Return, gcVars, shared, opVars, collectorVars, Sound
<1>2. CollectorInRange' /\ Marks' = Marks /\ (~ Marks => NoWhite(K)')
  <2>1. CollectorInRange'
    BY <1>1, InRangeStays
  <2> QED
    BY <1>1, <2>1 DEF Marks, NoWhite, Sound
<1>3. HeldKept'
  <2>1. CASE Call
    <3>1. todo = <<>>
      BY <2>1 DEF Call, Idle
    <3>2. mpc' \notin {"await", "granted"}
      BY <1>1, <3>1 DEF Shape, Control
    <3> QED
      BY <3>2, NobodyWaits
  <2>2. CASE Fail \/ Return \/ UNCHANGED gcVars
    <3>1. UNCHANGED <<mpc, todo, loc, registers>>
      BY <2>2 DEF Fail, Return, gcVars, opVars
    <3> QED
      BY <1>1, <3>1 DEF HeldKept, now, P, X
  <2> QED
    BY <2>1, <2>2
<1>4. CASE Call
  <2>1. PICK d : Shape(K, o, d)' /\ d.loc = {}
    BY <1>1, <1>4, CallKeeps
  <2>2. Marks => S \in SUBSET K /\ Tri(K, S, d)'
    BY <1>1, <1>4, <2>1, CallMarks DEF Sound
  <2>3. Sound(K, o, d, S)'
    BY <1>2, <1>3, <2>1, <2>2 DEF Sound
  <2> QED
    BY <2>3
<1>5. CASE Fail \/ Return \/ UNCHANGED gcVars
  <2>0. UNCHANGED <<heap, registers, bindings, loc, todo, mpc, hook, node, cpc, chunk, scan, pass, black, white>>
    BY <1>5 DEF Fail, Return, gcVars, shared, opVars, collectorVars
  <2>1. Shape(K, o, c)'
    BY <1>1, <2>0, Unmoved
  <2>2. Marks => S \in SUBSET K /\ Tri(K, S, c)'
    BY <2>0, NothingMarks DEF Sound
  <2>3. Sound(K, o, c, S)'
    BY <1>2, <1>3, <2>1, <2>2 DEF Sound
  <2> QED
    BY <2>3
<1> QED
  BY <1>4, <1>5

LEMMA CollectorSound ==
  ASSUME NEW K, NEW o, NEW c, NEW S, Sound(K, o, c, S), collector_list \in Pointer, CollectorStep
  PROVE  \E M, q, d, T : Sound(M, q, d, T)'
<1>1. Shape(K, o, c) /\ CollectorInRange /\ HeldKept
  BY DEF Sound
<1>2. CASE Handover
  <2>1. Shape(K, o, c)' /\ CollectorInRange' /\ HeldKept' /\ Tri(K, {}, c)'
    BY <1>1, <1>2, HandoverStarts
  <2>2. Marks'
    BY <1>2 DEF Handover, HandsOver, Marks
  <2>3. Sound(K, o, c, {})'
    BY <2>1, <2>2 DEF Sound
  <2> QED
    BY <2>3
<1>3. ~ Handover => HeldKept'
  <2>1. ~ Handover => UNCHANGED <<mpc, todo, loc, registers>>
    BY DEF CollectorStep, MarkRoot, FindHere, FindNext, FindPassOver, DarkenFirst, DarkenSecond, Darken,
           DarkenWrite, Blacken, Build, Builds, BuildOver, Marking, MutatorIdle, opVars
  <2> QED
    BY <1>1, <2>1 DEF HeldKept, now, P, X
<1>4. ASSUME NEW T, ~ Handover, Marks', Shape(K, o, c)', CollectorInRange', T \in SUBSET K, Tri(K, T, c)'
      PROVE  \E M, q, d, U : Sound(M, q, d, U)'
  <2>1. Sound(K, o, c, T)'
    BY <1>3, <1>4 DEF Sound
  <2> QED
    BY <2>1
<1>5. ~ Build /\ ~ BuildOver /\ ~ Handover => Marks /\ S \in SUBSET K /\ Tri(K, S, c)
  <2>1. ~ Build /\ ~ BuildOver /\ ~ Handover => Marks
    BY DEF CollectorStep, MarkRoot, FindHere, FindNext, FindPassOver, DarkenFirst, DarkenSecond, Darken,
           DarkenWrite, Blacken, Marks
  <2> QED
    BY <2>1 DEF Sound
<1>6. CASE MarkRoot
  <2>1. ~ Build /\ ~ BuildOver /\ ~ Handover /\ Marks'
    BY <1>6 DEF MarkRoot, Build, Builds, BuildOver, Handover, HandsOver, Marks
  <2>2. Shape(K, o, c)' /\ CollectorInRange' /\ Tri(K, S, c)'
    BY <1>1, <1>5, <1>6, <2>1, MarkRootKeeps
  <2> QED
    BY <1>4, <1>5, <2>1, <2>2
<1>7. CASE FindHere \/ FindNext \/ (FindPassOver /\ cpc' # "build")
  <2>1. ~ Build /\ ~ BuildOver /\ ~ Handover /\ Marks'
    BY <1>7 DEF FindHere, FindNext, FindPassOver, Build, Builds, BuildOver, Handover, HandsOver, Marks
  <2>2. Shape(K, o, c)' /\ CollectorInRange' /\ Tri(K, S, c)'
    BY <1>1, <1>5, <1>7, <2>1, FindKeeps
  <2> QED
    BY <1>4, <1>5, <2>1, <2>2
<1>8. CASE FindPassOver /\ cpc' = "build"
  <2>1. ~ Build /\ ~ BuildOver /\ ~ Handover
    BY <1>8 DEF FindPassOver, Build, Builds, BuildOver, Handover, HandsOver
  <2>2. PICK q : q = Within(o, S)
    OBVIOUS
  <2>3. Shape(S, q, c)' /\ CollectorInRange' /\ NoWhite(S)'
    BY <1>1, <1>5, <1>8, <2>1, <2>2, GoesToBuildKeeps
  <2>4. ~ Marks'
    BY <1>8 DEF Marks
  <2>5. Sound(S, q, c, S)'
    BY <1>3, <2>1, <2>3, <2>4 DEF Sound
  <2> QED
    BY <2>5
<1>9. CASE DarkenFirst \/ DarkenSecond
  <2>1. ~ Build /\ ~ BuildOver /\ ~ Handover /\ Marks'
    BY <1>9 DEF DarkenFirst, DarkenSecond, Darken, Build, Builds, BuildOver, Handover, HandsOver, Marks
  <2>2. PICK k \in {1, 2} : (k = 1 /\ DarkenFirst) \/ (k = 2 /\ DarkenSecond)
    BY <1>9
  <2>3. Shape(K, o, c)' /\ CollectorInRange' /\ Tri(K, S, c)'
    BY <1>1, <1>5, <2>1, <2>2, DarkenReadKeeps
  <2> QED
    BY <1>4, <1>5, <2>1, <2>3
<1>10. CASE DarkenWrite
  <2>1. ~ Build /\ ~ BuildOver /\ ~ Handover /\ Marks'
    BY <1>10 DEF DarkenWrite, Build, Builds, BuildOver, Handover, HandsOver, Marks
  <2>2. PICK T : T = Greyed(S, scan)
    OBVIOUS
  <2>3. Shape(K, o, c)' /\ CollectorInRange' /\ T \in SUBSET K /\ Tri(K, T, c)'
    BY <1>1, <1>5, <1>10, <2>1, <2>2, DarkenWriteKeeps
  <2> QED
    BY <1>4, <2>1, <2>3
<1>11. CASE Blacken
  <2>1. ~ Build /\ ~ BuildOver /\ ~ Handover /\ Marks'
    BY <1>11 DEF Blacken, Build, Builds, BuildOver, Handover, HandsOver, Marks
  <2>2. PICK T : T = S \cup WithNode(chunk)
    OBVIOUS
  <2>3. Shape(K, o, c)' /\ CollectorInRange' /\ T \in SUBSET K /\ Tri(K, T, c)'
    BY <1>1, <1>5, <1>11, <2>1, <2>2, BlackenKeeps
  <2> QED
    BY <1>4, <2>1, <2>3
<1>12. CASE Build \/ BuildOver
  <2>1. ~ Handover /\ ~ Marks /\ ~ Marks'
    BY <1>12 DEF Build, Builds, BuildOver, Handover, HandsOver, Marks
  <2>2. Shape(K, o, c)' /\ CollectorInRange' /\ NoWhite(K)'
    BY <1>1, <1>12, <2>1, BuildKeeps DEF Sound
  <2>3. Sound(K, o, c, S)'
    BY <1>3, <2>1, <2>2 DEF Sound
  <2> QED
    BY <2>3
<1> QED
  BY <1>2, <1>6, <1>7, <1>8, <1>9, <1>10, <1>11, <1>12 DEF CollectorStep

=============================================================================
