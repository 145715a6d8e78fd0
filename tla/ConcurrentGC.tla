---------------------------- MODULE ConcurrentGC ----------------------------
(***************************************************************************)
(* The heap of the sina VM under the concurrent garbage collector.  The    *)
(* mutator (the interpreter's thread) runs the list operations of sinavm.c *)
(* with the hooks of concurrent_allocator.c; the collector thread marks    *)
(* and reclaims.  One step is one read or write of shared memory.          *)
(*                                                                         *)
(* The mutator executes `todo`, a sequence of the operations of Builtins.  *)
(* What is put there is up to a client: AnyBuiltin or ProgramRun.          *)
(*                                                                         *)
(* A chunk is a record as in Chunks, and its colour.                       *)
(*                                                                         *)
(* The pthread protocol of a handover is FreeListHandshake; here it is one *)
(* step, because the mutator sleeps while the collector performs it        *)
(* (HandoverWhileMutatorWaits).  Memory is sequentially consistent.        *)
(***************************************************************************)
EXTENDS Chunks

CONSTANTS N,           \* count_chunks
          Symbol       \* symbols the program may bind, the first so many

ASSUME HeapAssumption == N \in Nat /\ N >= 4
ASSUME SymbolAssumption == IsFiniteSet(Symbol) /\ Symbol = 0 .. Cardinality(Symbol) - 1

Addr  == 0 .. N - 1
Half  == N \div 2
grey  == 1
green == 3

VARIABLES
  heap, free_list, collector_list, black, white, bindings, registers,
  loc, todo,                 \* the mutator's C locals, its remaining operations
  mpc, hook, node, tries,    \* ... and where it is inside the first of them
  flowcontrol,               \* the vm's flag
  cpc, chunk, scan, pass,       \* the collector and its locals
  process,                   \* "running", or how the process ended
  lost                       \* history: handovers a chunk has been garbage for

collectorVars == <<cpc, chunk, scan, pass>>
opVars        == <<mpc, hook, node, tries, todo>>
shared        == <<free_list, collector_list, black, white, bindings>>
gcVars == <<heap, shared, registers, loc, opVars, flowcontrol, collectorVars,
            process, lost>>

NoHook == [darken |-> <<>>, blacken |-> NULL, then |-> "op"]

(* allocate_heap, on the way to sinavm_initialize.  With an odd heap the   *)
(* last chunk is on neither list: it is memory fresh from malloc, zero     *)
(* when it comes from the system.                                          *)
FreeChunk(next) == [type |-> "free", colour |-> green, a |-> NULL, b |-> next]

GCInit ==
  /\ heap = [i \in Addr |->
               IF i >= 2 * Half THEN [FreeChunk(NULL) EXCEPT !.colour = 0]
               ELSE FreeChunk(IF i \in {Half - 1, 2 * Half - 1} THEN NULL ELSE i + 1)]
  /\ free_list = 0
  /\ collector_list = Half
  /\ black = 0 /\ white = 2
  /\ bindings = [s \in Symbol |-> NULL]
  /\ registers = <<>>
  /\ loc = [x \in {"cs", "ds"} |-> NULL]
  /\ mpc = "op" /\ hook = NoHook /\ node = NULL /\ tries = 0
  /\ flowcontrol = FALSE
  /\ cpc = "await" /\ chunk = 0 /\ scan = 0 /\ pass = 0
  /\ process = "running"
  /\ lost = [i \in Addr |-> 0]

(* sinavm_initialize: the stacks are the first two chunks of the heap.  It *)
(* also binds each builtin's name to a NATIVE_CHUNK: they are left out.    *)
initialize == <<New("list", "cs", 0), New("list", "ds", 0)>>

-----------------------------------------------------------------------------
(* Chunks.                                                                 *)

IsEmpty(list) == EmptyIn(heap, list)

(* The chunks collector_darken_successors looks at, in its order.          *)
Successors(i) == SuccessorsIn(heap, i)

(* collector_darken_chunk(i) has something to do.                          *)
Darkens(i) == i # NULL /\ heap[i].colour \in {white, green}

Coloured(i, colour) == [heap EXCEPT ![i].colour = colour]

-----------------------------------------------------------------------------
(* Steps of the mutator inside an operation.                               *)

now == Head(todo)

At(pc) == process = "running" /\ todo # <<>> /\ mpc = pc

In(pc, ops) == At(pc) /\ now.op \in ops

P == loc[now.p]
X == loc[now.x]

Assign(x, i) == loc' = [y \in DOMAIN loc \cup {x} |-> IF y = x THEN i ELSE loc[y]]

Stay(pc) == mpc' = pc /\ UNCHANGED todo

(* The operation is over, the mutator goes on with the next one.           *)
Finish == mpc' = "op" /\ todo' = Tail(todo)

AllocatorIdle == UNCHANGED <<free_list, collector_list, black, white, tries,
                             collectorVars, process, lost>>

Goes(h) ==
  LET over == h.darken = <<>> /\ h.blacken = NULL
  IN  /\ hook' = IF over THEN NoHook ELSE h
      /\ Stay(IF over THEN h.then ELSE "hook")

Hook(darken, blacken, then) ==
  Goes([darken |-> darken, blacken |-> blacken, then |-> then])

(* A hook leaves colours as they are once they are grey or black, and they *)
(* stay so until the next handover: such chunks need no look.              *)
Looks(i) == IF Darkens(i) THEN <<i>> ELSE <<>>

LooksAfter(i) ==
  IF Successors(i) = <<>> THEN <<>> ELSE Looks(Successors(i)[1]) \o Looks(Successors(i)[2])

(* mutator_push_hook *)
PushHook(list, data, then) ==
  IF heap[data].colour = green
  THEN Hook(LooksAfter(data) \o Looks(list) \o LooksAfter(list), data, then)
  ELSE Hook(Looks(list) \o LooksAfter(list) \o Looks(data), NULL, then)

(* Mutant: the hook does nothing. *)
PopHook_Forgotten(list, then) == Hook(<<>>, NULL, then)

(* mutator_pop_register_hook *)
PopHook(list, then) ==
  Hook(IF IsEmpty(list) THEN <<>> ELSE Looks(heap[heap[list].a].a), NULL, then)

(* collector_darken_chunk in the mutator: the colour is read, then written *)
HookRead ==
  /\ At("hook") /\ hook.darken # <<>>
  /\ IF Darkens(Head(hook.darken))
     THEN Stay("darken") /\ UNCHANGED hook
     ELSE Goes([hook EXCEPT !.darken = Tail(@)])
  /\ AllocatorIdle /\ UNCHANGED <<heap, bindings, registers, loc, node, flowcontrol>>

HookDarken ==
  /\ At("darken")
  /\ heap' = Coloured(Head(hook.darken), grey)
  /\ Goes([hook EXCEPT !.darken = Tail(@)])
  /\ AllocatorIdle /\ UNCHANGED <<bindings, registers, loc, node, flowcontrol>>

(* data->colour = black_value *)
HookBlacken ==
  /\ At("hook") /\ hook.darken = <<>>
  /\ heap' = Coloured(hook.blacken, black)
  /\ Goes([hook EXCEPT !.blacken = NULL])
  /\ AllocatorIdle /\ UNCHANGED <<bindings, registers, loc, node, flowcontrol>>

-----------------------------------------------------------------------------
(* Lists.                                                                  *)

(* sinavm_push_front and sinavm_push_back, up to the allocation            *)
StartPush ==
  /\ In("op", {"push_front", "push_back"})
  /\ PushHook(P, X, "alloc")
  /\ AllocatorIdle /\ UNCHANGED <<heap, bindings, registers, loc, node, flowcontrol>>

(* list->first = node, and the hook once more: node may be green           *)
LinkFront ==
  /\ In("link", {"push_front"})
  /\ heap' = [heap EXCEPT ![P].a = node]
  /\ Stay("link_hook")
  /\ AllocatorIdle
  /\ UNCHANGED <<bindings, registers, loc, hook, node, flowcontrol>>

LinkHook ==
  /\ At("link_hook")
  /\ PushHook(P, node, "last")
  /\ AllocatorIdle /\ UNCHANGED <<heap, bindings, registers, loc, node, flowcontrol>>

(* list->first = node, or last->next = node                                *)
LinkBack ==
  /\ In("link", {"push_back"})
  /\ heap' = IF heap[P].a = NULL THEN [heap EXCEPT ![P].a = node]
             ELSE [heap EXCEPT ![heap[P].b].b = node]
  /\ Stay("last")
  /\ AllocatorIdle
  /\ UNCHANGED <<bindings, registers, loc, hook, node, flowcontrol>>

(* list->last = node *)
LinkLast ==
  /\ At("last")
  /\ heap' = IF now.op = "push_back" \/ heap[P].b = NULL
             THEN [heap EXCEPT ![P].b = node] ELSE heap
  /\ node' = NULL
  /\ Finish
  /\ AllocatorIdle /\ UNCHANGED <<bindings, registers, loc, hook, flowcontrol>>

(* sinavm_pop_front_to_register, up to the register                        *)
StartPop ==
  /\ In("op", {"pop_to_register"})
  /\ PopHook(P, "unlink")
  /\ AllocatorIdle /\ UNCHANGED <<heap, bindings, registers, loc, node, flowcontrol>>

(* The first node goes: one write, or two if it was the only node.         *)
Unlink ==
  /\ At("unlink") \/ In("op", {"pop_front"})
  /\ IF heap[P].a = NULL THEN Finish /\ UNCHANGED <<heap, registers, loc>>
     ELSE /\ IF heap[P].a = heap[P].b
             THEN Stay("unlink_last") /\ heap' = [heap EXCEPT ![P].a = NULL]
             ELSE Finish /\ heap' = [heap EXCEPT ![P].a = heap[heap[P].a].b]
          /\ IF now.op = "pop_front" THEN UNCHANGED <<registers, loc>>
             ELSE LET result == heap[heap[P].a].a
                  IN  registers' = Append(registers, result) /\ Assign(now.x, result)
  /\ AllocatorIdle /\ UNCHANGED <<bindings, hook, node, flowcontrol>>

UnlinkLast ==
  /\ At("unlink_last")
  /\ heap' = [heap EXCEPT ![P].b = NULL]
  /\ Finish
  /\ AllocatorIdle
  /\ UNCHANGED <<bindings, registers, loc, hook, node, flowcontrol>>

-----------------------------------------------------------------------------
(* Allocation.                                                             *)

(* What an operation's caller of allocate_chunk keeps in the registers     *)
(* meanwhile; only a handover looks there.                                 *)
Held == CASE now.op = "new"       -> <<>>
          [] now.op = "new_block" -> <<P>>
          [] OTHER                -> <<P, X>>

(* The new chunk, as the operation fills it in before anyone can reach it. *)
Filled ==
  CASE now.op = "new" ->
         [type |-> now.p, colour |-> green, b |-> NULL,
          a |-> IF now.p = "list" THEN NULL ELSE now.v]
    [] now.op = "new_block"  -> [type |-> "block", colour |-> green, a |-> P, b |-> heap[P].a]
    [] now.op = "push_front" -> [type |-> "node", colour |-> green, a |-> X, b |-> heap[P].a]
    [] now.op = "push_back"  -> [type |-> "node", colour |-> green, a |-> X, b |-> NULL]

Allocating == At("alloc") \/ In("op", {"new", "new_block"})

(* allocate_chunk with a chunk left                                        *)
Allocate ==
  /\ Allocating /\ free_list # NULL
  /\ free_list' = heap[free_list].b
  /\ heap' = [heap EXCEPT ![free_list] = Filled]
  /\ IF now.op \in {"new", "new_block"}
     THEN Assign(now.x, free_list) /\ Finish /\ UNCHANGED node
     ELSE node' = free_list /\ Stay("link") /\ UNCHANGED loc
  /\ UNCHANGED <<collector_list, black, white, tries, collectorVars, process, lost,
                 bindings, registers, hook, flowcontrol>>

(* mutator_await_free_list: asks for chunks, and asks once more            *)
RunOut ==
  /\ Allocating /\ free_list = NULL
  /\ registers' = registers \o Held
  /\ tries' = 1
  /\ Stay("await")
  /\ UNCHANGED <<heap, shared, loc, hook, node, flowcontrol, collectorVars,
                 process, lost>>

MaxTries == 2

Resume ==
  /\ At("granted") /\ free_list # NULL
  /\ registers' = SubSeq(registers, 1, Len(registers) - Len(Held))
  /\ tries' = 0
  /\ Stay("alloc")
  /\ UNCHANGED <<heap, shared, loc, hook, node, flowcontrol, collectorVars,
                 process, lost>>

(* Mutant: one try too many. *)
Retry_OffByOne ==
  /\ At("granted") /\ free_list = NULL /\ tries <= MaxTries
  /\ tries' = tries + 1
  /\ Stay("await")
  /\ UNCHANGED <<heap, shared, registers, loc, hook, node, flowcontrol,
                 collectorVars, process, lost>>

Retry ==
  /\ At("granted") /\ free_list = NULL /\ tries < MaxTries
  /\ tries' = tries + 1
  /\ Stay("await")
  /\ UNCHANGED <<heap, shared, registers, loc, hook, node, flowcontrol,
                 collectorVars, process, lost>>

GiveUp ==
  /\ At("granted") /\ free_list = NULL /\ tries = MaxTries
  /\ process' = "no_free_chunks"
  /\ UNCHANGED <<heap, shared, registers, loc, opVars, flowcontrol, collectorVars, lost>>

-----------------------------------------------------------------------------
(* Operations that do not allocate and run no hook, in one step.           *)

(* An operation that only moves a chunk into a local                       *)
Fetched ==
  CASE now.op = "pop_register" -> Last(registers)
    [] now.op \in {"front", "current_data"} ->
         heap[IF now.op = "front" THEN heap[P].a ELSE heap[P].b].a
    [] now.op = "code"         -> heap[P].a
    [] now.op = "argument"     -> P
    [] now.op = "dereference"  -> bindings[now.v]

Fetch ==
  /\ In("op", {"pop_register", "front", "current_data", "code", "dereference", "argument"})
  /\ Assign(now.x, Fetched)
  /\ registers' = IF now.op = "pop_register" THEN Front(registers) ELSE registers
  /\ Finish
  /\ AllocatorIdle /\ UNCHANGED <<heap, bindings, hook, node, flowcontrol>>

(* allocate_push_register, and allocate_pop_register without its value     *)
Keep ==
  /\ In("op", {"push_register", "release"})
  /\ registers' = IF now.op = "release" THEN Front(registers) ELSE Append(registers, P)
  /\ Finish
  /\ AllocatorIdle /\ UNCHANGED <<heap, bindings, loc, hook, node, flowcontrol>>

(* sinavm_bind *)
BindSymbol ==
  /\ In("op", {"bind"})
  /\ bindings' = [bindings EXCEPT ![heap[P].a] = X]
  /\ Finish
  /\ AllocatorIdle /\ UNCHANGED <<heap, registers, loc, hook, node, flowcontrol>>

(* loop rewinds a block, the interpreter advances it                       *)
MoveCurrent ==
  /\ In("op", {"rewind", "advance"})
  /\ heap' = [heap EXCEPT ![P].b = IF now.op = "rewind" THEN heap[heap[P].a].a
                                   ELSE heap[heap[P].b].b]
  /\ flowcontrol' = (flowcontrol \/ now.op = "rewind")
  /\ Finish
  /\ AllocatorIdle /\ UNCHANGED <<bindings, registers, loc, hook, node>>

(* error_exit *)
Exit ==
  /\ In("op", {"stop"})
  /\ process' = "error"
  /\ UNCHANGED <<heap, shared, registers, loc, opVars, flowcontrol, collectorVars, lost>>

MutatorStep ==
  \/ HookRead \/ HookDarken \/ HookBlacken
  \/ StartPush \/ LinkFront \/ LinkHook \/ LinkBack \/ LinkLast
  \/ StartPop \/ Unlink \/ UnlinkLast
  \/ Allocate \/ RunOut \/ Resume \/ Retry \/ GiveUp
  \/ Fetch \/ Keep \/ BindSymbol \/ MoveCurrent \/ Exit

-----------------------------------------------------------------------------
(* What a builtin checks before it goes to work, and what a symbol means.  *)

Fits(popped, name) == FitsIn(heap, loc.ds, popped, name)

Meant(s) == MeantIn(heap, bindings, s)

Bound(s) == BoundIn(heap, bindings, s)

-----------------------------------------------------------------------------
(* The collector.                                                          *)

MutatorIdle == UNCHANGED <<registers, loc, opVars, flowcontrol, bindings>>

Marking == MutatorIdle /\ UNCHANGED <<free_list, collector_list, black, white, process, lost>>

(* What the program can still get at: everything that hangs on the stacks, *)
(* the bound symbols and the registers, and on the locals that the         *)
(* operations to come still use.                                           *)
LiveLocals == {"cs", "ds"} \cup (StillUsed(todo) \cap DOMAIN loc)

Roots == {bindings[s] : s \in Symbol} \cup Range(registers) \cup {node}
         \cup {loc[x] : x \in LiveLocals}

Reach(from) == ReachIn(heap, from)

Live == Reach(Roots)

InUse == {i \in Addr : heap[i].type # "free"}

(* collector_main between taking mutex_freelist_ready and giving it up:    *)
(* the collector's list and colours after it, and the chunks it greys      *)
HandsOver(leaves, newBlack, newWhite, greyed) ==
  /\ process = "running"
  /\ mpc = "await" /\ cpc = "await"
  /\ free_list' = collector_list
  /\ collector_list' = leaves
  /\ black' = newBlack /\ white' = newWhite
  /\ heap' = [i \in Addr |-> IF i \in greyed
                             THEN [heap[i] EXCEPT !.colour = grey] ELSE heap[i]]
  /\ lost' = [i \in Addr |-> IF i \notin InUse \ Live THEN 0
                             ELSE IF lost[i] = 3 THEN 3 ELSE lost[i] + 1]
  /\ mpc' = "granted"
  /\ cpc' = "root" /\ scan' = 0
  /\ UNCHANGED <<bindings, registers, loc, hook, node, tries, todo, flowcontrol,
                 chunk, pass, process>>

(* Mutants: collector_list keeps the chunks; white stays what it was; the  *)
(* registers are not coloured.                                             *)
Handover_KeepsList == HandsOver(collector_list, white, black, Range(registers))
Handover_NoSwap    == HandsOver(NULL, white, white, Range(registers))
Handover_Registers == HandsOver(NULL, white, black, {})

Handover == HandsOver(NULL, white, black, Range(registers))

(* collector_mark_root_chunks_grey: ds, cs, then the bound symbols         *)
RootChunks == <<loc.ds, loc.cs>> \o [k \in 1 .. Cardinality(Symbol) |-> bindings[k - 1]]

MarkRoot ==
  /\ process = "running" /\ cpc = "root"
  /\ LET root == RootChunks[scan + 1]
     IN  heap' = IF root = NULL THEN heap ELSE Coloured(root, grey)
  /\ IF scan + 1 < Len(RootChunks) THEN scan' = scan + 1 /\ UNCHANGED cpc
     ELSE scan' = 0 /\ cpc' = "find"
  /\ chunk' = 0
  /\ Marking /\ UNCHANGED pass

(* "check heap multiple times, just to be sure": once is not enough, see   *)
(* the README.  (ScanPasses_One is a mutant.)                              *)
ScanPasses_One == 1

ScanPasses == 3

(* collector_find_grey_chunk(chunk): chunk itself, or else round the heap. *)
(* Round it goes until the increment brings it back to chunk; the wrap to  *)
(* the first chunk of the heap comes after that test.                      *)
FindHere ==
  /\ process = "running" /\ cpc = "find"
  /\ IF heap[chunk].colour = grey
     THEN cpc' = "first" /\ UNCHANGED <<scan, pass>>
     ELSE cpc' = "scan" /\ scan' = chunk /\ pass' = 1
  /\ UNCHANGED <<heap, chunk>> /\ Marking

FindNext ==
  /\ process = "running" /\ cpc = "scan"
  /\ scan + 1 # chunk
  /\ LET next == (scan + 1) % N
     IN  IF heap[next].colour = grey
         THEN cpc' = "first" /\ chunk' = next /\ scan' = 0 /\ pass' = 0
         ELSE scan' = next /\ UNCHANGED <<cpc, chunk, pass>>
  /\ UNCHANGED heap /\ Marking

(* Mutant: the passes are not counted. *)
FindPassOver_Uncounted ==
  /\ process = "running" /\ cpc = "scan"
  /\ scan + 1 = chunk
  /\ scan' = chunk
  /\ UNCHANGED <<heap, cpc, chunk, pass>> /\ Marking

FindPassOver ==
  /\ process = "running" /\ cpc = "scan"
  /\ scan + 1 = chunk
  /\ IF pass < ScanPasses THEN scan' = chunk /\ pass' = pass + 1 /\ UNCHANGED cpc
     ELSE scan' = 0 /\ pass' = 0 /\ cpc' = "build"
  /\ UNCHANGED <<heap, chunk>> /\ Marking

(* collector_darken_successors: reads a word and the colour of the chunk   *)
(* it refers to, then writes the colour.                                   *)
Word(k) == Successors(chunk)[k]

Darken(from, write, to, k) ==
  /\ process = "running" /\ cpc = from
  /\ IF Len(Successors(chunk)) = 2 /\ Darkens(Word(k))
     THEN cpc' = write /\ scan' = Word(k)
     ELSE cpc' = to /\ UNCHANGED scan
  /\ UNCHANGED <<heap, chunk, pass>> /\ Marking

DarkenFirst  == Darken("first", "grey_first", "second", 1)
DarkenSecond == Darken("second", "grey_second", "blacken", 2)

DarkenWrite ==
  /\ process = "running" /\ cpc \in {"grey_first", "grey_second"}
  /\ heap' = Coloured(scan, grey)
  /\ cpc' = IF cpc = "grey_first" THEN "second" ELSE "blacken"
  /\ scan' = 0
  /\ UNCHANGED <<chunk, pass>> /\ Marking

Blacken ==
  /\ process = "running" /\ cpc = "blacken"
  /\ heap' = Coloured(chunk, black)
  /\ cpc' = "find"
  /\ UNCHANGED <<chunk, scan, pass>> /\ Marking

(* collector_build_collector_list, one chunk of the heap after the other   *)
Builds(reclaimed) ==
  /\ process = "running" /\ cpc = "build" /\ scan < N
  /\ IF reclaimed
     THEN /\ heap' = [heap EXCEPT ![scan] = FreeChunk(collector_list)]
          /\ collector_list' = scan
     ELSE UNCHANGED <<heap, collector_list>>
  /\ scan' = scan + 1
  /\ MutatorIdle /\ UNCHANGED <<free_list, black, white, process, lost, cpc, chunk, pass>>

(* Mutant: the last chunk of the heap is left out. *)
Build_OffByOne == Builds(heap[scan].colour = white /\ scan + 1 < N)

Build == Builds(heap[scan].colour = white)

BuildOver ==
  /\ process = "running" /\ cpc = "build" /\ scan = N
  /\ cpc' = "await" /\ scan' = 0 /\ chunk' = 0
  /\ UNCHANGED <<heap, pass>> /\ Marking

CollectorStep ==
  \/ Handover \/ MarkRoot \/ FindHere \/ FindNext \/ FindPassOver
  \/ DarkenFirst \/ DarkenSecond \/ DarkenWrite \/ Blacken \/ Build \/ BuildOver

(* Nothing runs once the process has ended.                                *)
Ended == process # "running" /\ UNCHANGED gcVars

-----------------------------------------------------------------------------
(* Properties.                                                             *)

Types   == {"free", "integer", "symbol", "escaped", "node", "list", "block"}
Pointer == Addr \cup {NULL}

(* Every variable stays in its range. *)
GCTypeOK ==
  /\ heap \in [Addr -> [type : Types, colour : 0 .. 3, a : Pointer \cup Nat, b : Pointer]]
  /\ free_list \in Pointer /\ collector_list \in Pointer
  /\ {black, white} = {0, 2}
  /\ bindings \in [Symbol -> Pointer]
  /\ registers \in Seq(Addr)
  /\ mpc \in {"op", "hook", "darken", "alloc", "await", "granted", "link",
              "link_hook", "last", "unlink", "unlink_last"}
  /\ Range(hook.darken) \subseteq Addr /\ hook.blacken \in Pointer
  /\ node \in Pointer
  /\ tries \in 0 .. MaxTries
  /\ flowcontrol \in BOOLEAN
  /\ cpc \in {"await", "root", "find", "scan", "first", "second", "grey_first",
              "grey_second", "blacken", "build"}
  /\ chunk \in Addr /\ scan \in Nat /\ pass \in 0 .. ScanPasses
  /\ process \in {"running", "returned", "error", "no_free_chunks"}

(* The collector never reclaims a chunk the program can still get at: what *)
(* collector_build_collector_list makes a FREE_CHUNK of, and allocate_chunk *)
(* hands out again, hangs on no stack, symbol, register or live local.     *)
LiveNotFree == \A i \in Live : heap[i].type # "free"

(* A chunk in a register is not collected: "Colour them grey to be sure    *)
(* [they] are not collected" (collector_main).                             *)
RegistersKept == \A i \in Range(registers) : heap[i].type # "free"

(* What the documentation promises, so that a mutator that asks for chunks *)
(* is answered: "If no grey chunks could be found,                         *)
(* [collector_find_grey_chunk] returns NULL" (concurrent_allocator.h).     *)
RequestAnswered == mpc = "await" ~> mpc # "await"

(* The search for a grey chunk that began at the first chunk of the heap,  *)
(* with nothing grey.                                                      *)
Endless == cpc = "scan" /\ chunk = 0 /\ \A i \in Addr : heap[i].colour # grey

(* What the code keeps of it: a mutator that asks for chunks is answered,  *)
(* unless the search has become endless.  Nothing else holds the collector *)
(* up: not what hooks make grey again behind it, nor a list without end.   *)
AnsweredUnlessEndless == mpc = "await" ~> (mpc # "await" \/ Endless)

(* What darkening still has to start from: the grey chunks, the roots not  *)
(* marked yet and the chunks one of the threads is about to turn grey.     *)
Darkening ==
  {i \in Addr : heap[i].colour = grey} \cup Range(hook.darken) \cup {node}
  \cup (IF cpc \in {"grey_first", "grey_second"} THEN {scan} ELSE {})
  \cup (IF cpc = "root" THEN Range(SubSeq(RootChunks, scan + 1, Len(RootChunks))) ELSE {})

White == {i \in Addr : heap[i].colour = white}

(* The mutator cannot hide a chunk from the marking collector: while it    *)
(* marks, every white chunk of the program can be reached from a chunk     *)
(* darkening still has to visit, whatever the program relinks meanwhile,   *)
(* and none is left when it builds its list.                               *)
WhiteProtected ==
  /\ cpc \notin {"await", "build"} => Live \cap White \subseteq Reach(Darkening)
  /\ cpc = "build" => Live \cap White = {}

(* No chunk is white when the colours swap: one that was would turn black, *)
(* and its successors would go unmarked.                                   *)
NothingWhiteAtSwap == cpc = "await" => White = {}

Chain(first) == ChainIn(heap, first)

(* free_list and collector_list hold green FREE_CHUNKs, share none, and    *)
(* lose none: the mutator, writing colours late, does not touch a chunk    *)
(* the collector has reclaimed.                                            *)
FreeListsIntact ==
  LET free == {i \in Addr : heap[i].type = "free" /\ heap[i].colour = green}
  IN  /\ Chain(free_list) \cup Chain(collector_list) = free
      /\ Chain(free_list) \cap Chain(collector_list) = {}

(* Garbage does not float for ever: a chunk that hangs on nothing at three *)
(* handovers in a row has been reclaimed before the third.  There is one   *)
(* way to leak: a node sinavm_push_back linked while nothing was marked    *)
(* stays green, as free chunks are, and the collector takes white only.    *)
Leaked(i) == heap[i].type = "node" /\ heap[i].colour = green

GarbageReclaimed == \A i \in Addr : lost[i] < 3 \/ Leaked(i)

(* What a client sees of the allocator is FreeListService.                 *)
demand == IF process # "running" THEN "ended"
          ELSE IF mpc = "await" THEN "wanted"
          ELSE IF mpc = "granted" THEN "granted" ELSE "none"

Service == INSTANCE FreeListService
  WITH Chunk <- Addr, free <- Chain(free_list), spare <- Chain(collector_list),
       inUse <- Addr \ (Chain(free_list) \cup Chain(collector_list)),
       ready <- cpc = "await"

=============================================================================
