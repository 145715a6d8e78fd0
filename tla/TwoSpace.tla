------------------------------ MODULE TwoSpace -------------------------------
(***************************************************************************)
(* twospace_allocator.c: chunks are handed out one behind the other in one *)
(* half of the memory; when it is full, move_chunk copies what the roots   *)
(* reach into the other half, depth first, and leaves the new address in   *)
(* the old chunk.                                                          *)
(*                                                                         *)
(* An address is a number of bytes: the halves start at 0 and at Half.     *)
(***************************************************************************)
EXTENDS ListMachine

CONSTANTS Half,        \* heap_size
          PointerSize  \* bytes of a pointer: 4 or 8

ASSUME HalfAssumption == Half \in Nat \ {0}
ASSUME PointerAssumption == PointerSize \in {4, 8}

VARIABLES current_heap,   \* where the half in use starts
          heap_position,
          root,           \* the root being moved, 0 outside collect_garbage
          frames,         \* the calls of move_chunk, innermost last
          collected,      \* allocate_chunk has collected already
          id              \* history: who the chunk at an address is

spaceVars == <<current_heap, heap_position, root, frames, collected>>
vars == <<machineVars, spaceVars, id>>

free_heap == IF current_heap = 0 THEN Half ELSE 0

(* The structs of sina_types.h: an integer, a symbol and an escaped symbol *)
(* hold one int, the others two pointers, behind an aligned header.        *)
sizeof_chunk(type) ==
  IF type \in {"integer", "symbol", "escaped"} THEN 8 ELSE 3 * PointerSize

sizeof_moved_chunk == 2 * PointerSize

SpaceInit ==
  /\ MachineInit
  /\ current_heap = 0 /\ heap_position = 0
  /\ root = 0 /\ frames = <<>> /\ collected = FALSE
  /\ id = <<>>

-----------------------------------------------------------------------------
(* allocate_chunk                                                          *)

Asked == process = "running" /\ allocating /\ root = 0

(* Mutant: a chunk that would fill the half exactly is refused.            *)
Room_OffByOne == heap_position - current_heap + sizeof_chunk(NewType) < Half

(* Mutant: the size of the chunk is forgotten.                             *)
Room_Forgotten == heap_position - current_heap < Half

Room == heap_position - current_heap + sizeof_chunk(NewType) <= Half

Stays == [x \in DOMAIN heap' |-> id[x]]

Allocate ==
  /\ Asked /\ Room
  /\ Fills(heap_position)
  /\ heap_position' = heap_position + sizeof_chunk(NewType)
  /\ collected' = FALSE
  /\ id' = [x \in DOMAIN heap' |->
              IF x = heap_position
              THEN CHOOSE i \in 0 .. Half : i \notin Range(id) /\ 0 .. (i - 1) \subseteq Range(id)
              ELSE id[x]]
  /\ UNCHANGED <<current_heap, root, frames>>

StartCollection ==
  /\ Asked /\ ~ Room /\ ~ collected
  /\ heap_position' = free_heap
  /\ root' = 1
  /\ UNCHANGED <<machineVars, current_heap, frames, collected, id>>

RunOut ==
  /\ Asked /\ ~ Room /\ collected
  /\ OutOfMemory
  /\ UNCHANGED <<spaceVars, id>>

-----------------------------------------------------------------------------
(* collect_garbage and move_chunk                                          *)

bound == SetToSeq({s \in Symbol : bindings[s] # NULL})

Roots == <<loc.ds, loc.cs>> \o [k \in DOMAIN bound |-> bindings[bound[k]]] \o registers

(* Mutant: copy_list_head_chunk forgets `last`. *)
Fields_NoLast(type) == CASE type = "block" -> <<"a", "b">>
                         [] type = "list"  -> <<"a">>
                         [] type = "node"  -> <<"b", "a">>
                         [] OTHER          -> <<>>

(* The pointers of a chunk, in the order copy_chunk moves them             *)
Fields(type) == CASE type \in {"list", "block"} -> <<"a", "b">>
                  [] type = "node"              -> <<"b", "a">>
                  [] OTHER                      -> <<>>

Moving == process = "running" /\ root # 0

top == Last(frames)
AllMoved(frame) == frame.next > Len(Fields(heap[frame.new].type))
field == Fields(heap[top.new].type)[top.next]

(* The next pointer to be moved is p. *)
Pointer(p) ==
  /\ Moving
  /\ IF frames = <<>>
     THEN root <= Len(Roots) /\ p = Roots[root]
     ELSE ~ AllMoved(top) /\ p = heap[top.old][field]

(* move_chunk returns `new` to its caller: copy_chunk of the outer frame,  *)
(* or collect_garbage.                                                     *)
StoreInRoot(new, h) ==
  LET k == root - 2 - Len(bound)
  IN  /\ loc' = CASE root = 1 -> [loc EXCEPT !.ds = new]
                  [] root = 2 -> [loc EXCEPT !.cs = new]
                  [] OTHER    -> loc
      /\ bindings' = IF root > 2 /\ k <= 0
                     THEN [bindings EXCEPT ![bound[root - 2]] = new] ELSE bindings
      /\ registers' = IF k > 0 THEN [registers EXCEPT ![k] = new] ELSE registers
      /\ heap' = h /\ frames' = <<>> /\ root' = root + 1

Stored(new, h, outer) ==
  /\ IF outer = <<>> THEN StoreInRoot(new, h)
     ELSE LET caller == Last(outer)
              f      == Fields(h[caller.new].type)[caller.next]
          IN  /\ heap' = [h EXCEPT ![caller.new][f] = new]
              /\ frames' = [outer EXCEPT ![Len(outer)].next = @ + 1]
              /\ UNCHANGED <<loc, bindings, registers, root>>
  /\ UNCHANGED <<todo, allocating, calls, process, current_heap, heap_position, collected, id>>

(* NULL, or moved already *)
Null == Pointer(NULL) /\ Stored(NULL, heap, frames)

Known ==
  \E p \in DOMAIN heap :
    /\ Pointer(p)
    /\ heap[p].type = "moved"
    /\ Stored(heap[p].a, heap, frames)

(* A copy is begun.  Its pointers follow one by one.  Nothing checks that  *)
(* there is room for it.                                                   *)
Enter ==
  \E p \in DOMAIN heap :
    /\ Pointer(p)
    /\ heap[p].type # "moved"
    /\ IF heap[p].type = "clobbered"
       THEN /\ process' = "unknown_type"
            /\ UNCHANGED <<heap, id, frames, heap_position>>
       ELSE IF heap_position + sizeof_chunk(heap[p].type) > free_heap + Half
       THEN /\ process' = "overrun"
            /\ UNCHANGED <<heap, id, frames, heap_position>>
       ELSE /\ heap' = With(heap, heap_position, heap[p])
            /\ id' = With(id, heap_position, id[p])
            /\ frames' = Append(frames, [old |-> p, new |-> heap_position, next |-> 1])
            /\ heap_position' = heap_position + sizeof_chunk(heap[p].type)
            /\ UNCHANGED process
    /\ UNCHANGED <<loc, registers, bindings, todo, allocating, calls, current_heap,
                   root, collected>>

(* Mutant: the old chunk is left as it is. *)
Marked_Forgotten(old, new) == heap

(* The new address is written into the old chunk.  Where the old chunk is  *)
(* too small, the pointer lands on the type of the chunk behind it, which  *)
(* then is none: an address is a multiple of 8, and a type less than that. *)
(* Its low byte may be 0, however, and that is MOVED_CHUNK: where it is,   *)
(* the chunk behind would be taken for moved, to wherever its words lead.  *)
(* No half is assumed to hold a chunk at such an address.                  *)
Marked(old, new) ==
  LET behind == old + sizeof_chunk(heap[new].type)
  IN  [x \in DOMAIN heap |->
         IF x = old THEN [type |-> "moved", a |-> new, b |-> NULL]
         ELSE IF x = behind /\ old + sizeof_moved_chunk > behind
                 /\ old >= current_heap /\ behind < current_heap + Half
         THEN [heap[x] EXCEPT !.type = "clobbered"]
         ELSE heap[x]]

Leave ==
  /\ Moving /\ frames # <<>> /\ AllMoved(top)
  /\ Stored(top.new, Marked(top.old, top.new), Front(frames))

(* Mutant: allocate_chunk collects until there is room. *)
EndCollection_Again ==
  /\ Moving /\ frames = <<>> /\ root > Len(Roots)
  /\ current_heap' = free_heap
  /\ root' = 0 /\ UNCHANGED collected
  /\ heap' = Reachable(heap, loc, registers, bindings)
  /\ id' = Stays
  /\ UNCHANGED <<loc, registers, bindings, todo, allocating, process, calls,
                 frames, heap_position>>

EndCollection ==
  /\ Moving /\ frames = <<>> /\ root > Len(Roots)
  /\ current_heap' = free_heap
  /\ root' = 0 /\ collected' = TRUE
  /\ heap' = Reachable(heap, loc, registers, bindings)
  /\ id' = Stays
  /\ UNCHANGED <<loc, registers, bindings, todo, allocating, process, calls,
                 frames, heap_position>>

-----------------------------------------------------------------------------

Ended == process # "running" /\ UNCHANGED vars

Next ==
  \/ Work /\ UNCHANGED spaceVars /\ id' = Stays
  \/ Allocate \/ StartCollection \/ RunOut
  \/ Null \/ Known \/ Enter \/ Leave \/ EndCollection
  \/ Ended

Spec == SpaceInit /\ [][Next]_vars

(* The program is not stopped for ever. *)
FairSpec == Spec /\ WF_vars(Next)

-----------------------------------------------------------------------------
(* Every pointer the program can use lies in the half in use, however      *)
(* often chunks have moved since it was read: what a builtin holds over an *)
(* allocation must be in a register, and every register must be moved.     *)
Pointers == (Range(loc) \cup Range(registers) \cup Range(bindings)
             \cup UNION {Range(SuccessorsIn(heap, x)) : x \in DOMAIN heap}) \ {NULL}

NoStalePointer ==
  root = 0 => \A p \in Pointers : current_heap <= p /\ p < heap_position

(* Where the contents of chunk i stand: in the original until that is      *)
(* marked, in the finished copy from then on.                              *)
Holder(i) == CHOOSE x \in DOMAIN heap :
               /\ id[x] = i /\ heap[x].type # "moved"
               /\ \A k \in DOMAIN frames : frames[k].new # x

(* A collection leaves nothing but what is still in use, each chunk once:  *)
(* no garbage is copied and no shared chunk twice.                         *)
LiveBytes ==
  FoldSet(LAMBDA i, sum : sum + sizeof_chunk(heap[Holder(i)].type), 0, Range(id))

Compacted == Asked /\ collected => heap_position - current_heap = LiveBytes

(* The process runs out of memory only if what it uses and the new chunk   *)
(* do not fit into one half.                                               *)
RunsOutOnlyWhenFull ==
  process = "out_of_memory" => LiveBytes + sizeof_chunk(NewType) > Half

(* A list that contains itself *)
Knot == \E x \in DOMAIN heap :
          \E y \in Range(SuccessorsIn(heap, x)) \ {NULL} : x \in ReachIn(heap, {y})

(* The copies of a collection fit into the free half: "We can be sure that *)
(* there is enough space in the free heap" (twospace_allocator.c:123); and *)
(* copy_chunk never meets a chunk that is none.  But a list that contains  *)
(* itself is copied over and over until the copies run past the end.       *)
CollectionsSucceed == process # "unknown_type" /\ (process = "overrun" => Knot)

(* A call of allocate_chunk returns or ends the process: it does not       *)
(* collect for ever.                                                       *)
AllocationReturns == allocating ~> (~ allocating \/ process # "running")

(* Every variable stays in its range; the position in the half that is     *)
(* being filled.                                                           *)
TypeOK ==
  /\ current_heap \in {0, Half}
  /\ LET half == IF root = 0 THEN current_heap ELSE free_heap
     IN  heap_position \in half .. half + Half
  /\ root \in 0 .. Len(Roots) + 1
  /\ \A k \in DOMAIN frames : {frames[k].old, frames[k].new} \subseteq DOMAIN heap
  /\ collected \in BOOLEAN /\ DOMAIN id = DOMAIN heap
  /\ process \in {"running", "returned", "out_of_memory", "overrun", "unknown_type"}

-----------------------------------------------------------------------------
(* To its user a moving allocator is one that never moves anything.  Who a *)
(* chunk is does not change when it is copied.                             *)
Stale == -2

Identity(p) == IF p = NULL THEN NULL
               ELSE IF p \notin DOMAIN heap \/ (root = 0 /\ heap[p].type = "moved") THEN Stale
               ELSE id[p]

(* Integers and symbols have one word only. *)
Contents(x) ==
  IF Fields(heap[x].type) = <<>>
  THEN [type |-> heap[x].type, a |-> heap[x].a, b |-> NULL]
  ELSE [type |-> heap[x].type, a |-> Identity(heap[x].a), b |-> Identity(heap[x].b)]

heap_seen      == [i \in Range(id) |-> Contents(Holder(i))]
loc_seen       == [x \in DOMAIN loc |-> Identity(loc[x])]
registers_seen == [k \in DOMAIN registers |-> Identity(registers[k])]
bindings_seen  == [s \in Symbol |-> Identity(bindings[s])]
process_seen   == IF process = "overrun" THEN "out_of_memory" ELSE process

Ideal == INSTANCE ObjectHeap WITH
           Id        <- 0 .. Half,
           heap      <- heap_seen,
           loc       <- loc_seen,
           registers <- registers_seen,
           bindings  <- bindings_seen,
           process   <- process_seen

(* Allocation, collections included, implements ObjectHeap: no chunk       *)
(* changes, splits in two or becomes another under the program's hands.    *)
(* (Where copies run past the end, the process counts as out of memory.)   *)
ImplementsObjectHeap == Ideal!Spec
=============================================================================
