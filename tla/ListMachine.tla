---------------------------- MODULE ListMachine -----------------------------
(***************************************************************************)
(* The VM of sinavm.c under a program that may call any builtin next, in a *)
(* single thread: lists, blocks, bindings and registers, everything but    *)
(* where new chunks come from.  ObjectHeap and TwoSpace add that.          *)
(*                                                                         *)
(* The program executes `todo`, a sequence of the operations of Builtins,  *)
(* one operation a step.  An operation that allocates takes two: it puts   *)
(* what it holds into the registers, and it takes it back when it has the  *)
(* new chunk, as the code does.                                            *)
(*                                                                         *)
(* What no chunk, root, register or local refers to any more is dropped    *)
(* from `heap`, and locals nothing reads any more from `loc`: they make no *)
(* difference to what follows.                                             *)
(***************************************************************************)
EXTENDS Chunks

CONSTANTS Symbol,     \* symbols the program may bind
          Calls,      \* what the program may do, by name
          MaxCalls,   \* how much of it is explored
          Setup,      \* operations that come first: the literals of a program
          Knots       \* whether a list is ever put into itself

ASSUME SymbolAssumption == IsFiniteSet(Symbol) /\ Symbol \subseteq Nat

(* if is called by the branch it takes. *)
ASSUME CallsAssumption ==
  Calls \subseteq (BuiltinFunctions \ {"if"})
                  \cup {"if-not", "if-block", "escaped-symbol", "symbol"}

VARIABLES heap, loc, registers, bindings, todo,
          allocating,  \* the operation waits for its chunk
          process, calls

machineVars == <<heap, loc, registers, bindings, todo, allocating, process, calls>>

(* sinavm_initialize *)
MachineInit ==
  /\ heap = <<>>
  /\ loc = [x \in {"cs", "ds"} |-> NULL]
  /\ registers = <<>>
  /\ bindings = [s \in Symbol |-> NULL]
  /\ todo = <<New("list", "cs", 0), New("list", "ds", 0)>> \o Setup
  /\ allocating = FALSE
  /\ process = "running" /\ calls = 0

now == Head(todo)
P == loc[now.p]
X == loc[now.x]

In(ops) == process = "running" /\ todo # <<>> /\ ~ allocating /\ now.op \in ops

(* The locals that ops still reads, and vm->cs and vm->ds *)
Locals(l, ops) == [x \in DOMAIN l \cap ({"cs", "ds"} \cup StillUsed(ops)) |-> l[x]]

Reachable(h, l, r, b) ==
  [i \in ReachIn(h, Range(l) \cup Range(r) \cup Range(b)) |-> h[i]]

(* The operation is over, with this heap, locals, registers and bindings.  *)
Finish(h, l, r, b) ==
  /\ todo' = Tail(todo)
  /\ loc' = Locals(l, Tail(todo)) /\ registers' = r /\ bindings' = b
  /\ heap' = Reachable(h, Locals(l, Tail(todo)), r, b)
  /\ allocating' = FALSE
  /\ UNCHANGED <<process, calls>>

Assigned(x, i) == [y \in DOMAIN loc \cup {x} |-> IF y = x THEN i ELSE loc[y]]

(* h, with something else at n *)
With(h, n, chunk) == [i \in DOMAIN h \cup {n} |-> IF i = n THEN chunk ELSE h[i]]

-----------------------------------------------------------------------------
(* Operations that do not allocate.                                        *)

(* Mutant: the last item leaves a stale last behind. *)
Pop_LastStays ==
  /\ In({"pop_to_register", "pop_front"})
  /\ LET first == heap[P].a
         rest  == [heap EXCEPT ![P].a = heap[first].b]
     IN  IF first = NULL THEN Finish(heap, loc, registers, bindings)
         ELSE IF now.op = "pop_front" THEN Finish(rest, loc, registers, bindings)
         ELSE Finish(rest, Assigned(now.x, heap[first].a),
                     Append(registers, heap[first].a), bindings)

(* sinavm_pop_front_to_register and sinavm_pop_front *)
Pop ==
  /\ In({"pop_to_register", "pop_front"})
  /\ LET first == heap[P].a
         rest  == IF first = heap[P].b
                  THEN [heap EXCEPT ![P].a = NULL, ![P].b = NULL]
                  ELSE [heap EXCEPT ![P].a = heap[first].b]
     IN  IF first = NULL THEN Finish(heap, loc, registers, bindings)
         ELSE IF now.op = "pop_front" THEN Finish(rest, loc, registers, bindings)
         ELSE Finish(rest, Assigned(now.x, heap[first].a),
                     Append(registers, heap[first].a), bindings)

(* Moves a chunk from somewhere into a local. *)
Fetch ==
  /\ In({"pop_register", "front", "current_data", "code", "dereference", "argument"})
  /\ LET chunk == CASE now.op = "pop_register" -> Last(registers)
                    [] now.op = "front"        -> heap[heap[P].a].a
                    [] now.op = "current_data" -> heap[heap[P].b].a
                    [] now.op = "code"         -> heap[P].a
                    [] now.op = "dereference"  -> bindings[now.v]
                    [] now.op = "argument"     -> P
     IN  Finish(heap, Assigned(now.x, chunk),
                IF now.op = "pop_register" THEN Front(registers) ELSE registers, bindings)

(* allocate_push_register, and allocate_pop_register without its value     *)
Keep ==
  /\ In({"push_register", "release"})
  /\ Finish(heap, loc, IF now.op = "release" THEN Front(registers)
                       ELSE Append(registers, P), bindings)

(* sinavm_bind *)
BindSymbol ==
  /\ In({"bind"})
  /\ Finish(heap, loc, registers, [bindings EXCEPT ![heap[P].a] = X])

(* loop rewinds a block *)
Rewinds ==
  /\ In({"rewind"})
  /\ Finish([heap EXCEPT ![P].b = heap[heap[P].a].a], loc, registers, bindings)

-----------------------------------------------------------------------------
(* Operations that allocate, up to the call of allocate_chunk and from     *)
(* there on.                                                               *)

Allocates == {"new", "new_block", "push_front", "push_back"}

(* What they put into the registers meanwhile *)
Held(o) == CASE o.op = "new"       -> <<>>
             [] o.op = "new_block" -> <<o.p>>
             [] OTHER              -> <<o.p, o.x>>

NewType == CASE now.op = "new" -> now.p [] now.op = "new_block" -> "block"
             [] OTHER -> "node"

(* The local that is assigned when the operation is over *)
Result == IF now.op \in {"new", "new_block"} THEN {now.x}
          ELSE IF now.v = 1 THEN {now.p} ELSE {}

Hold ==
  /\ In(Allocates)
  /\ registers' = registers \o [k \in DOMAIN Held(now) |-> loc[Held(now)[k]]]
  /\ loc' = Locals([x \in (DOMAIN loc \ Result) \cup {"cs", "ds"} |-> loc[x]], Tail(todo))
  /\ allocating' = TRUE
  /\ UNCHANGED <<heap, bindings, todo, process, calls>>

(* The chunk is at address n, and no one knows it yet.                     *)
Waiting(ops) == process = "running" /\ allocating /\ now.op \in ops

Released == SubSeq(registers, 1, Len(registers) - Len(Held(now)))
HeldAt(k) == registers[Len(Released) + k]

(* sinavm_new_list, _int, _symbol, _escaped_symbol *)
NewChunk(n) ==
  /\ Waiting({"new"})
  /\ Finish(With(heap, n, [type |-> now.p, a |-> IF now.p = "list" THEN NULL ELSE now.v,
                           b |-> NULL]),
            Assigned(now.x, n), Released, bindings)

(* sinavm_new_block *)
NewBlockChunk(n) ==
  /\ Waiting({"new_block"})
  /\ Finish(With(heap, n, [type |-> "block", a |-> HeldAt(1), b |-> heap[HeldAt(1)].a]),
            Assigned(now.x, n), Released, bindings)

(* sinavm_push_front and sinavm_push_back return the list; a caller may    *)
(* assign it.                                                              *)
Linked(n, node, h) ==
  Finish(With(h, n, node), IF now.v = 1 THEN Assigned(now.p, HeldAt(1)) ELSE loc,
         Released, bindings)

LinkFront(n) ==
  /\ Waiting({"push_front"})
  /\ LET list == HeldAt(1)
     IN  Linked(n, [type |-> "node", a |-> HeldAt(2), b |-> heap[list].a],
                [heap EXCEPT ![list].a = n,
                             ![list].b = IF @ = NULL THEN n ELSE @])

LinkBack(n) ==
  /\ Waiting({"push_back"})
  /\ LET list == HeldAt(1)
     IN  Linked(n, [type |-> "node", a |-> HeldAt(2), b |-> NULL],
                IF heap[list].a = NULL
                THEN [heap EXCEPT ![list].a = n, ![list].b = n]
                ELSE [heap EXCEPT ![heap[list].b].b = n, ![list].b = n])

Fills(n) == NewChunk(n) \/ NewBlockChunk(n) \/ LinkFront(n) \/ LinkBack(n)

(* "If the allocator runs out of memory for allocation then it must stop   *)
(* the execution of the application immediatly" (sina_allocator.h).        *)
OutOfMemory ==
  /\ process = "running" /\ allocating
  /\ process' = "out_of_memory"
  /\ UNCHANGED <<heap, loc, registers, bindings, todo, allocating, calls>>

-----------------------------------------------------------------------------
(* The program.                                                            *)

Idle == process = "running" /\ todo = <<>>

PutsIntoItself(name) ==
  LET item(k) == heap[NodeOf(heap, loc.ds, k)].a
  IN  name \in {"append", "list-append", "list-prepend"} /\ item(2) \in ReachIn(heap, {item(1)})

(* What the interpreter does for the next item of the program: a builtin,  *)
(* an escaped symbol, or a bound symbol.                                   *)
Statements(name) ==
  IF name = "escaped-symbol" THEN {escaped_symbol(s) : s \in Symbol}
  ELSE IF name = "symbol"
       THEN UNION {BoundIn(heap, bindings, MeantIn(heap, bindings, s)) : s \in Symbol}
  ELSE IF \/ ~ FitsIn(heap, loc.ds, 0, name)
          \/ ~ Knots /\ PutsIntoItself(name)
          \/ name \in {"break", "loop"} /\ EmptyIn(heap, loc.cs)
       THEN {}
  ELSE {Program(name)}

CallOf(name) ==
  /\ Idle /\ calls < MaxCalls
  /\ todo' \in Statements(name)
  /\ calls' = calls + 1
  /\ UNCHANGED <<heap, loc, registers, bindings, allocating, process>>

Call == \E name \in Calls : CallOf(name)

Return ==
  /\ Idle
  /\ process' = "returned"
  /\ UNCHANGED <<heap, loc, registers, bindings, todo, allocating, calls>>

Operation == Pop \/ Fetch \/ Keep \/ BindSymbol \/ Rewinds \/ Hold

Work == Operation \/ Call \/ Return

-----------------------------------------------------------------------------
Links == [i \in {j \in DOMAIN heap : heap[j].type = "node"} |-> heap[i]]

(* A list's last node is the last one a walk from its first comes to, and  *)
(* an empty list has neither.                                              *)
ListsWellFormed ==
  ~ allocating => \A l \in {i \in DOMAIN heap : heap[i].type = "list"} :
    /\ heap[l].a = NULL <=> heap[l].b = NULL
    /\ heap[l].b # NULL => heap[heap[l].b].b = NULL /\ heap[l].b \in ChainIn(Links, heap[l].a)
=============================================================================
