----------------------------- MODULE StackEffects -----------------------------
(***************************************************************************)
(* ObjectHeap, with the vm as Effects describes it read off the chunks:    *)
(* what each builtin does to list heads, nodes and registers against what  *)
(* it is meant to do to stacks and lists.                                  *)
(***************************************************************************)
EXTENDS ObjectHeap, Effects

VARIABLES before,   \* history: the vm when the last statement began
          last      \* history: what it was

vars == <<machineVars, before, last>>

(* A list's data, from first to last *)
Elements(list) ==
  LET nodes[k \in Nat] == IF k = 0 THEN heap[list].a ELSE heap[nodes[k - 1]].b
      length == CHOOSE n \in 0 .. Cardinality(DOMAIN heap) :
                  /\ \A k \in 0 .. n - 1 : nodes[k] # NULL
                  /\ nodes[n] = NULL
  IN  [k \in 1 .. length |-> heap[nodes[k - 1]].a]

(* Where a block stands: the number of its current node in its code        *)
Place(block) ==
  LET nodes[k \in Nat] == IF k = 0 THEN heap[heap[block].a].a ELSE heap[nodes[k - 1]].b
  IN  1 + CHOOSE k \in 0 .. Cardinality(DOMAIN heap) : nodes[k] = heap[block].b

(* Every number is 1 here; blocks are told apart by their length.              *)
Item(i) ==
  CASE heap[i].type = "integer" -> Truth(TRUE)
    [] heap[i].type = "list"    -> <<"list", i>>
    [] heap[i].type = "block"   -> <<"block", Len(Elements(heap[i].a))>>
    [] OTHER                    -> <<heap[i].type, heap[i].a>>

Items(list) == [k \in DOMAIN Elements(list) |-> Item(Elements(list)[k])]

Vm == [ds       |-> Items(loc.ds),
       cs       |-> [k \in DOMAIN Elements(loc.cs) |->
                       LET block == Elements(loc.cs)[k]
                       IN  [code |-> Value(Item(block)), at |-> Place(block)]],
       lists    |-> [l \in {i \in DOMAIN heap : heap[i].type = "list"} |-> Items(l)],
       bindings |-> [s \in Symbol |-> IF bindings[s] = NULL THEN None ELSE Item(bindings[s])]]

-----------------------------------------------------------------------------

StackInit == Init /\ before = None /\ last = "initialize"

(* Where a chunk lies makes no difference here: take the first free place. *)
AllocateFirst ==
  \E i \in Id \ DOMAIN heap :
    (\A j \in Id \ DOMAIN heap : i <= j) /\ Fills(i)

StackNext ==
  \/ \E name \in Calls :
       CallOf(name) /\ last' = name /\ before' = Trimmed(Vm)
  \/ (Operation \/ AllocateFirst \/ Return) /\ UNCHANGED <<before, last>>
  \/ process # "running" /\ UNCHANGED vars

StackSpec == StackInit /\ [][StackNext]_vars

-----------------------------------------------------------------------------
(* sina_interpret_symbol: what a symbol comes to mean *)
Means(vm, s) ==
  LET means[k \in Nat] ==
        IF k = 0 THEN <<"symbol", s>>
        ELSE IF TypeOf(means[k - 1]) = "symbol" THEN vm.bindings[Value(means[k - 1])]
             ELSE means[k - 1]
  IN  means[Cardinality(Symbol)]

Interpreted(vm, item) ==
  CASE TypeOf(item) = "block"   -> Executed(vm, Value(item))
    [] TypeOf(item) = "escaped" -> Replace(vm, 0, <<<<"symbol", Value(item)>>>>)
    [] OTHER                    -> Replace(vm, 0, <<item>>)

(* What the statement may make of vm, apart from the numbers *)
Results(name, vm) ==
  CASE name = "escaped-symbol" -> {Replace(vm, 0, <<<<"symbol", s>>>>) : s \in Symbol}
    [] name = "symbol"   -> {Interpreted(vm, Means(vm, s)) : s \in {t \in Symbol : Means(vm, t) # None}}
    [] name = "if-not"   -> {Replace(vm, 2, <<>>)}
    [] name = "if-block" -> {Executed(Replace(vm, 2, <<>>), Value(vm.ds[1]))}
    [] OTHER             -> {Effect(name, vm, list, <<Truth(TRUE)>>) : list \in Id}

WithoutNumbers(vm) ==
  [vm EXCEPT !.ds = [k \in DOMAIN @ |-> IF TypeOf(@[k]) = "integer" THEN Truth(TRUE) ELSE @[k]]]

(* Whatever a builtin does to chunks, in the end the stacks, the lists and *)
(* the bindings are what Effects says: no builtin disturbs an item below   *)
(* its arguments, loses one, or leaves a list whose first and last do not  *)
(* fit, and each gives back the registers it took.  Language is true to    *)
(* the C code that far.                                                    *)
EffectsHold ==
  Idle /\ last # "initialize" =>
    /\ \E result \in Results(last, before) : Trimmed(Vm) = Trimmed(WithoutNumbers(result))
    /\ registers = <<>>
=============================================================================
