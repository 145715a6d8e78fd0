----------------------------- MODULE ProgramRun -----------------------------
(***************************************************************************)
(* ConcurrentGC under sina_parser.y and sina_interpreter.c: a program is   *)
(* parsed into chunks of the heap and interpreted from there.              *)
(*                                                                         *)
(* A symbol is a number; Native tells the builtins' from the program's.    *)
(***************************************************************************)
EXTENDS ConcurrentGC

CONSTANTS Sources,    \* programs, each as the operations that parse it
          Native      \* the builtins in use: symbol number -> name

VARIABLE phase        \* of sina_interpret's loop: "next" | "done"

vars == <<gcVars, phase>>

Init ==
  /\ GCInit
  /\ todo \in {initialize \o source \o start : source \in Sources}
  /\ phase = "next"

-----------------------------------------------------------------------------

current_block == heap[heap[loc.cs].a].a

(* sina_interpret_symbol: the ways it can go, inside as many calls of _if  *)
(* as have popped their arguments.  What _if has to execute is on top of   *)
(* the stack, its condition goes both ways.                                *)
interpret_symbol(symbol) ==
  LET ways[popped \in Nat, s \in Symbol \cup DOMAIN Native] ==
        IF s \notin DOMAIN Native THEN IF Bound(s) = {} THEN {<<Stop>>} ELSE Bound(s)
        ELSE IF ~ Fits(popped, Native[s]) THEN {<<Stop>>}
        ELSE IF Native[s] # "if" THEN {Program(Native[s])}
        ELSE LET ch == heap[NodeOf(heap, loc.ds, popped + 1)].a
             IN  {if_not} \cup CASE heap[ch].type = "block"  -> {if_block}
                                 [] heap[ch].type = "symbol" ->
                                      {if_symbol(ops) : ops \in ways[popped + 2, Meant(heap[ch].a)]}
                                 [] OTHER -> {<<Stop>>}
  IN  ways[0, Meant(symbol)]

(* interpret_chunk on the block's current item *)
interpret_chunk(header) ==
  CASE heap[header].type = "symbol"  -> interpret_symbol(heap[header].a)
    [] heap[header].type = "escaped" -> {escaped_symbol(heap[header].a)}
    [] OTHER -> {literal("current_block")}

At0 == process = "running" /\ todo = <<>>

Interpreting == UNCHANGED <<heap, shared, registers, mpc, hook, node, tries,
                            collectorVars, lost>>

Fresh == loc' = [x \in {"cs", "ds"} |-> loc[x]]

(* The loop of sina_interpret: the code stack is empty, the topmost block  *)
(* is finished, or its current item is interpreted.                        *)
Finished ==
  /\ At0 /\ phase = "next" /\ IsEmpty(loc.cs)
  /\ process' = "returned"
  /\ Interpreting /\ UNCHANGED <<loc, todo, flowcontrol, phase>>

PopBlock ==
  /\ At0 /\ phase = "next" /\ ~ IsEmpty(loc.cs)
  /\ heap[current_block].b = NULL
  /\ todo' = <<PopFront("cs")>>
  /\ Fresh /\ Interpreting /\ UNCHANGED <<flowcontrol, phase, process>>

Interpret ==
  /\ At0 /\ phase = "next" /\ ~ IsEmpty(loc.cs)
  /\ heap[current_block].b # NULL
  /\ \E ops \in interpret_chunk(heap[heap[current_block].b].a) :
       todo' = <<FirstItem("cs", "current_block"), PushRegister("current_block")>> \o ops
  /\ phase' = "done"
  /\ Fresh /\ Interpreting /\ UNCHANGED <<flowcontrol, process>>

(* Back from interpret_chunk: advance the block, unless it was told not to *)
NextItem ==
  /\ At0 /\ phase = "done"
  /\ todo' = <<PopRegister("current_block")>>
             \o (IF flowcontrol THEN <<>> ELSE <<Advance("current_block")>>)
  /\ flowcontrol' = FALSE
  /\ phase' = "next"
  /\ Interpreting /\ UNCHANGED <<loc, process>>

Mutator == \/ Finished \/ PopBlock \/ Interpret \/ NextItem
           \/ (MutatorStep /\ UNCHANGED phase)

Collector == CollectorStep /\ UNCHANGED phase

Next == Mutator \/ Collector \/ (Ended /\ UNCHANGED phase)

Spec == Init /\ [][Next]_vars

(* Both threads are scheduled. *)
FairSpec == Spec /\ WF_vars(Mutator) /\ WF_vars(Collector)

(* Every builtin gives back the registers it took: whenever it is over they *)
(* hold the interpreter's current block alone, and nothing between two     *)
(* items of a block, however deep the code stack.                          *)
RegistersBalanced ==
  At0 => registers = (IF phase = "next" THEN <<>> ELSE <<loc.current_block>>)

(* Every variable stays in its range. *)
TypeOK == GCTypeOK /\ phase \in {"next", "done"}

=============================================================================
