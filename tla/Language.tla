------------------------------ MODULE Language -------------------------------
(***************************************************************************)
(* The interpreter of sina_interpreter.c on whole programs, with numbers,  *)
(* characters, input and output: what a program means, apart from where    *)
(* its chunks are kept.  An item of a block takes a step for every call of *)
(* interpret_chunk it leads to, and one for the way back.                  *)
(***************************************************************************)
EXTENDS Effects

CONSTANTS Blocks,      \* blocks by name: sequences of items
          Sessions,    \* <<program, file>>: a block, and what stdin holds
          Literals,    \* the lists in the program: their items, numbered
          Name,        \* the program's own symbols
          Natives,     \* the builtins in use
          MaxRegisters,\* SINA_ALLOCATOR_MAX_REGISTERS
          MaxItems     \* items on the stacks, and lists, before memory runs out

ASSUME NativesAssumption == Natives \subseteq BuiltinFunctions

VARIABLES vm,            \* sinavm_data
          flowcontrol,   \* its flag
          header,        \* what interpret_chunk is called on, None: nothing
          current_block, \* its place on cs, counted from the bottom; 0: none
          registers,     \* how many are in use
          stdin, stdout,
          process,
          nested,        \* calls of _if on the C stack, around interpret_chunk
          file           \* history: what stdin held

vars == <<vm, flowcontrol, header, current_block, registers, stdin, stdout, process, file, nested>>

EndOfLine == 10

(* sinavm_initialize, sina_parser.y and the start of sina_interpret *)
Init ==
  /\ \E session \in Sessions :
       /\ vm = [ds |-> <<>>, cs |-> <<[code |-> session[1], at |-> 1]>>, lists |-> Literals,
                bindings |-> [s \in Name \cup Natives |->
                                IF s \in Natives THEN <<"native", s>> ELSE None]]
       /\ file = session[2]
  /\ flowcontrol = FALSE /\ header = None /\ current_block = 0 /\ registers = 0 /\ nested = 0
  /\ stdin = file /\ stdout = <<>>
  /\ process = "running"

-----------------------------------------------------------------------------
(* Registers.                                                              *)

(* The most registers a sequence of operations has in use at once, over    *)
(* what was in use before: a push_front or push_back keeps its list and    *)
(* its item, sinavm_new_block its code.                                    *)
Peak(ops) ==
  LET Count(kinds, k) == Cardinality({j \in 1 .. k : ops[j].op \in kinds})
      InUse(k) == Count({"pop_to_register", "push_register"}, k)
                  - Count({"pop_register", "release"}, k)
      During(k) == CASE ops[k].op \in {"push_front", "push_back"} -> InUse(k) + 2
                     [] ops[k].op = "new_block"                  -> InUse(k) + 1
                     [] OTHER                                    -> InUse(k)
  IN  CHOOSE n \in {During(k) : k \in DOMAIN ops} : \A k \in DOMAIN ops : During(k) <= n

Fail(reason) ==
  /\ process' = reason
  /\ UNCHANGED <<vm, flowcontrol, header, current_block, registers, stdin, stdout, file, nested>>

(* interpret_chunk is done, back to sina_interpret. *)
Done(new) ==
  /\ vm' = new
  /\ header' = None
  /\ UNCHANGED <<current_block, process, file, nested>>

Running == process = "running"

-----------------------------------------------------------------------------
(* The loop of sina_interpret.                                             *)

AtBlock == Running /\ current_block = 0 /\ vm.cs # <<>>
code == Blocks[vm.cs[1].code]

Finished ==
  /\ Running /\ current_block = 0 /\ vm.cs = <<>>
  /\ process' = "returned"
  /\ UNCHANGED <<vm, flowcontrol, header, current_block, registers, stdin, stdout, file, nested>>

PopBlock ==
  /\ AtBlock /\ vm.cs[1].at > Len(code)
  /\ vm' = [vm EXCEPT !.cs = Tail(@)]
  /\ UNCHANGED <<flowcontrol, header, current_block, registers, stdin, stdout, process, file,
                 nested>>

Full == Len(vm.cs) + Len(vm.ds) + Cardinality(DOMAIN vm.lists) >= MaxItems

Interpreting(item, cs) ==
  /\ vm' = [vm EXCEPT !.cs = cs]
  /\ header' = item
  /\ current_block' = Len(vm.cs)
  /\ registers' = registers + 1
  /\ UNCHANGED <<flowcontrol, stdin, stdout, process, file, nested>>

(* Mutant: a block is popped when its last item is begun. *)
Interpret_PopFirst ==
  /\ AtBlock /\ vm.cs[1].at <= Len(code) /\ ~ Full
  /\ Interpreting(code[vm.cs[1].at], IF vm.cs[1].at = Len(code) THEN Tail(vm.cs) ELSE vm.cs)

Interpret ==
  /\ AtBlock /\ vm.cs[1].at <= Len(code) /\ ~ Full
  /\ Interpreting(code[vm.cs[1].at], vm.cs)

RunOut == AtBlock /\ Full /\ Fail("out_of_memory")

(* The block whose item it was is advanced, be there another one on top of *)
(* it by now; if it is no longer there, it makes no difference.            *)
Advanced(cs) ==
  IF Len(cs) < current_block THEN cs
  ELSE [cs EXCEPT ![Len(cs) - current_block + 1].at = @ + 1]

(* Mutant: _if gives back one of the two registers it took. *)
Released_One == nested

(* What the _ifs around the symbol give back when they return              *)
Released == 2 * nested

Advancing(flag) ==
  /\ Running /\ current_block # 0 /\ header = None
  /\ vm' = IF flowcontrol THEN vm ELSE [vm EXCEPT !.cs = Advanced(@)]
  /\ flowcontrol' = flag
  /\ current_block' = 0 /\ registers' = registers - Released - 1 /\ nested' = 0
  /\ UNCHANGED <<header, stdin, stdout, process, file>>

(* Mutant: the flow control flag stays set. *)
NextItem_FlagStays == Advancing(flowcontrol)

NextItem == Advancing(FALSE)

-----------------------------------------------------------------------------
(* interpret_chunk and sina_interpret_symbol.                              *)

(* An integer, a list or a block is pushed; an escaped symbol is pushed as *)
(* a symbol.                                                               *)
Push ==
  /\ Running /\ TypeOf(header) \in {"integer", "list", "block", "escaped"}
  /\ IF registers + Peak(literal("current_block")) > MaxRegisters THEN Fail("registers_full")
     ELSE /\ Done(Replace(vm, 0, <<IF TypeOf(header) = "escaped" THEN <<"symbol", Value(header)>>
                                   ELSE header>>))
          /\ UNCHANGED <<flowcontrol, registers, stdin, stdout>>

(* Mutant: sina_interpret_symbol passes on the symbol itself. *)
Meaning_Itself(s) == <<"symbol", s>>

(* sinavm_dereference_symbol *)
Meaning(s) == vm.bindings[s]

(* A symbol bound to a block executes it, another one is interpreted in    *)
(* its stead.                                                              *)
SymbolChunk ==
  /\ Running /\ TypeOf(header) = "symbol"
  /\ LET meaning == Meaning(Value(header))
     IN  CASE meaning = None -> Fail("error")
           [] TypeOf(meaning) = "block" ->
                IF registers + Peak(symbol_block(0)) > MaxRegisters THEN Fail("registers_full")
                ELSE Done(Executed(vm, Value(meaning)))
                     /\ UNCHANGED <<flowcontrol, registers, stdin, stdout>>
           [] OTHER -> /\ header' = meaning
                       /\ UNCHANGED <<vm, flowcontrol, current_block, registers,
                                      stdin, stdout, process, file, nested>>

(* The builtins but for _if.                                               *)
Line ==
  LET ends == {k \in DOMAIN stdin : stdin[k] = EndOfLine}
  IN  IF ends = {} THEN stdin ELSE SubSeq(stdin, 1, CHOOSE k \in ends : \A j \in ends : k <= j)

(* putchar writes the number as an unsigned char. *)
Characters(items) == [k \in DOMAIN items |-> Value(items[k]) % 256]

(* Mutant: the same list is handed out over and over. *)
Fresh_Same == 1

(* The next list to be made *)
Fresh == Cardinality(DOMAIN vm.lists) + 1

Native ==
  \E name \in Natives \ {"if"} :
    /\ Running /\ header = <<"native", name>>
    /\ IF ~ Accepts(name, vm) THEN Fail("error")
       ELSE IF Undefined(name, vm) THEN Fail("crashed")
       ELSE IF registers + Peak(Program(name)) > MaxRegisters THEN Fail("registers_full")
       ELSE /\ Done(Effect(name, vm, Fresh, [k \in DOMAIN Line |-> <<"integer", Line[k]>>]))
            /\ flowcontrol' = (flowcontrol \/ name = "loop")
            /\ stdin' = IF name = "read-line"
                        THEN SubSeq(stdin, Len(Line) + 1, Len(stdin)) ELSE stdin
            /\ stdout' = stdout \o
                 (CASE name = "print-string" -> Characters(vm.lists[Value(vm.ds[1])])
                    [] name = "print-int"    -> Characters(<<vm.ds[1]>>)
                    [] OTHER                 -> <<>>)
            /\ UNCHANGED registers

PopArguments(m) == Replace(m, 2, <<>>)

(* _if: its symbol is interpreted inside it, with its two arguments in     *)
(* registers.                                                              *)
If ==
  /\ Running /\ header = <<"native", "if">>
  /\ LET what == vm.ds[1]
         rest == PopArguments(vm)
         block == registers + Peak(if_block)
     IN  IF ~ Accepts("if", vm) THEN Fail("error")
         ELSE IF registers + 2 > MaxRegisters THEN Fail("registers_full")
         ELSE IF Value(vm.ds[2]) = 0
         THEN Done(rest) /\ UNCHANGED <<flowcontrol, registers, stdin, stdout>>
         ELSE CASE TypeOf(what) = "block" ->
                     IF block > MaxRegisters THEN Fail("registers_full")
                     ELSE Done(Executed(rest, Value(what)))
                          /\ UNCHANGED <<flowcontrol, registers, stdin, stdout>>
                [] TypeOf(what) = "symbol" ->
                     /\ vm' = rest /\ header' = what
                     /\ registers' = registers + 2 /\ nested' = nested + 1
                     /\ UNCHANGED <<flowcontrol, current_block, stdin, stdout, process, file>>
                [] OTHER -> Fail("error")

Ended == ~ Running /\ UNCHANGED vars

Next == Finished \/ PopBlock \/ Interpret \/ RunOut \/ NextItem \/ Push \/ SymbolChunk \/ Native \/ If \/ Ended

Spec == Init /\ [][Next]_vars

(* Nothing stops the only thread. *)
FairSpec == Spec /\ WF_vars(Next)

-----------------------------------------------------------------------------
(* "There is a block on cs, otherwise: how was this called?" (loop,        *)
(* sina_builtins.c:387)                                                    *)
LoopHasBlock == header = <<"native", "loop">> => vm.cs # <<>>

(* "we have a policy of not changing data" (_dup, sina_builtins.c:274): as *)
(* far as it goes.  The builtins of Changing change the list they are      *)
(* given in place, and so whatever else is that list.  Every other list,   *)
(* wherever it is kept, remains as it is, and what lies below a builtin's  *)
(* arguments remains the same.                                             *)
Changing == {"append", "list-append", "list-prepend", "list-head"}

DataUnchanged ==
  [][TypeOf(header) = "native" /\ header' = None =>
       LET name  == Value(header)
           given == IF name \in Changing
                    THEN {Value(vm.ds[CHOOSE k \in DOMAIN Expects(name) :
                                        Expects(name)[k] \in {"list", "list+"}])}
                    ELSE {}
           kept  == Len(vm.ds) - Len(Expects(name))
       IN  /\ \A l \in DOMAIN vm.lists \ given : vm.lists[l] = vm'.lists[l]
           /\ SubSeq(vm'.ds, Len(vm'.ds) - kept + 1, Len(vm'.ds))
                = SubSeq(vm.ds, Len(vm.ds) - kept + 1, Len(vm.ds))]_vars

(* A symbol means what it is bound to, and no item goes on being           *)
(* interpreted for ever: unless symbols are bound in a circle, every call  *)
(* of interpret_chunk returns.  (In a circle it calls itself until the     *)
(* stack of the process overflows.)                                        *)
Circular ==
  \E s \in {b \in Range(vm.bindings) : TypeOf(b) = "symbol"} :
    LET next[k \in Nat] ==
          IF k = 0 THEN s
          ELSE LET item == next[k - 1]
               IN  IF TypeOf(item) = "symbol" THEN vm.bindings[Value(item)] ELSE item
    IN  TypeOf(next[Cardinality(DOMAIN vm.bindings)]) = "symbol"

ItemEnds == current_block # 0 ~> (current_block = 0 \/ ~ Running \/ Circular)

(* "registers full" (sina_allocator.c:13) never ends a program unless      *)
(* conditionals execute the symbols of conditionals, five deep: each level *)
(* has two registers in use, and four leave enough for any builtin.        *)
RegistersSuffice == process = "registers_full" => nested >= 5
=============================================================================
