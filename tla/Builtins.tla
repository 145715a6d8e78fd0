------------------------------ MODULE Builtins ------------------------------
(***************************************************************************)
(* The built in functions of the sina language, each as the sequence of VM *)
(* operations it performs once its arguments have been checked.  A builtin *)
(* has no state of its own: everything it does to the heap, the stacks and *)
(* the registers goes through these operations, so a machine that runs     *)
(* them (ConcurrentGC) runs the builtins.                                  *)
(*                                                                         *)
(* An operation names the C locals it works on: "ds" and "cs" are the      *)
(* vm's stacks, every other name is a local of the builtin.                *)
(*                                                                         *)
(* Numbers and characters are left out: builtins that compute one integer  *)
(* from one or two others differ in the value alone.                       *)
(***************************************************************************)
EXTENDS Naturals, Sequences

Op(name, p, x) == [op |-> name, p |-> p, x |-> x, v |-> 0]

PopToRegister(list, x) == Op("pop_to_register", list, x)  \* x = list's first item
PopFront(list)         == Op("pop_front", list, "")
PushFront(list, x)     == Op("push_front", list, x)
PushBack(list, x)      == Op("push_back", list, x)
Returning(push)        == [push EXCEPT !.v = 1]           \* list = sinavm_push_*(list, x)
New(type, x, v)        == [op |-> "new", p |-> type, x |-> x, v |-> v]
NewBlock(code, x)      == Op("new_block", code, x)
PushRegister(x)        == Op("push_register", x, "")
PopRegister(x)         == Op("pop_register", "", x)       \* x = last register
Release                == Op("release", "", "")           \* drop last register
FirstItem(list, x)     == Op("front", list, x)            \* x = list->first->data
Code(block, x)         == Op("code", block, x)            \* x = block->code
CurrentData(block, x)  == Op("current_data", block, x)    \* x = current->data
Dereference(s, x)      == [op |-> "dereference", p |-> "", x |-> x, v |-> s]
Bind(sc, x)            == Op("bind", sc, x)               \* sc's symbol to x
Rewind(block)          == Op("rewind", block, "")         \* current = code->first
Advance(block)         == Op("advance", block, "")        \* current = current->next
Argument(list, x)      == Op("argument", list, x)         \* x = list, an argument to come
Stop                   == Op("stop", "", "")              \* error_exit

(* The locals an operation reads, and those that some operation of ops is  *)
(* going to read before another one assigns them.                          *)
Uses(o) ==
  CASE o.op \in {"push_front", "push_back", "bind"} -> {o.p, o.x}
    [] o.op \in {"new", "pop_register", "release", "dereference", "stop"} -> {}
    [] OTHER -> {o.p}

StillUsed(ops) ==
  UNION {{x \in Uses(ops[k]) :
            \A j \in 1 .. k - 1 : ops[j].x # x \/ x \in Uses(ops[j])} :
         k \in DOMAIN ops}

-----------------------------------------------------------------------------

(* One argument, one integer back. *)
unary == <<PopToRegister("ds", "a"), New("integer", "c", 0),
           PushFront("ds", "c"), Release>>

(* Mutant: vm->ds is read before the other argument of the push allocates, *)
(* an order C would allow a compiler.                                      *)
char_is_alpha_DsFirst ==
  <<PopToRegister("ds", "a"), Argument("ds", "list"),
    New("integer", "c", 0), PushFront("list", "c"), Release>>

char_to_upper == unary
char_is_alpha == unary
list_is_empty == unary
_not == unary

(* Mutant: one register is not given back. *)
add_OneRelease ==
  <<PopToRegister("ds", "a"), PopToRegister("ds", "b"),
    New("integer", "c", 0), PushFront("ds", "c"), Release>>

(* Two integers, one integer back. *)
binary == <<PopToRegister("ds", "a"), PopToRegister("ds", "b"),
            New("integer", "c", 0), PushFront("ds", "c"), Release, Release>>

add == binary
sub == binary
mod == binary
equals == binary

list_head == <<PopToRegister("ds", "list"), PopToRegister("list", "data"),
               PushRegister("data"), PushFront("ds", "list"),
               PopRegister("data"), PushFront("ds", "data"),
               Release, Release>>

list_prepend == <<PopToRegister("ds", "ch"), PopToRegister("ds", "list"),
                  Returning(PushFront("list", "ch")), PushFront("ds", "list"),
                  Release, Release>>

list_new == <<New("list", "list", 0), PushFront("ds", "list")>>

(* read_line, for a line of one character *)
read_line == <<New("list", "list", 0), PushRegister("list"),
               PushRegister("list"), New("integer", "i", 0), PopRegister("list"),
               Returning(PushBack("list", "i")), PushFront("ds", "list"), Release>>

print_string == <<PopToRegister("ds", "list"), Release>>
print_int == <<PopToRegister("ds", "i"), Release>>

drop == <<PopFront("ds")>>

_dup == <<FirstItem("ds", "ch"), PushFront("ds", "ch")>>

append == <<PopToRegister("ds", "data"), FirstItem("ds", "list"),
            PushBack("list", "data"), Release>>

(* Mutant: roll puts back what it popped in the same order. *)
roll_SameOrder == <<PopToRegister("ds", "a"), PopToRegister("ds", "b"),
                    PopToRegister("ds", "c"),
                    PushRegister("c"), PushRegister("b"), PushRegister("a"),
                    PopRegister("x"), PushFront("ds", "x"),
                    PopRegister("x"), PushFront("ds", "x"),
                    PopRegister("x"), PushFront("ds", "x"),
                    Release, Release, Release>>

roll == <<PopToRegister("ds", "a"), PopToRegister("ds", "b"),
          PopToRegister("ds", "c"),
          PushRegister("b"), PushRegister("c"), PushRegister("a"),
          PopRegister("x"), PushFront("ds", "x"),
          PopRegister("x"), PushFront("ds", "x"),
          PopRegister("x"), PushFront("ds", "x"),
          Release, Release, Release>>

swap == <<PopToRegister("ds", "a"), PopToRegister("ds", "b"),
          PushRegister("b"), PushRegister("a"),
          PopRegister("x"), PushFront("ds", "x"),
          PopRegister("x"), PushFront("ds", "x"),
          Release, Release>>

bind_symbol == <<PopToRegister("ds", "sc"), PopToRegister("ds", "data"),
                 Bind("sc", "data"), Release, Release>>

-----------------------------------------------------------------------------
(* Flow control and the rest of the interpreter.                           *)

(* sinavm_execute_block: a copy of the block goes onto cs. *)
execute_block(b) == <<PushRegister(b), Code(b, "code"), NewBlock("code", "newblock"),
                      PushFront("cs", "newblock"), PopRegister(b)>>

call == <<PopToRegister("ds", "bc")>> \o execute_block("bc") \o <<Release>>

_break == <<PopFront("cs")>>

loop == <<FirstItem("cs", "bc"), Rewind("bc")>>

(* _if with a false condition, and with a block to execute *)
if_not == <<PopToRegister("ds", "ch"), PopToRegister("ds", "ic"), Release, Release>>

if_block == <<PopToRegister("ds", "ch"), PopToRegister("ds", "ic")>>
            \o execute_block("ch") \o <<Release, Release>>

(* ... and with a symbol, whose meaning is interpreted inside _if          *)
if_symbol(meaning) == <<PopToRegister("ds", "ch"), PopToRegister("ds", "ic")>>
                      \o meaning \o <<Release, Release>>

(* interpret_chunk on an integer, list or block of the program; on an      *)
(* escaped symbol; on a symbol bound to data; on a symbol bound to a block *)
literal(block) == <<CurrentData(block, "header"), PushFront("ds", "header")>>

escaped_symbol(s) == <<New("symbol", "symbol", s), PushFront("ds", "symbol")>>

symbol_data(s) == <<Dereference(s, "header"), PushFront("ds", "header")>>

symbol_block(s) == <<Dereference(s, "header")>> \o execute_block("header")

-----------------------------------------------------------------------------

(* The semantic actions of sina_parser.y for one element of the list in l, *)
(* and for the whole program.  The names stand for values on bison's stack. *)
Adds(l, x)    == Returning(PushBack(l, x))
Number(l)     == <<New("integer", "e", 0), Adds(l, "e")>>
Command(l, s) == <<New("symbol", "e", s), Adds(l, "e")>>
Escaped(l, s) == <<New("escaped", "e", s), Adds(l, "e")>>
List(l, inner, elements) ==
  <<New("list", inner, 0)>> \o elements \o <<Adds(l, inner)>>
Block(l, inner, elements) ==
  <<New("list", inner, 0)>> \o elements \o <<NewBlock(inner, "e"), Adds(l, "e")>>

(* sinavm_new_string, for a string of one character *)
String(l) == <<New("list", "e", 0), PushRegister("e"), New("integer", "c", 0),
               PopRegister("e"), Adds("e", "c"), Adds(l, "e")>>

Whole(elements) == <<New("list", "l0", 0)>> \o elements \o <<NewBlock("l0", "code")>>

(* sina_interpret, before its loop *)
start == <<PushRegister("code"), PushFront("cs", "code"), PopRegister("code")>>

-----------------------------------------------------------------------------

(* What a builtin does, by name. *)
Program(name) ==
  CASE name = "char-to-upper" -> char_to_upper
    [] name = "char-is-alpha" -> char_is_alpha
    [] name = "list-is-empty" -> list_is_empty
    [] name = "not"          -> _not
    [] name = "add"          -> add
    [] name = "sub"          -> sub
    [] name = "mod"          -> mod
    [] name = "equals"       -> equals
    [] name = "list-head"    -> list_head
    [] name = "list-prepend" -> list_prepend
    [] name = "list-new"     -> list_new
    [] name = "read-line"    -> read_line
    [] name = "print-string" -> print_string
    [] name = "print-int"    -> print_int
    [] name = "drop"         -> drop
    [] name = "dup"          -> _dup
    [] name \in {"append", "list-append"} -> append
    [] name = "roll"         -> roll
    [] name = "swap"         -> swap
    [] name = "bind"         -> bind_symbol
    [] name = "call"         -> call
    [] name = "break"        -> _break
    [] name = "loop"         -> loop
    [] name = "if-not"       -> if_not
    [] name = "if-block"     -> if_block

(* builtins_add, but for the two that switch tracing *)
BuiltinFunctions ==
  {"add", "sub", "mod", "swap", "drop", "roll", "append", "bind", "call", "loop", "if", "not",
   "equals", "break", "dup", "print-string", "print-int", "read-line", "list-is-empty",
   "list-new", "list-head", "list-prepend", "list-append", "char-is-alpha", "char-to-upper"}

(* The types a builtin's error_asserts ask for, from the top of ds down;   *)
(* "list+" is a list that is not empty.  What print-string asserts of each *)
(* item of its list is in Effects: as it allocates nothing and changes no  *)
(* chunk, here it may print any list.                                      *)
Expects(name) ==
  CASE name \in {"char-to-upper", "char-is-alpha", "not", "print-int"} -> <<"integer">>
    [] name \in {"add", "sub", "mod", "equals"} -> <<"integer", "integer">>
    [] name \in {"list-is-empty", "print-string"} -> <<"list">>
    [] name = "list-head"    -> <<"list+">>
    [] name \in {"list-prepend", "append", "list-append"} -> <<"any", "list">>
    [] name \in {"drop", "dup"} -> <<"any">>
    [] name = "roll"         -> <<"any", "any", "any">>
    [] name = "swap"         -> <<"any", "any">>
    [] name = "bind"         -> <<"symbol", "any">>
    [] name = "call"         -> <<"block">>
    [] name = "if-not"       -> <<"any", "integer">>
    [] name = "if"           -> <<"any", "integer">>
    [] name = "if-block"     -> <<"block", "integer">>
    [] OTHER                 -> <<>>
=============================================================================
