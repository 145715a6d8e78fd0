------------------------------- MODULE Effects -------------------------------
(***************************************************************************)
(* What the builtins of sina_builtins.c do, as their user sees it: to the  *)
(* data stack, the code stack, the lists and the bindings.                 *)
(*                                                                         *)
(* A vm is a record                                                        *)
(*   ds        items, top first                                            *)
(*   cs        [code, at], innermost first: a block and how far it got     *)
(*   lists     the items of every list, by the list's identity             *)
(*   bindings  what every symbol is bound to, or None                      *)
(* An item is a pair <<type, value>>: an integer, a symbol, an escaped     *)
(* symbol or a native with its name, a list with its identity, a block     *)
(* with its code.  Two items can be the same list, but never the same      *)
(* block: executing a block starts a copy of it.                           *)
(***************************************************************************)
EXTENDS Chunks

CONSTANT Width   \* bits of an int

TypeOf(item) == item[1]
Value(item) == item[2]

None == <<"none", 0>>
Truth(holds) == IF holds THEN <<"integer", 1>> ELSE <<"integer", 0>>

(* The top n items of the data stack make room for others. *)
Replace(vm, n, items) == [vm EXCEPT !.ds = items \o SubSeq(@, n + 1, Len(@))]

PutOnList(vm, list, items) == [vm EXCEPT !.lists = [@ EXCEPT ![list] = items]]

-----------------------------------------------------------------------------
(* Numbers and characters.                                                 *)

(* A sum out of range comes out modulo 2^Width with gcc. *)
Wrap(n) == ((n + 2 ^ (Width - 1)) % (2 ^ Width)) - 2 ^ (Width - 1)

(* C's % truncates towards zero. *)
Remainder(a, b) ==
  LET size(n) == IF n < 0 THEN - n ELSE n
  IN  IF a >= 0 THEN a % size(b) ELSE - (size(a) % size(b))

(* The processor traps. *)
Undefined(name, vm) ==
  /\ name = "mod"
  /\ \/ Value(vm.ds[1]) = 0
     \/ Value(vm.ds[1]) = -1 /\ Value(vm.ds[2]) = - (2 ^ (Width - 1))

(* isalpha and toupper in the C locale *)
Lower == 97 .. 122
Upper == 65 .. 90
isalpha(c) == c \in Lower \cup Upper
toupper(c) == IF c \in Lower THEN c - 32 ELSE c

Unary(name, v) ==
  CASE name = "char-to-upper" -> <<"integer", toupper(v)>>
    [] name = "char-is-alpha" -> Truth(isalpha(v))
    [] name = "not"           -> Truth(v = 0)

(* b is the top of the stack, a the number below it. *)
Binary(name, a, b) ==
  CASE name = "add"    -> <<"integer", Wrap(a + b)>>
    [] name = "sub"    -> <<"integer", Wrap(a - b)>>
    [] name = "mod"    -> <<"integer", Remainder(a, b)>>
    [] name = "equals" -> Truth(a = b)

-----------------------------------------------------------------------------
(* Stacks and lists.                                                       *)

(* Mutant: roll goes the other way. *)
Rolled_Back(a, b, c) == <<c, a, b>>

(* "(a b c) ends up as (b c a)" *)
Rolled(a, b, c) == <<b, c, a>>

Shuffle(name, vm) ==
  LET d == vm.ds
  IN  CASE name \in {"drop", "print-string", "print-int"} -> Replace(vm, 1, <<>>)
        [] name = "dup"  -> Replace(vm, 0, <<d[1]>>)
        [] name = "swap" -> Replace(vm, 2, <<d[2], d[1]>>)
        [] name = "roll" -> Replace(vm, 3, Rolled(d[1], d[2], d[3]))

(* A new list, identified by fresh, with these items on it, onto ds        *)
new_list(vm, fresh, items) ==
  Replace([vm EXCEPT !.lists = (fresh :> items) @@ @], 0, <<<<"list", fresh>>>>)

OnLists(name, vm) ==
  LET top    == vm.ds[1]
      first  == vm.lists[Value(top)]
      second == vm.lists[Value(vm.ds[2])]
  IN  CASE name = "list-is-empty" -> Replace(vm, 1, <<Truth(first = <<>>)>>)
        [] name = "list-head"     ->
             Replace(PutOnList(vm, Value(top), Tail(first)), 1, <<Head(first), top>>)
        [] name = "list-prepend"  ->
             Replace(PutOnList(vm, Value(vm.ds[2]), <<top>> \o second), 1, <<>>)
        [] name \in {"append", "list-append"} ->
             Replace(PutOnList(vm, Value(vm.ds[2]), Append(second, top)), 1, <<>>)

-----------------------------------------------------------------------------
(* Bindings and the code stack.                                            *)

Executed(vm, code) == [vm EXCEPT !.cs = <<[code |-> code, at |-> 1]>> \o @]

(* What the builtin does; fresh is the identity of a list it may make,     *)
(* line what it may read.                                                  *)
Effect(name, vm, fresh, line) ==
  LET d == vm.ds
  IN  CASE name \in {"char-to-upper", "char-is-alpha", "not"} ->
             Replace(vm, 1, <<Unary(name, Value(d[1]))>>)
        [] name \in {"add", "sub", "mod", "equals"} ->
             Replace(vm, 2, <<Binary(name, Value(d[2]), Value(d[1]))>>)
        [] name \in {"list-is-empty", "list-head", "list-prepend", "append", "list-append"} ->
             OnLists(name, vm)
        [] name = "list-new"  -> new_list(vm, fresh, <<>>)
        [] name = "read-line" -> new_list(vm, fresh, line)
        [] name = "bind"      ->
             Replace([vm EXCEPT !.bindings = [@ EXCEPT ![Value(d[1])] = d[2]]], 2, <<>>)
        [] name = "call"      -> Executed(Replace(vm, 1, <<>>), Value(d[1]))
        [] name = "break"     -> [vm EXCEPT !.cs = Tail(@)]
        [] name = "loop"      -> [vm EXCEPT !.cs = [@ EXCEPT ![1].at = 1]]
        [] OTHER              -> Shuffle(name, vm)

(* The builtin's error_asserts hold. *)
HasType(vm, item, type) ==
  CASE type = "any"   -> TRUE
    [] type = "list+" -> TypeOf(item) = "list" /\ vm.lists[Value(item)] # <<>>
    [] OTHER          -> TypeOf(item) = type

Accepts(name, vm) ==
  /\ Len(vm.ds) >= Len(Expects(name))
  /\ \A k \in DOMAIN Expects(name) : HasType(vm, vm.ds[k], Expects(name)[k])
  /\ name \in {"break", "loop"} => vm.cs # <<>>
  /\ name = "print-string" =>
       \A k \in DOMAIN vm.lists[Value(vm.ds[1])] :
         TypeOf(vm.lists[Value(vm.ds[1])][k]) = "integer"

-----------------------------------------------------------------------------

(* The vm without the lists that neither a stack nor a symbol leads to     *)
Trimmed(vm) ==
  LET ListsAmong(items) == {Value(i) : i \in {j \in items : TypeOf(j) = "list"}}
  IN  [vm EXCEPT !.lists =
         [l \in Closure(vm.lists, ListsAmong(Range(vm.ds) \cup Range(vm.bindings)),
                        LAMBDA m : ListsAmong(Range(vm.lists[m]))) |-> vm.lists[l]]]
=============================================================================
