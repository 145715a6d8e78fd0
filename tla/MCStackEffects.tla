--------------------------- MODULE MCStackEffects ----------------------------
EXTENDS StackEffects

(* { 1 } on cs, interpreted to its end: its number is put there after the  *)
(* block is made, so that current is NULL; an empty block, a list of a     *)
(* number and a number on ds                                               *)
Items3 ==
  <<New("list", "l", 0), NewBlock("l", "b"), PushFront("cs", "b"),
    New("integer", "i", 0), PushBack("l", "i"),
    New("list", "l", 0), NewBlock("l", "b"), PushFront("ds", "b"),
    New("list", "l", 0), New("integer", "i", 0), PushBack("l", "i"), PushFront("ds", "l"),
    New("integer", "i", 0), PushFront("ds", "i")>>

All == {"char-to-upper", "char-is-alpha", "list-is-empty", "not", "add", "sub", "mod", "equals",
        "list-head", "list-prepend", "list-new", "read-line", "print-string", "print-int",
        "drop", "dup", "append", "roll", "swap", "bind", "call", "break", "loop", "if-not",
        "if-block", "escaped-symbol", "symbol"}

Places == 1 .. 40
=============================================================================
