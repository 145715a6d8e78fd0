----------------------------- MODULE MCTwoSpace ------------------------------
EXTENDS TwoSpace

(* { } on the code stack, as sina_interpret puts it there; { } and a       *)
(* number on ds                                                            *)
CodeBlockNumber ==
  <<New("list", "l", 0), NewBlock("l", "code"), PushFront("cs", "code"),
    New("list", "l", 0), NewBlock("l", "b"), PushFront("ds", "b"),
    New("integer", "i", 0), PushFront("ds", "i")>>

Some == {"list-new", "dup", "append", "list-head", "escaped-symbol", "symbol",
         "bind", "call", "loop", "swap", "drop", "add", "char-is-alpha", "list-prepend", "read-line"}
=============================================================================
