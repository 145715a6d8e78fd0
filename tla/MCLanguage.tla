----------------------------- MODULE MCLanguage ------------------------------
EXTENDS Cesar

NoLists == <<>>

(* Files of up to three characters: A, x, z, an exclamation mark, end of   *)
(* line; and of four without z                                             *)
Text == UNION {[1 .. n -> {A, 120, 122, 33, EndOfLine}] : n \in 0 .. 3}
        \cup [1 .. 4 -> {A, 120, 33, EndOfLine}]

(* Programs of up to four items.  A program is its own block, and there is *)
(* one more that they may use.                                             *)
Words == {Num(0), Num(1), Esc("f"), Cmd("f"), Blk(<<Cmd("f"), Cmd("loop")>>), Esc("if"), Cmd("if"),
          Cmd("bind"), Cmd("call"), Cmd("break"), Cmd("loop"), Esc("break")}

Small == UNION {[1 .. n -> Words] : n \in 1 .. 4}

(* Programs of up to five items on lists: made, shared, changed            *)
ListWords == {Num(1), Cmd("list-new"), Cmd("dup"), Cmd("list-append"), Cmd("list-prepend"),
              Cmd("list-head"), Cmd("swap"), Cmd("drop")}

OnList == UNION {[1 .. n -> ListWords] : n \in 1 .. 5}

(* Conditionals that execute conditionals, d of them, the innermost one    *)
(* a builtin: ... 1 :roll 1 :if 1 :if if                                   *)
Prepared(type) ==
  CASE type = "symbol" -> <<Esc("f")>>
    [] type = "block"  -> <<Blk(<<Num(1)>>)>>
    [] type = "list"   -> <<Cmd("list-new")>>
    [] type = "list+"  -> <<Cmd("list-new"), Num(1), Cmd("append")>>
    [] OTHER           -> <<Num(1)>>

Nest(d, name) ==
  FlattenSeq([k \in DOMAIN Expects(name) |-> Prepared(Reverse(Expects(name))[k])])
  \o <<Num(1), Esc(name)>> \o FlattenSeq([k \in 1 .. d - 1 |-> <<Num(1), Esc("if")>>])
  \o <<Cmd("if")>>

Nests == {Nest(d, name) : d \in 1 .. 7, name \in BuiltinFunctions}

(* A conditional again and again                                           *)
Again == <<Num(1), Num(1), Esc("drop"), Cmd("if"), Cmd("loop")>>

Programs == Small \cup OnList \cup Nests \cup {Again, <<Num(1)>>, <<Cmd("f"), Cmd("loop")>>}
AllBlocks == [b \in Programs \cup DOMAIN cesar_shift |->
                IF b \in DOMAIN cesar_shift THEN cesar_shift[b] ELSE b]

AllSessions == ({Part("file")} \X Text) \cup ((Small \cup OnList \cup Nests \cup {Again}) \X {<<>>})
AllNames == CesarNames \cup {"f"}
=============================================================================
