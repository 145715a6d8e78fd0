----------------------------- MODULE MCFrontEnd ------------------------------
EXTENDS FrontEnd, FiniteSets

CONSTANTS native, data, garbage

OfBuiltin(n) == native
ChunksHere == {native, data}
Anything == {native, data, NULL, garbage}

-----------------------------------------------------------------------------
Piece(kind) == <<kind, 0>>
x == <<"name", "x">>
y == <<"name", "y">>

Alphabet ==
  <<<<"number", 1>>, x, y, Piece("("), Piece(")"), Piece("{"), Piece("}"), Piece(":"),
    Piece("quote"), Piece("/*"), Piece("*/"), Piece("newline"), Piece("other"), Piece("foreign")>>

Pieces(n) == {Alphabet[k] : k \in 1 .. n}

(* A piece's number is its place in the alphabet. *)
Number(piece) == CHOOSE k \in DOMAIN Alphabet : Alphabet[k] = piece

(* Every text of up to three pieces, of four that mean something, and of   *)
(* five without strings and comments                                       *)
ShortAndNested ==
  UNION {[1 .. n -> Pieces(14)] : n \in 0 .. 3}
  \cup [1 .. 4 -> Pieces(12)]
  \cup [1 .. 5 -> {x, Piece("("), Piece(")"), Piece("{"), Piece("}"), Piece(":")}]
=============================================================================
