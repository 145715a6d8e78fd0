-------------------------------- MODULE Cesar --------------------------------
(***************************************************************************)
(* cesar_shift.sina, the program the allocators are compared with, run by  *)
(* Language.                                                               *)
(***************************************************************************)
EXTENDS Language

Num(v) == <<"integer", v>>
Cmd(s) == <<"symbol", s>>
Esc(s) == <<"escaped", s>>
Blk(b) == <<"block", b>>

A == 65
Z == 90

(* The name of a block of the program *)
Part(name) == <<<<"cesar", name>>>>

cesar_shift ==
  Part("shift-char") :> <<Cmd("dup"), Cmd("char-is-alpha"), Cmd("not"), Esc("break"), Cmd("if"),
                    Cmd("char-to-upper"), Num(A), Cmd("sub"), Num(1), Cmd("add"),
                    Num(Z), Num(A), Cmd("sub"), Cmd("mod"), Num(A), Cmd("add")>>
  @@ Part("each") :> <<Cmd("swap"), Cmd("list-head"), Cmd("cesar-shift-char"),
                 Cmd("roll"), Cmd("roll"), Cmd("swap"), Cmd("list-append"), Cmd("swap"),
                 Cmd("dup"), Cmd("list-is-empty"), Esc("break"), Cmd("if"),
                 Cmd("swap"), Cmd("loop")>>
  @@ Part("shift") :> <<Cmd("list-new"), Blk(Part("each")), Cmd("call"), Cmd("drop")>>
  @@ Part("main") :> <<Cmd("read-line"), Cmd("dup"), Cmd("list-is-empty"), Esc("break"), Cmd("if"),
                 Cmd("cesar-shift"), Cmd("print-string"), Cmd("loop")>>
  @@ Part("file") :> <<Blk(Part("shift-char")), Esc("cesar-shift-char"), Cmd("bind"),
                    Blk(Part("shift")), Esc("cesar-shift"), Cmd("bind"),
                    Blk(Part("main")), Esc("main"), Cmd("bind"), Cmd("main"), Cmd("drop")>>

CesarNames == {"cesar-shift-char", "cesar-shift", "main"}

-----------------------------------------------------------------------------
(* The comments of the program: the types on the data stack, bottom first, *)
(* before the item `at` of a block.                                        *)
char == "integer"
int == "integer"
list == "list"

Comments ==
  Part("shift-char") :> (1 :> <<char>> @@ 2 :> <<char, char>> @@ 4 :> <<char, int>> @@ 6 :> <<char>>
                   @@ 7 :> <<char>> @@ 9 :> <<char>> @@ 11 :> <<char>> @@ 15 :> <<char>>
                   @@ 17 :> <<char>>)
  @@ Part("each") :> (1 :> <<list, list>> @@ 3 :> <<list, list, char>> @@ 4 :> <<list, list, char>>
                @@ 5 :> <<char, list, list>> @@ 6 :> <<list, char, list>>
                @@ 7 :> <<list, list, char>> @@ 8 :> <<list, list>> @@ 10 :> <<list, list, list>>
                @@ 11 :> <<list, list, int>> @@ 13 :> <<list, list>>)
  @@ Part("shift") :> (1 :> <<list>> @@ 2 :> <<list, list>> @@ 3 :> <<list, list, "block">>
                 @@ 4 :> <<list, list>> @@ 5 :> <<list>>)
  @@ Part("main") :> (1 :> <<>> @@ 2 :> <<list>> @@ 3 :> <<list, list>> @@ 4 :> <<list, int>>
                @@ 6 :> <<list>> @@ 7 :> <<list>> @@ 8 :> <<>>)
  @@ Part("file") :> (11 :> <<list>> @@ 12 :> <<>>)

(* Every comment on the data stack in cesar_shift.sina is true whenever    *)
(* the program comes by, on any input: the calls, conditionals, breaks and *)
(* loops in between leave the stack as they should.                        *)
CommentsHold ==
  AtBlock /\ vm.cs[1].code \in DOMAIN Comments /\ vm.cs[1].at \in DOMAIN Comments[vm.cs[1].code] =>
    LET comment == Comments[vm.cs[1].code][vm.cs[1].at]
    IN  /\ Len(vm.ds) >= Len(comment)
        /\ \A k \in DOMAIN comment : TypeOf(vm.ds[Len(comment) - k + 1]) = comment[k]

(* A letter becomes the next one of the alphabet, and a capital; anything  *)
(* else stays as it is.                                                    *)
Shifted(c) == IF isalpha(c) THEN A + ((toupper(c) - A + 1) % 26) ELSE c

(* "cesar shift the character" (cesar_shift.sina:2): whatever it reads,    *)
(* the program comes to its end without an error, a crash or the end of    *)
(* its registers, has written every character shifted, and leaves an empty *)
(* stack.  Only y and z come out wrong, because it counts modulo 25.       *)
ShiftsItsInput ==
  vm.cs = <<[code |-> Part("file"), at |-> 1]>> =>
    <>(/\ process = "returned" /\ vm.ds = <<>>
       /\ DOMAIN stdout = DOMAIN file
       /\ \A k \in DOMAIN file : stdout[k] = Shifted(file[k]) \/ toupper(file[k]) \in {Z - 1, Z})
=============================================================================
