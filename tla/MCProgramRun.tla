---------------------------- MODULE MCProgramRun ----------------------------
EXTENDS ProgramRun

(* Symbols 0 and 1 are the program's, the others are builtins. *)
MCNative == 2 :> "call" @@ 3 :> "break" @@ 4 :> "loop" @@ 5 :> "if" @@ 6 :> "bind"
            @@ 7 :> "drop" @@ 8 :> "add" @@ 9 :> "swap" @@ 10 :> "roll"
            @@ 11 :> "read-line" @@ 12 :> "list-head" @@ 13 :> "not"
            @@ 14 :> "print-int" @@ 15 :> "print-string"

(* { 1 } call break *)
CallBreak == {Whole(Block("l0", "l1", Number("l1")) \o Command("l0", 2) \o Command("l0", 3))}

(* { } call loop *)
CallLoop == {Whole(Block("l0", "l1", <<>>) \o Command("l0", 2) \o Command("l0", 4))}

(* { 1 } :f bind f drop *)
CallBind == {Whole(Block("l0", "l1", Number("l1")) \o Escaped("l0", 0) \o Command("l0", 6)
                   \o Command("l0", 0) \o Command("l0", 7))}

(* 1 { 1 } if 1 *)
If == {Whole(Number("l0") \o Block("l0", "l1", Number("l1")) \o Command("l0", 5)
             \o Number("l0"))}

(* 1 :if if : _if is given its own symbol, and runs out of arguments *)
IfIf == {Whole(Number("l0") \o Escaped("l0", 5) \o Command("l0", 5))}

(* 1 1 + 1 swap *)
AddSwap == {Whole(Number("l0") \o Number("l0") \o Command("l0", 8)
                  \o Number("l0") \o Command("l0", 9))}

(* 1 1 1 roll *)
Roll == {Whole(Number("l0") \o Number("l0") \o Number("l0") \o Command("l0", 10))}

(* read-line list-head swap *)
ReadLine == {Whole(Command("l0", 11) \o Command("l0", 12) \o Command("l0", 9))}

(* 1 not print-int *)
NotPrint == {Whole(Number("l0") \o Command("l0", 13) \o Command("l0", 14))}

(* "a" print-string (1) list-head *)
Strings == {Whole(String("l0") \o Command("l0", 15)
                  \o List("l0", "l1", Number("l1")) \o Command("l0", 12))}

Programs == CallBind \cup If \cup AddSwap \cup Roll \cup ReadLine \cup NotPrint
            \cup Strings \cup IfIf

(* 1 1 1 1 1 1 *)
Numbers == {Whole(Number("l0") \o Number("l0") \o Number("l0")
                  \o Number("l0") \o Number("l0") \o Number("l0"))}
=============================================================================
