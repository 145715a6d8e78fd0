------------------------------ MODULE FrontEnd -------------------------------
(***************************************************************************)
(* main: the builtins get their names, a text is scanned, parsed and       *)
(* printed, and its code is interpreted, as far as symbols are concerned:  *)
(* Symbols with Syntax as the one who looks names up while a text is read. *)
(***************************************************************************)
EXTENDS Symbols, Sequences

CONSTANTS Texts, Character(_)

VARIABLES text, pos, yytext, lookahead, stack, code, result, printed

S == INSTANCE Syntax

symbolVars == <<bindings, process, answer>>
readVars   == <<text, pos, yytext, lookahead, stack, code, result, printed>>

MainInit == Init /\ S!Init

(* yyparse, and pprint of what it returns *)
ReadText == process = "parsing" /\ S!Next /\ UNCHANGED symbolVars

Begin  == Parse /\ UNCHANGED <<tables, bindings, answer, readVars>>
Run    == Interpret /\ printed # <<>> /\ UNCHANGED <<tables, bindings, answer, readVars>>
Reject == Refuse /\ result = "error" /\ UNCHANGED <<tables, bindings, answer, readVars>>
Finish == Return /\ UNCHANGED <<tables, bindings, answer, readVars>>

(* What the program does with symbols *)
Interpreting == (BindSymbol \/ UseSymbol) /\ UNCHANGED readVars

MainNext ==
  \/ AddFunc /\ UNCHANGED readVars
  \/ Begin \/ ReadText \/ Run \/ Reject
  \/ Interpreting \/ Finish
  \/ Ended /\ UNCHANGED readVars

(* Nothing stops the only thread. *)
MainSpec == MainInit /\ [][MainNext]_<<vars, readVars>> /\ WF_<<vars, readVars>>(MainNext)

-----------------------------------------------------------------------------
(* yyparse accepts the texts of the language and no others, with the names *)
(* of the builtins in the symbol table already.                            *)
ParsesExactly == S!ParsesExactly

(* The printed program is the one its author wrote: nothing is lost,       *)
(* doubled or moved between scanner, parser stack, symbol table and        *)
(* printer.                                                                *)
PrintsWhatItRead == S!PrintsWhatItRead

(* Every text is read to a verdict: scanner and parser never wait for each *)
(* other, skip without moving or reduce for ever.                          *)
ParseEnds == process = "parsing" ~> result # "none"
=============================================================================
