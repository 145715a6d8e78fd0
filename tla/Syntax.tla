------------------------------- MODULE Syntax --------------------------------
(***************************************************************************)
(* From a program's text to its code block and back: the scanner flex      *)
(* makes of sina_lexer.l, the LALR(1) parser bison makes of sina_parser.y, *)
(* and pprint, with which main shows the result.                           *)
(*                                                                         *)
(* A text is a sequence of pieces <<kind, value>>: numbers, names of one   *)
(* letter, ( ) { } : the quote, the ends of comments, ends of lines, and   *)
(* characters that mean nothing: printable ("other") and not ("foreign").  *)
(* Blanks separate pieces and are left out; a character in quotes is a     *)
(* number like any other.  The code that results is a tree; how its chunks *)
(* are linked is the matter of Builtins and ProgramRun.                    *)
(***************************************************************************)
EXTENDS SymbolTable, Integers, SequencesExt

CONSTANTS Texts,         \* programs
          Character(_)   \* the number of a piece that stands in a string

VARIABLES text,
          pos,           \* of the scanner
          yytext,        \* the pieces of the last token
          lookahead,     \* <<token, yylval>>, or none
          stack,         \* bison's: <<symbol, value>>
          code,
          result,        \* of yyparse
          printed        \* by main

vars == <<tables, text, pos, yytext, lookahead, stack, code, result, printed>>
parser == <<stack, code, result>>

none == <<"none", 0>>
Kind(piece) == piece[1]
Value(piece) == piece[2]

Init ==
  /\ TablesInit
  /\ text \in Texts /\ pos = 1 /\ yytext = <<>>
  /\ lookahead = none /\ stack = <<>> /\ code = none /\ result = "none" /\ printed = <<>>

-----------------------------------------------------------------------------
(* The scanner: the longest match at pos.                                  *)

Brackets == {"(", ")", "{", "}"}
Punctuation == Brackets \cup {":"}

(* Where a piece of this kind stands further on in the line                *)
Later(kind) ==
  {k \in pos + 1 .. Len(text) :
     Kind(text[k]) = kind /\ \A j \in pos .. k : Kind(text[j]) # "newline"}

AtEnd == pos > Len(text)
here == text[pos]

(* .* takes as much of the line as it can. *)
Until(kind) ==
  IF Later(kind) = {} THEN pos ELSE CHOOSE k \in Later(kind) : \A j \in Later(kind) : j <= k

(* The patterns for comments and strings, and those of one piece           *)
MatchEnd ==
  CASE Kind(here) = "/*" -> Until("*/")
    [] Kind(here) = "quote" -> Until("quote")
    [] OTHER -> pos

Skipped == Kind(here) = "newline" \/ (Kind(here) = "/*" /\ MatchEnd > pos)

(* What yylex returns; a byte beyond ASCII is a negative char, which bison *)
(* takes for the end of the input.                                         *)
Token(id) ==
  CASE Kind(here) = "number" -> <<"INTEGER", Value(here)>>
    [] Kind(here) = "name" -> <<"SYMBOL", id>>
    [] Kind(here) = "quote" /\ MatchEnd > pos -> <<"STRING", 0>>
    [] Kind(here) \in Punctuation -> <<Kind(here), 0>>
    [] Kind(here) = "foreign" -> <<"end", 0>>
    [] OTHER -> <<"other", 0>>

Top == IF stack = <<>> THEN "bottom" ELSE Last(stack)[1]
Below(k) == IF Len(stack) <= k THEN "bottom" ELSE stack[Len(stack) - k][1]

(* Mutant: a token is always read before the next reduction.               *)
NeedsLookahead_Always == TRUE

(* Every other state of the parser has one thing to do, and does it        *)
(* without a look at the next token.                                       *)
NeedsLookahead == Top \in {"list_elements", ":"}

Scanning == result = "none" /\ lookahead = none /\ NeedsLookahead

(* Mutant: what is skipped is not left behind. *)
Skip_Stays ==
  /\ Scanning /\ ~ AtEnd /\ Skipped
  /\ pos' = MatchEnd
  /\ UNCHANGED <<tables, text, yytext, lookahead, parser, printed>>

Skip ==
  /\ Scanning /\ ~ AtEnd /\ Skipped
  /\ pos' = MatchEnd + 1
  /\ UNCHANGED <<tables, text, yytext, lookahead, parser, printed>>

Scan ==
  /\ Scanning /\ ~ AtEnd /\ ~ Skipped
  /\ IF Kind(here) = "name"
     THEN \E id \in 1 .. lastid + 1 :
            symbols_insert(Value(here), id) /\ lookahead' = Token(id)
     ELSE lookahead' = Token(0) /\ UNCHANGED tables
  /\ yytext' = SubSeq(text, pos, MatchEnd)
  /\ pos' = MatchEnd + 1
  /\ UNCHANGED <<text, parser, printed>>

ScanEnd ==
  /\ Scanning /\ AtEnd
  /\ lookahead' = <<"end", 0>>
  /\ UNCHANGED <<tables, text, pos, yytext, parser, printed>>

-----------------------------------------------------------------------------
(* The parser.                                                             *)

(* Mutant: any bracket closes any other. *)
Closes_Any(token) == Below(1) # "bottom" /\ token \in {")", "}"}

Closes(token) == <<Below(1), token>> \in {<<"(", ")">>, <<"{", "}">>}

Shiftable(token) ==
  \/ Top = "list_elements" /\ (token \in {"INTEGER", "SYMBOL", "STRING", "(", "{", ":"} \/ Closes(token))
  \/ Top = ":" /\ token = "SYMBOL"

Parsing == result = "none"
Ready == Parsing /\ (NeedsLookahead => lookahead # none)

Shift ==
  /\ Ready /\ Shiftable(lookahead[1])
  /\ stack' = Append(stack, lookahead)
  /\ lookahead' = none
  /\ UNCHANGED <<tables, text, pos, yytext, code, result, printed>>

(* The last n symbols make one. *)
Reduced(n, symbol, value) ==
  /\ stack' = Append(SubSeq(stack, 1, Len(stack) - n), <<symbol, value>>)
  /\ UNCHANGED <<tables, text, pos, yytext, lookahead, code, result, printed>>

Of(k) == stack[Len(stack) - k][2]

(* sinavm_new_string: up to the next quote *)
Characters ==
  LET body == Tail(yytext)
      ends == {k \in DOMAIN body : Kind(body[k]) = "quote"} \cup {Len(yytext)}
      end  == CHOOSE k \in ends : \A j \in ends : k <= j
  IN  [k \in 1 .. end - 1 |-> <<"integer", Character(body[k])>>]

Reduce ==
  /\ Ready
  /\ \/ Top \in {"bottom", "(", "{"} /\ Reduced(0, "list_elements", <<>>)
     \/ Top = "INTEGER" /\ Reduced(1, "list_element", <<"integer", Of(0)>>)
     \/ Top = "SYMBOL" /\ Below(1) # ":" /\ Reduced(1, "list_element", <<"symbol", Of(0)>>)
     \/ Top = "SYMBOL" /\ Below(1) = ":" /\ Reduced(2, "list_element", <<"escaped", Of(0)>>)
     \/ Top = "STRING" /\ Reduced(1, "list_element", <<"list", Characters>>)
     \/ Top = ")" /\ Reduced(3, "list_element", <<"list", Of(1)>>)
     \/ Top = "}" /\ Reduced(3, "list_element", <<"block", Of(1)>>)
     \/ Top = "list_element" /\ Reduced(2, "list_elements", Append(Of(1), Of(0)))

(* The program is over, as bison thinks whatever comes next. *)
ReduceProgram ==
  /\ Ready /\ Top = "list_elements" /\ Below(1) = "bottom" /\ ~ Shiftable(lookahead[1])
  /\ code' = <<"block", Of(0)>>
  /\ result' = IF lookahead[1] = "end" THEN "success" ELSE "error"
  /\ UNCHANGED <<tables, text, pos, yytext, lookahead, stack, printed>>

SyntaxError ==
  /\ Ready /\ ~ Shiftable(lookahead[1])
  /\ Top = ":" \/ (Top = "list_elements" /\ Below(1) # "bottom")
  /\ result' = "error"
  /\ UNCHANGED <<tables, text, pos, yytext, lookahead, stack, code, printed>>

-----------------------------------------------------------------------------
(* pprint, as the pieces of a text *)
RECURSIVE pprint(_)
pprint(item) ==
  LET inside == FlattenSeq([k \in DOMAIN Value(item) |-> pprint(Value(item)[k])])
  IN  CASE Kind(item) = "integer" -> <<<<"number", Value(item)>>>>
        [] Kind(item) = "symbol"  -> <<<<"name", symbols_find(Value(item))>>>>
        [] Kind(item) = "escaped" -> <<<<":", 0>>, <<"name", symbols_find(Value(item))>>>>
        [] Kind(item) = "list"    -> <<<<"(", 0>>>> \o inside \o <<<<")", 0>>>>
        [] Kind(item) = "block"   -> <<<<"{", 0>>>> \o inside \o <<<<"}", 0>>>>

ShowCode ==
  /\ result = "success" /\ printed = <<>>
  /\ printed' = pprint(code)
  /\ UNCHANGED <<tables, text, pos, yytext, lookahead, parser>>

Next == Skip \/ Scan \/ ScanEnd \/ Shift \/ Reduce \/ ReduceProgram \/ SyntaxError \/ ShowCode

Spec == Init /\ [][Next]_vars

-----------------------------------------------------------------------------
(* What a text says to its reader, who goes through it piece by piece:     *)
(* comments and strings end where they first can, a string spells a list   *)
(* of numbers, and a byte beyond ASCII is the end.                         *)
Reading(state, piece) ==
  LET in == Kind(piece)
      says(pieces, mode) == [out |-> state.out \o pieces, mode |-> mode]
      wrong == <<<<"other", 0>>>>
  IN  CASE state.mode = "code" ->
             (CASE in = "/*"      -> says(<<>>, "comment")
                [] in = "quote"   -> says(<<<<"(", 0>>>>, "string")
                [] in = "newline" -> state
                [] in = "foreign" -> says(<<>>, "over")
                [] in = "*/"      -> says(wrong, "code")
                [] OTHER          -> says(<<piece>>, "code"))
        [] state.mode = "comment" ->
             (CASE in = "*/"      -> says(<<>>, "code")
                [] in = "newline" -> says(wrong, "code")
                [] OTHER          -> state)
        [] state.mode = "string" ->
             (CASE in = "quote"   -> says(<<<<")", 0>>>>, "code")
                [] in = "newline" -> says(wrong, "code")
                [] OTHER          -> says(<<<<"number", Character(piece)>>>>, "string"))
        [] OTHER -> state

Read == FoldLeft(Reading, [out |-> <<>>, mode |-> "code"], Append(text, <<"newline", 0>>)).out

(* Brackets match, and a colon stands before a name.                       *)
Matching(open, piece) ==
  CASE Kind(piece) \in {"(", "{"} -> Append(open, Kind(piece))
    [] Kind(piece) \in {")", "}"} ->
         IF open # <<>> /\ Last(open) = (IF Kind(piece) = ")" THEN "(" ELSE "{")
         THEN Front(open) ELSE <<"wrong">>
    [] OTHER -> open

Grammatical(pieces) ==
  /\ \A k \in DOMAIN pieces : Kind(pieces[k]) # "other"
  /\ \A k \in DOMAIN pieces : Kind(pieces[k]) = ":" =>
       k < Len(pieces) /\ Kind(pieces[k + 1]) = "name"
  /\ FoldLeft(Matching, <<>>, pieces) = <<>>

(* No line has two strings or two comments: .* in their patterns takes all *)
(* between the first and the last for one.                                 *)
Plain ==
  LET sameLine(j, k) == \A i \in j .. k : Kind(text[i]) # "newline"
      at(kind) == {k \in DOMAIN text : Kind(text[k]) = kind}
  IN  /\ \A j, k \in at("*/") : j < k => ~ sameLine(j, k)
      /\ \A i, j, k \in at("quote") : i < j /\ j < k => ~ sameLine(i, k)

(* yyparse succeeds just on the texts of the language: those whose names,  *)
(* numbers, brackets and colons are in order up to the end of the text, or *)
(* to the first byte beyond ASCII, which the parser takes for it.          *)
ParsesExactly ==
  Plain /\ result # "none" => (result = "success" <=> Grammatical(Read))

(* Printed, the program is the one its author wrote: nothing is lost,      *)
(* doubled or moved between scanner, parser stack, symbol table and        *)
(* printer.                                                                *)
PrintsWhatItRead ==
  Plain /\ printed # <<>> => printed = <<<<"{", 0>>>> \o Read \o <<<<"}", 0>>>>
=============================================================================
