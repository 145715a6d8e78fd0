------------------------------- MODULE Symbols -------------------------------
(***************************************************************************)
(* Symbols from builtins_add over the lexer to the interpreter: the symbol *)
(* table gives them ids, vm->bindings gives the ids their meaning.         *)
(***************************************************************************)
EXTENDS SymbolTable

CONSTANTS Chunk,      \* what a program may bind
          NULL,
          Outside,    \* what may lie in memory behind vm->bindings
          Builtin,    \* names of the builtins
          Native(_),  \* their chunks
          Max         \* SINAVM_MAX_SYMBOLS

ASSUME ConstantsAssumption ==
  /\ Builtin \subseteq Name
  /\ \A n \in Builtin : Native(n) \in Chunk
  /\ NULL \notin Chunk
  /\ Max \in Nat \ {0}

VARIABLES bindings,
          process,
          answer    \* history: the last id dereferenced, and what came back

vars == <<tables, bindings, process, answer>>

(* sinavm_initialize *)
Init ==
  /\ TablesInit
  /\ bindings = [i \in 0 .. Max - 1 |-> NULL]
  /\ process = "initializing"
  /\ answer = <<0, NULL>>

(* Mutant: the limit is taken for a symbol that fits. *)
sinavm_bind_OffByOne(symbol, data) ==
  IF symbol > Max
  THEN process' = "error" /\ UNCHANGED bindings
  ELSE bindings' = Adding(bindings, symbol, data) /\ UNCHANGED process

(* Mutant: ids start at one, so bindings[0] is used for the first.         *)
sinavm_bind_FromOne(symbol, data) ==
  IF symbol >= Max
  THEN process' = "error" /\ UNCHANGED bindings
  ELSE bindings' = [bindings EXCEPT ![symbol - 1] = data] /\ UNCHANGED process

sinavm_bind(symbol, data) ==
  IF symbol >= Max
  THEN process' = "error" /\ UNCHANGED bindings
  ELSE bindings' = [bindings EXCEPT ![symbol] = data] /\ UNCHANGED process

(* What sinavm_dereference_symbol may return: it does not look whether     *)
(* the symbol is in range.                                                 *)
Dereferenced(symbol) ==
  IF symbol < Max THEN {bindings[symbol]} ELSE Outside

(* add_func *)
AddFunc ==
  /\ process = "initializing"
  /\ \E name \in Builtin, id \in 1 .. lastid + 1 : symbols_insert(name, id) /\ sinavm_bind(id, Native(name))
  /\ UNCHANGED answer

(* main *)
Parse     == process = "initializing" /\ Builtin \subseteq DOMAIN root_name
             /\ process' = "parsing"
Interpret == process = "parsing" /\ process' = "running"
Return    == process = "running" /\ process' = "returned"
Refuse    == process = "parsing" /\ process' = "error"

Proceed == (Parse \/ Interpret \/ Refuse \/ Return) /\ UNCHANGED <<tables, bindings, answer>>

(* The lexer comes across a symbol. *)
Lex ==
  /\ process = "parsing"
  /\ \E name \in Name, id \in 1 .. lastid + 1 : symbols_insert(name, id)
  /\ UNCHANGED <<bindings, process, answer>>

(* The program binds a symbol: bind *)
BindSymbol ==
  /\ process = "running"
  /\ \E id \in DOMAIN root_id, data \in Chunk : sinavm_bind(id, data)
  /\ UNCHANGED <<tables, answer>>

(* The program uses a symbol: sina_interpret_symbol *)
UseSymbol ==
  /\ process = "running"
  /\ \E id \in DOMAIN root_id : \E header \in Dereferenced(id) :
       /\ answer' = <<id, header>>
       /\ process' = IF header = NULL THEN "error" ELSE "running"
  /\ UNCHANGED <<tables, bindings>>

Ended == process \in {"returned", "error"} /\ UNCHANGED vars

Next == AddFunc \/ Proceed \/ Lex \/ BindSymbol \/ UseSymbol \/ Ended

Spec == Init /\ [][Next]_vars

-----------------------------------------------------------------------------

TypeOK ==
  /\ TablesOK
  /\ bindings \in [0 .. Max - 1 -> Chunk \cup {NULL}]
  /\ process \in {"initializing", "parsing", "running", "returned", "error"}

(* "If the symbol was allready in the symbol table, return the same        *)
(* numeric identifier as last time" (sina_symbols.h:14), for ever: the     *)
(* program's code holds ids.                                               *)
IdsKept ==
  [][\A n \in DOMAIN root_name : n \in DOMAIN root_name' /\ root_name'[n] = root_name[n]]_vars

(* An id no name has is bound to nothing: a new symbol never inherits a    *)
(* meaning.                                                                *)
NewSymbolsUnbound ==
  \A i \in DOMAIN bindings : i \notin DOMAIN root_id => bindings[i] = NULL

(* The ids, trees and bindings do for names what Environment says: a name  *)
(* means what it was last bound to.                                        *)
E == INSTANCE Environment WITH
       names   <- [i \in 1 .. lastid |-> root_id[i]],
       meaning <- [n \in Name |-> IF n \in DOMAIN root_name /\ root_name[n] < Max
                                  THEN bindings[root_name[n]] ELSE NULL],
       phase   <- process

EnvironmentSpec == E!Spec
=============================================================================
