------------------------------- MODULE Chunks -------------------------------
(***************************************************************************)
(* What can be read off a heap of chunks.  A heap is a function from       *)
(* addresses to chunks, a chunk a record of its type and two words, as in  *)
(* sina_types.h:                                                           *)
(*   list   a = first  b = last        node     a = data  b = next         *)
(*   block  a = code   b = current     free     a = data  b = next         *)
(* and the other types hold a value in a and refer to no chunk.            *)
(***************************************************************************)
EXTENDS Builtins, Integers, FiniteSets, SequencesExt

NULL == -1

(* sinavm_list_empty *)
EmptyIn(h, list) == h[list].a = NULL /\ h[list].b = NULL

(* The chunks a chunk refers to, in the order both collectors follow them. *)
SuccessorsIn(h, i) ==
  CASE h[i].type \in {"list", "block"} -> <<h[i].a, h[i].b>>
    [] h[i].type = "node"              -> <<h[i].b, h[i].a>>
    [] OTHER                           -> <<>>

(* Everything that hangs on the chunks `from` when Next(i) hangs on i      *)
Closure(h, from, Next(_)) ==
  LET R[S \in SUBSET DOMAIN h] ==
        LET more == (S \cup UNION {Next(i) : i \in S}) \ {NULL}
        IN  IF more = S THEN S ELSE R[more]
  IN  R[from \ {NULL}]

ReachIn(h, from) == Closure(h, from, LAMBDA i : Range(SuccessorsIn(h, i)))

(* The list that starts at chunk `first`, linked by its second words       *)
ChainIn(h, first) == Closure(h, {first}, LAMBDA i : {h[i].b})

-----------------------------------------------------------------------------
(* What a builtin checks before it goes to work.                           *)

(* The k-th node of a list *)
NodeOf(h, list, k) ==
  LET at[j \in 1 .. k] == IF j = 1 THEN h[list].a
                          ELSE IF at[j - 1] = NULL THEN NULL ELSE h[at[j - 1]].b
  IN  at[k]

IsA(h, i, type) == CASE type = "any"   -> TRUE
                     [] type = "list+" -> h[i].type = "list" /\ ~ EmptyIn(h, i)
                     [] OTHER          -> h[i].type = type

(* The builtin's error_asserts on its arguments hold, once `popped` items  *)
(* have been taken off the list ds.                                        *)
FitsIn(h, ds, popped, name) ==
  \A k \in DOMAIN Expects(name) :
    LET item == NodeOf(h, ds, popped + k)
    IN  item # NULL /\ IsA(h, h[item].a, Expects(name)[k])

(* sina_interpret_symbol and interpret_chunk call each other as long as a  *)
(* symbol is bound to a symbol.  A cycle of such symbols overflows the C   *)
(* stack: what it means is no operations, the end of the process.          *)
MeantIn(h, bindings, s) ==
  LET meant[k \in 0 .. Cardinality(DOMAIN bindings)] ==
        IF k = 0 THEN s
        ELSE LET t == meant[k - 1]
             IN  IF t \in DOMAIN bindings /\ bindings[t] # NULL
                    /\ h[bindings[t]].type = "symbol"
                 THEN h[bindings[t]].a ELSE t
  IN  meant[Cardinality(DOMAIN bindings)]

BoundIn(h, bindings, s) ==
  LET type == IF bindings[s] = NULL THEN "none" ELSE h[bindings[s]].type
  IN  IF type \in {"none", "symbol"} THEN {}
      ELSE {CASE type = "block"   -> symbol_block(s)
              [] type = "escaped" -> escaped_symbol(h[bindings[s]].a)
              [] OTHER            -> symbol_data(s)}
=============================================================================
