----------------------------- MODULE SymbolTable -----------------------------
(***************************************************************************)
(* sina_symbols.c: two search trees over the same nodes and a counter.     *)
(* tsearch and tfind are external; a tree is the function they make of it. *)
(***************************************************************************)
EXTENDS Naturals

CONSTANT Name

VARIABLES root_name,  \* node->id by node->name
          root_id,    \* node->name by node->id
          lastid

tables == <<root_name, root_id, lastid>>

Empty == [x \in {} |-> 0]

TablesInit == root_name = Empty /\ root_id = Empty /\ lastid = 0

(* tsearch of a new key *)
Adding(tree, key, value) ==
  [k \in DOMAIN tree \cup {key} |-> IF k = key THEN value ELSE tree[k]]

(* Mutant: an old symbol gets a new id as well. *)
symbols_insert_Again(name, id) ==
  /\ id = lastid + 1
  /\ lastid' = id
  /\ root_name' = Adding(root_name, name, id)
  /\ root_id' = Adding(root_id, id, name)

(* Mutant: the second tree is forgotten. *)
symbols_insert_OneTree(name, id) ==
  \/ /\ name \in DOMAIN root_name
     /\ id = root_name[name]
     /\ UNCHANGED tables
  \/ /\ name \notin DOMAIN root_name
     /\ id = lastid + 1
     /\ lastid' = id
     /\ root_name' = Adding(root_name, name, id)
     /\ UNCHANGED root_id

(* id is what symbols_insert returns. *)
symbols_insert(name, id) ==
  \/ /\ name \in DOMAIN root_name
     /\ id = root_name[name]
     /\ UNCHANGED tables
  \/ /\ name \notin DOMAIN root_name
     /\ id = lastid + 1
     /\ lastid' = id
     /\ root_name' = Adding(root_name, name, id)
     /\ root_id' = Adding(root_id, id, name)

(* Where symbols_find does not leave by error_exit, and what it returns    *)
Finds(id) == id \in DOMAIN root_id
symbols_find(id) == root_id[id]

-----------------------------------------------------------------------------

TablesOK ==
  /\ lastid \in Nat
  /\ DOMAIN root_name \subseteq Name
  /\ root_name \in [DOMAIN root_name -> 1 .. lastid]
  /\ root_id \in [1 .. lastid -> Name]

(* symbols_find finds every id symbols_insert has given out, and returns   *)
(* the name it was given out for: no two names share an id.                *)
FindInvertsInsert ==
  /\ \A n \in DOMAIN root_name : Finds(root_name[n]) /\ symbols_find(root_name[n]) = n
  /\ \A i \in DOMAIN root_id : root_id[i] \in DOMAIN root_name /\ root_name[root_id[i]] = i
=============================================================================
