---------------------------- MODULE SymbolsProofs ----------------------------
(***************************************************************************)
(* For any set of names, any builtins and any size of vm->bindings: the    *)
(* symbol table is a numbering of the names that come up, and ids with     *)
(* bindings do for names what Environment says.                            *)
(***************************************************************************)
EXTENDS Symbols, Sequences, TLAPS

Inv == TypeOK /\ FindInvertsInsert /\ NewSymbolsUnbound

(* What symbols_insert does to the tables, whoever calls it: they go on    *)
(* agreeing, no old id changes, and the id it returns is the name's.       *)
LEMMA InsertKeepsTables ==
  ASSUME TablesOK, FindInvertsInsert,
         NEW name \in Name, NEW id, symbols_insert(name, id)
  PROVE  /\ TablesOK' /\ FindInvertsInsert'
         /\ lastid' \in {lastid, lastid + 1}
         /\ id \in 1 .. lastid' /\ root_id'[id] = name
         /\ \A i \in 1 .. lastid : root_id'[i] = root_id[i]
         /\ \A n \in DOMAIN root_name : n \in DOMAIN root_name' /\ root_name'[n] = root_name[n]
<1>1. CASE name \in DOMAIN root_name /\ id = root_name[name] /\ UNCHANGED tables
  BY <1>1 DEF tables, TablesOK, FindInvertsInsert, Finds, symbols_find
<1>2. CASE /\ name \notin DOMAIN root_name
           /\ id = lastid + 1
           /\ lastid' = id
           /\ root_name' = Adding(root_name, name, id)
           /\ root_id' = Adding(root_id, id, name)
  <2>1. TablesOK'
    BY <1>2 DEF TablesOK, Adding
  <2>2. FindInvertsInsert'
    BY <1>2 DEF TablesOK, Adding, FindInvertsInsert, Finds, symbols_find
  <2> QED
    BY <1>2, <2>1, <2>2 DEF TablesOK, Adding
<1> QED
  BY <1>1, <1>2 DEF symbols_insert

(* sinavm_bind stays within the array. *)
LEMMA BindKeepsType ==
  ASSUME TypeOK, NEW id \in Nat, NEW data \in Chunk, sinavm_bind(id, data)
  PROVE  /\ bindings' \in [0 .. Max - 1 -> Chunk \cup {NULL}]
         /\ process' \in {process, "error"}
         /\ \A i \in 0 .. Max - 1 : i # id => bindings'[i] = bindings[i]
  BY ConstantsAssumption DEF TypeOK, sinavm_bind

LEMMA Initially == Init => Inv
  BY ConstantsAssumption
     DEF Init, TablesInit, Empty, Inv, TypeOK, TablesOK, FindInvertsInsert, NewSymbolsUnbound

LEMMA Inductive == Inv /\ [Next]_vars => Inv'
<1> SUFFICES ASSUME Inv, [Next]_vars PROVE Inv'
  OBVIOUS
<1> USE DEF Inv
<1>1. CASE AddFunc
  <2>1. PICK name \in Builtin, id \in 1 .. lastid + 1 :
             symbols_insert(name, id) /\ sinavm_bind(id, Native(name))
    BY <1>1 DEF AddFunc
  <2>2. name \in Name /\ Native(name) \in Chunk /\ id \in Nat /\ lastid \in Nat
    BY <2>1, ConstantsAssumption DEF TypeOK, TablesOK
  <2>3. /\ TablesOK' /\ FindInvertsInsert'
        /\ lastid' \in {lastid, lastid + 1}
        /\ id \in 1 .. lastid'
    BY <2>1, <2>2, InsertKeepsTables DEF TypeOK
  <2>4. /\ bindings' \in [0 .. Max - 1 -> Chunk \cup {NULL}]
        /\ process' \in {process, "error"}
        /\ \A i \in 0 .. Max - 1 : i # id => bindings'[i] = bindings[i]
    BY <2>1, <2>2, BindKeepsType
  <2>5. TypeOK'
    BY <2>3, <2>4 DEF TypeOK
  <2>6. NewSymbolsUnbound'
    BY <2>2, <2>3, <2>4 DEF TypeOK, TablesOK, NewSymbolsUnbound
  <2> QED BY <2>3, <2>5, <2>6
<1>2. CASE Lex
  <2>1. PICK name \in Name, id \in 1 .. lastid + 1 : symbols_insert(name, id)
    BY <1>2 DEF Lex
  <2>2. /\ TablesOK' /\ FindInvertsInsert'
        /\ lastid' \in {lastid, lastid + 1}
    BY <2>1, InsertKeepsTables DEF TypeOK
  <2> QED
    BY <1>2, <2>2 DEF Lex, TypeOK, TablesOK, NewSymbolsUnbound
<1>3. CASE BindSymbol
  <2>1. PICK id \in DOMAIN root_id, data \in Chunk : sinavm_bind(id, data)
    BY <1>3 DEF BindSymbol
  <2>2. id \in Nat
    BY <2>1 DEF TypeOK, TablesOK
  <2>3. /\ bindings' \in [0 .. Max - 1 -> Chunk \cup {NULL}]
        /\ process' \in {process, "error"}
        /\ \A i \in 0 .. Max - 1 : i # id => bindings'[i] = bindings[i]
    BY <2>1, <2>2, BindKeepsType
  <2> QED
    BY <1>3, <2>1, <2>3
    DEF BindSymbol, tables, TypeOK, TablesOK, FindInvertsInsert, Finds, symbols_find, NewSymbolsUnbound
<1>4. CASE UseSymbol
  BY <1>4 DEF UseSymbol, tables, TypeOK, TablesOK, FindInvertsInsert, Finds, symbols_find, NewSymbolsUnbound
<1>5. CASE Proceed
  BY <1>5 DEF Proceed, Parse, Interpret, Refuse, Return, tables, TypeOK, TablesOK, FindInvertsInsert,
              Finds, symbols_find, NewSymbolsUnbound
<1>6. CASE Ended \/ UNCHANGED vars
  BY <1>6 DEF Ended, vars, tables, TypeOK, TablesOK, FindInvertsInsert, Finds, symbols_find, NewSymbolsUnbound
<1> QED
  BY <1>1, <1>2, <1>3, <1>4, <1>5, <1>6 DEF Next

LEMMA Invariance == Spec => []Inv
  BY Initially, Inductive, PTL DEF Spec

(* Every id, tree and binding stays in its range, and sinavm_bind within   *)
(* the array.                                                              *)
THEOREM SymbolsTypeCorrect == Spec => []TypeOK
<1>1. Inv => TypeOK
  BY DEF Inv
<1> QED BY Invariance, <1>1, PTL

(* pprint finds the name of every symbol the lexer has made.               *)
THEOREM TablesAgree == Spec => []FindInvertsInsert
<1>1. Inv => FindInvertsInsert
  BY DEF Inv
<1> QED BY Invariance, <1>1, PTL

(* A symbol that comes up for the first time is not bound.                 *)
THEOREM NewSymbolsMeanNothing == Spec => []NewSymbolsUnbound
<1>1. Inv => NewSymbolsUnbound
  BY DEF Inv
<1> QED BY Invariance, <1>1, PTL

(* An id once given to a name is that name's for ever.                     *)
THEOREM IdsAreKept == Spec => IdsKept
<1>1. Inv /\ [Next]_vars =>
        [\A n \in DOMAIN root_name : n \in DOMAIN root_name' /\ root_name'[n] = root_name[n]]_vars
  <2> SUFFICES ASSUME Inv, Next
      PROVE \A n \in DOMAIN root_name : n \in DOMAIN root_name' /\ root_name'[n] = root_name[n]
    OBVIOUS
  <2>1. CASE AddFunc
    BY <2>1, InsertKeepsTables, ConstantsAssumption DEF AddFunc, Inv, TypeOK
  <2>2. CASE Lex
    BY <2>2, InsertKeepsTables DEF Lex, Inv, TypeOK
  <2>3. CASE Proceed \/ BindSymbol \/ UseSymbol \/ Ended
    BY <2>3 DEF Proceed, BindSymbol, UseSymbol, Ended, vars, tables
  <2> QED BY <2>1, <2>2, <2>3 DEF Next
<1> QED
  BY Initially, Inductive, <1>1, PTL DEF Spec, IdsKept

-----------------------------------------------------------------------------
(* The refinement.                                                         *)

namesBar == [i \in 1 .. lastid |-> root_id[i]]
meaningBar == [n \in Name |-> IF n \in DOMAIN root_name /\ root_name[n] < Max
                              THEN bindings[root_name[n]] ELSE NULL]

(* symbols_insert numbers a name as Environment does.                      *)
LEMMA InsertNumbers ==
  ASSUME TablesOK, FindInvertsInsert,
         NEW name \in Name, NEW id, symbols_insert(name, id)
  PROVE  E!Comes(name, id)
<1> namesBar \in Seq(Name) /\ Len(namesBar) = lastid
  BY DEF TablesOK, namesBar
<1>1. CASE name \in DOMAIN root_name /\ id = root_name[name] /\ UNCHANGED tables
  BY <1>1 DEF tables, TablesOK, FindInvertsInsert, Finds, symbols_find, namesBar, E!Comes
<1>2. CASE /\ name \notin DOMAIN root_name
           /\ id = lastid + 1
           /\ lastid' = id
           /\ root_name' = Adding(root_name, name, id)
           /\ root_id' = Adding(root_id, id, name)
  <2>1. \A j \in 1 .. lastid : namesBar[j] # name
    BY <1>2 DEF TablesOK, FindInvertsInsert, namesBar
  <2>2. namesBar' = Append(namesBar, name)
    BY <1>2 DEF TablesOK, Adding, namesBar
  <2> QED
    BY <1>2, <2>1, <2>2 DEF E!Comes, namesBar
<1> QED
  BY <1>1, <1>2 DEF symbols_insert

(* A new name means nothing, and an old one what it did.                   *)
LEMMA InsertKeepsMeaning ==
  ASSUME Inv, NEW name \in Name, NEW id, symbols_insert(name, id), UNCHANGED bindings
  PROVE  meaningBar' = meaningBar
<1>1. CASE name \in DOMAIN root_name /\ id = root_name[name] /\ UNCHANGED tables
  BY <1>1 DEF tables, meaningBar
<1>2. CASE /\ name \notin DOMAIN root_name
           /\ id = lastid + 1
           /\ root_name' = Adding(root_name, name, id)
  BY <1>2, ConstantsAssumption
  DEF meaningBar, Inv, TypeOK, TablesOK, Adding, NewSymbolsUnbound
<1> QED
  BY <1>1, <1>2 DEF symbols_insert

(* sinavm_bind on the id of a name changes the meaning of that name only.  *)
LEMMA BindMeans ==
  ASSUME TypeOK, TypeOK', FindInvertsInsert',
         NEW name \in Name, NEW id \in 1 .. lastid', NEW data \in Chunk,
         root_id'[id] = name,
         sinavm_bind(id, data),
         \A n \in Name : n \in DOMAIN root_name => n \in DOMAIN root_name' /\ root_name'[n] = root_name[n],
         \A n \in Name \ {name} : n \in DOMAIN root_name' => n \in DOMAIN root_name
  PROVE  IF id < Max THEN meaningBar' = [meaningBar EXCEPT ![name] = data] /\ process' = process
                     ELSE process' = "error" /\ bindings' = bindings
<1>1. id \in Nat /\ root_name'[name] = id /\ name \in DOMAIN root_name'
  BY DEF TypeOK, TablesOK, FindInvertsInsert
<1>2. \A n \in Name \ {name} : n \in DOMAIN root_name' => root_name'[n] # id
  BY <1>1 DEF FindInvertsInsert, Finds, symbols_find
<1>3. CASE id < Max
  <2>1. bindings' = [bindings EXCEPT ![id] = data] /\ process' = process
    BY <1>1, <1>3, ConstantsAssumption DEF sinavm_bind
  <2>2. meaningBar'[name] = data
    BY <1>1, <1>3, <2>1 DEF meaningBar, TypeOK
  <2>3. \A n \in Name \ {name} : meaningBar'[n] = meaningBar[n]
    BY <1>2, <2>1 DEF meaningBar, TypeOK, TablesOK
  <2>4. meaningBar' = [meaningBar EXCEPT ![name] = data]
    BY <2>2, <2>3 DEF meaningBar
  <2> QED BY <1>3, <2>1, <2>4
<1>4. CASE ~ (id < Max)
  BY <1>1, <1>4, ConstantsAssumption DEF sinavm_bind
<1> QED BY <1>3, <1>4

LEMMA StepRefines == Inv /\ Inv' /\ [Next]_vars => [E!Next]_(E!vars)
<1> SUFFICES ASSUME Inv, Inv', [Next]_vars PROVE [E!Next]_(E!vars)
  OBVIOUS
<1> USE DEF Inv
<1>1. CASE AddFunc
  <2>1. PICK name \in Builtin, id \in 1 .. lastid + 1 :
             symbols_insert(name, id) /\ sinavm_bind(id, Native(name))
    BY <1>1 DEF AddFunc
  <2>2. name \in Name /\ Native(name) \in Chunk
    BY ConstantsAssumption
  <2>3. E!Comes(name, id)
    BY <2>1, <2>2, InsertNumbers DEF TypeOK
  <2>4. /\ id \in 1 .. lastid' /\ root_id'[id] = name
        /\ \A n \in DOMAIN root_name : n \in DOMAIN root_name' /\ root_name'[n] = root_name[n]
    BY <2>1, <2>2, InsertKeepsTables DEF TypeOK
  <2>5. \A n \in Name \ {name} : n \in DOMAIN root_name' => n \in DOMAIN root_name
    BY <2>1 DEF symbols_insert, tables, Adding
  <2>6. IF id < Max THEN meaningBar' = [meaningBar EXCEPT ![name] = Native(name)] /\ process' = process
                    ELSE process' = "error" /\ bindings' = bindings
    BY <2>1, <2>2, <2>4, <2>5, BindMeans
  <2>7. ~ (id < Max) => meaningBar' = meaningBar
    BY <2>1, <2>2, <2>6, InsertKeepsMeaning
  <2>8. E!MeansNow(name, id, Native(name))
    BY <2>6, <2>7 DEF E!MeansNow, meaningBar
  <2>9. Len(namesBar) = lastid
    BY DEF namesBar, TypeOK, TablesOK
  <2>10. E!Define
    BY <1>1, <2>3, <2>8, <2>9 DEF E!Define, AddFunc, namesBar
  <2> QED BY <2>10 DEF E!Next
<1>2. CASE Lex
  <2>1. PICK name \in Name, id \in 1 .. lastid + 1 : symbols_insert(name, id)
    BY <1>2 DEF Lex
  <2>2. E!Comes(name, id)
    BY <2>1, InsertNumbers DEF TypeOK
  <2>3. meaningBar' = meaningBar
    BY <1>2, <2>1, InsertKeepsMeaning DEF Lex
  <2>4. Len(namesBar) = lastid
    BY DEF namesBar, TypeOK, TablesOK
  <2>5. E!Read
    BY <1>2, <2>1, <2>2, <2>3, <2>4 DEF E!Read, Lex, namesBar, meaningBar
  <2> QED BY <2>5 DEF E!Next
<1>3. CASE BindSymbol
  <2>1. PICK id \in DOMAIN root_id, data \in Chunk : sinavm_bind(id, data)
    BY <1>3 DEF BindSymbol
  <2>2. UNCHANGED tables /\ UNCHANGED namesBar /\ UNCHANGED answer /\ process = "running"
    BY <1>3 DEF BindSymbol, tables, namesBar
  <2>3. id \in 1 .. lastid' /\ root_id[id] \in Name /\ root_id'[id] = root_id[id]
    BY <2>1, <2>2 DEF tables, TypeOK, TablesOK
  <2>4. IF id < Max THEN meaningBar' = [meaningBar EXCEPT ![root_id[id]] = data] /\ process' = process
                    ELSE process' = "error" /\ bindings' = bindings
    <3> HIDE DEF Inv
    <3> QED BY <2>1, <2>2, <2>3, BindMeans DEF tables, Inv
  <2>5. ~ (id < Max) => meaningBar' = meaningBar
    BY <2>2, <2>4 DEF tables, meaningBar
  <2>6. id \in DOMAIN namesBar /\ namesBar[id] = root_id[id]
    BY <2>2, <2>3 DEF namesBar, tables
  <2>7. E!MeansNow(namesBar[id], id, data)
    BY <2>4, <2>5, <2>6 DEF E!MeansNow, meaningBar
  <2>8. E!Bind
    BY <2>1, <2>2, <2>6, <2>7 DEF E!Bind, namesBar
  <2> QED BY <2>8 DEF E!Next
<1>4. CASE UseSymbol
  <2>1. PICK id \in DOMAIN root_id : \E header \in Dereferenced(id) :
             answer' = <<id, header>> /\ process' = IF header = NULL THEN "error" ELSE "running"
    BY <1>4 DEF UseSymbol
  <2>2. PICK header \in Dereferenced(id) :
             answer' = <<id, header>> /\ process' = IF header = NULL THEN "error" ELSE "running"
    BY <2>1
  <2>3. UNCHANGED <<namesBar, meaningBar>> /\ process = "running"
    BY <1>4 DEF UseSymbol, tables, namesBar, meaningBar
  <2>4. id \in DOMAIN namesBar /\ namesBar[id] = root_id[id] /\ id \in Nat
    BY <2>1 DEF namesBar, TypeOK, TablesOK
  <2>5. id < Max => header = bindings[id] /\ id \in 0 .. Max - 1
    BY <2>2, <2>4, ConstantsAssumption DEF Dereferenced
  <2>6. id < Max => header = meaningBar[namesBar[id]]
    BY <2>1, <2>4, <2>5 DEF meaningBar, TypeOK, TablesOK, FindInvertsInsert
  <2>7. header \in Chunk \cup Outside \cup {NULL}
    BY <2>2, <2>4, <2>5 DEF Dereferenced, TypeOK
  <2>8. E!Ask
    BY <2>2, <2>3, <2>4, <2>6, <2>7 DEF E!Ask, namesBar, meaningBar
  <2> QED BY <2>8 DEF E!Next
<1>5. CASE Proceed
  BY <1>5 DEF Proceed, Parse, Interpret, Refuse, Return, tables, E!Next, E!Proceed, E!Phases
<1>6. CASE Ended \/ UNCHANGED vars
  BY <1>6 DEF Ended, vars, tables, E!vars
<1> QED
  BY <1>1, <1>2, <1>3, <1>4, <1>5, <1>6 DEF Next

(* Two search trees, a counter and an array implement an environment of    *)
(* names, for any number of names; beyond Max it is as far from one as     *)
(* Environment says.                                                       *)
THEOREM SymbolsRefinement == Spec => EnvironmentSpec
<1>1. Init => E!Init
  BY ConstantsAssumption DEF Init, TablesInit, Empty, E!Init
<1> QED
  BY Initially, Inductive, StepRefines, <1>1, PTL DEF Spec, EnvironmentSpec, E!Spec
=============================================================================
