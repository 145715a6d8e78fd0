--------------------------- MODULE LanguageProofs ----------------------------
(***************************************************************************)
(* For any program, any input and any limits.                              *)
(***************************************************************************)
EXTENDS Language, TLAPS

(* sinavm_data, with the code stack as a stack *)
VmOK(m) ==
  /\ DOMAIN m = {"ds", "cs", "lists", "bindings"}
  /\ \E S : m.cs \in Seq(S)

(* While an item is interpreted its block is on the code stack, and        *)
(* between two items nothing is interpreted.                               *)
Inv ==
  /\ VmOK(vm)
  /\ header # None => vm.cs # <<>>
  /\ current_block = 0 => header = None

LEMMA StackOfOne == \A x : <<x>> \in Seq({x}) /\ Len(<<x>>) = 1
  OBVIOUS

LEMMA PushedOnStack ==
  ASSUME NEW S, NEW s \in Seq(S), NEW x
  PROVE  <<x>> \o s \in Seq(S \cup {x}) /\ <<x>> \o s # <<>>
<1>1. <<x>> \in Seq(S \cup {x}) /\ s \in Seq(S \cup {x})
  OBVIOUS
<1>2. Len(<<x>> \o s) = 1 + Len(s)
  BY <1>1
<1> QED
  BY <1>1, <1>2

(* Replace and PutOnList leave the code stack alone. *)
LEMMA ReplaceKeepsCode ==
  ASSUME NEW m, VmOK(m), NEW n, NEW items
  PROVE  VmOK(Replace(m, n, items)) /\ Replace(m, n, items).cs = m.cs
  BY DEF VmOK, Replace

LEMMA ExecutedPushes ==
  ASSUME NEW m, VmOK(m), NEW b
  PROVE  VmOK(Executed(m, b)) /\ Executed(m, b).cs # <<>>
<1>1. PICK S : m.cs \in Seq(S)
  BY DEF VmOK
<1> DEFINE x == [code |-> b, at |-> 1]
<1>2. <<x>> \o m.cs \in Seq(S \cup {x}) /\ <<x>> \o m.cs # <<>>
  BY <1>1, PushedOnStack
<1>3. /\ DOMAIN Executed(m, b) = DOMAIN m
      /\ Executed(m, b).cs = <<x>> \o m.cs
  BY DEF Executed, VmOK
<1> QED
  BY <1>2, <1>3 DEF VmOK

LEMMA OtherFieldsKeepCode ==
  ASSUME NEW m, VmOK(m), NEW x
  PROVE  /\ VmOK([m EXCEPT !.lists = x]) /\ [m EXCEPT !.lists = x].cs = m.cs
         /\ VmOK([m EXCEPT !.bindings = x]) /\ [m EXCEPT !.bindings = x].cs = m.cs
  BY DEF VmOK

LEMMA OnListsKeepsCode ==
  ASSUME NEW m, VmOK(m),
         NEW name \in {"list-is-empty", "list-head", "list-prepend", "append", "list-append"}
  PROVE  VmOK(OnLists(name, m))
<1> DEFINE put(list, items) == PutOnList(m, list, items)
<1>1. ASSUME NEW list, NEW items PROVE VmOK(put(list, items))
  BY OtherFieldsKeepCode DEF PutOnList
<1> HIDE DEF put
<1>2. \/ \E items : OnLists(name, m) = Replace(m, 1, items)
      \/ \E list, on, items : OnLists(name, m) = Replace(put(list, on), 1, items)
  BY DEF OnLists, put
<1> QED
  BY <1>1, <1>2, ReplaceKeepsCode

LEMMA ShuffleKeepsCode ==
  ASSUME NEW m, VmOK(m),
         NEW name \in {"drop", "print-string", "print-int", "dup", "swap", "roll"}
  PROVE  VmOK(Shuffle(name, m))
<1>1. \E n, items : Shuffle(name, m) = Replace(m, n, items)
  BY DEF Shuffle
<1> QED
  BY <1>1, ReplaceKeepsCode

LEMMA EffectKeepsStack ==
  ASSUME NEW m, VmOK(m), NEW name \in BuiltinFunctions \ {"if"}, Accepts(name, m), NEW fresh, NEW line
  PROVE  VmOK(Effect(name, m, fresh, line))
<1>1. CASE name \in {"char-to-upper", "char-is-alpha", "not"}
  BY <1>1, ReplaceKeepsCode DEF Effect
<1>2. CASE name \in {"add", "sub", "mod", "equals"}
  BY <1>2, ReplaceKeepsCode DEF Effect
<1>3. CASE name \in {"list-is-empty", "list-head", "list-prepend", "append", "list-append"}
  BY <1>3, OnListsKeepsCode DEF Effect
<1>4. CASE name \in {"list-new", "read-line"}
  <2> DEFINE with(lists) == [m EXCEPT !.lists = lists]
  <2>1. \E items, lists : Effect(name, m, fresh, line) = Replace(with(lists), 0, items)
    BY <1>4 DEF Effect, new_list
  <2>2. \A lists : VmOK(with(lists))
    BY OtherFieldsKeepCode
  <2> HIDE DEF with
  <2> QED
    BY <2>1, <2>2, ReplaceKeepsCode
<1>5. CASE name = "bind"
  <2> DEFINE with(bindings_) == [m EXCEPT !.bindings = bindings_]
  <2>1. \E b : Effect(name, m, fresh, line) = Replace(with(b), 2, <<>>)
    BY <1>5 DEF Effect
  <2>2. \A b : VmOK(with(b))
    BY OtherFieldsKeepCode
  <2> HIDE DEF with
  <2> QED
    BY <2>1, <2>2, ReplaceKeepsCode
<1>6. CASE name = "call"
  BY <1>6, ReplaceKeepsCode, ExecutedPushes DEF Effect
<1>7. CASE name = "break"
  <2>1. PICK S : m.cs \in Seq(S)
    BY DEF VmOK
  <2>2. m.cs # <<>>
    BY <1>7 DEF Accepts
  <2>3. Tail(m.cs) \in Seq(S)
    BY <2>1, <2>2
  <2>4. Effect(name, m, fresh, line) = [m EXCEPT !.cs = Tail(m.cs)]
    BY <1>7 DEF Effect
  <2> QED
    BY <2>3, <2>4 DEF VmOK
<1>8. CASE name = "loop"
  <2>1. PICK S : m.cs \in Seq(S)
    BY DEF VmOK
  <2> DEFINE x == [m.cs[1] EXCEPT !.at = 1]
             cs == [m.cs EXCEPT ![1] = x]
  <2>2. Effect(name, m, fresh, line) = [m EXCEPT !.cs = cs]
    BY <1>8 DEF Effect
  <2>3. cs \in Seq(S \cup {x})
    <3>1. m.cs \in [1 .. Len(m.cs) -> S] /\ Len(m.cs) \in Nat
      BY <2>1
    <3>2. cs \in [1 .. Len(m.cs) -> S \cup {x}]
      BY <3>1
    <3> QED
      BY <3>1, <3>2
  <2> QED
    BY <2>2, <2>3 DEF VmOK
<1>9. CASE name \in {"drop", "print-string", "print-int", "dup", "swap", "roll"}
  BY <1>9, ShuffleKeepsCode DEF Effect
<1> QED
  BY <1>1, <1>2, <1>3, <1>4, <1>5, <1>6, <1>7, <1>8, <1>9 DEF BuiltinFunctions

(* There is a block on cs whenever loop is called: "otherwise: how was     *)
(* this called?" (sina_builtins.c:387).                                    *)
THEOREM LoopFindsItsBlock == Spec => []LoopHasBlock
<1>1. Init => Inv
  <2> SUFFICES ASSUME Init PROVE Inv
    OBVIOUS
  <2>1. PICK session \in Sessions :
          vm = [ds |-> <<>>, cs |-> <<[code |-> session[1], at |-> 1]>>, lists |-> Literals,
                bindings |-> [s \in Name \cup Natives |->
                                IF s \in Natives THEN <<"native", s>> ELSE None]]
    BY DEF Init
  <2> QED
    BY <2>1, StackOfOne DEF Init, Inv, VmOK
<1>2. Inv /\ [Next]_vars => Inv'
  <2> SUFFICES ASSUME Inv, [Next]_vars PROVE Inv'
    OBVIOUS
  <2> USE DEF Inv
  <2>1. CASE Finished \/ RunOut \/ Ended \/ UNCHANGED vars
    BY <2>1 DEF Finished, RunOut, AtBlock, Fail, Ended, vars, VmOK
  <2>2. CASE PopBlock
    <3>1. PICK S : vm.cs \in Seq(S)
      BY DEF VmOK
    <3>2. vm.cs # <<>> /\ header = None /\ UNCHANGED <<header, current_block>>
      BY <2>2 DEF PopBlock, AtBlock
    <3>3. Tail(vm.cs) \in Seq(S)
      BY <3>1, <3>2
    <3>4. VmOK(vm')
      BY <2>2, <3>3 DEF PopBlock, VmOK
    <3> QED
      BY <3>2, <3>4
  <2>3. CASE Interpret
    <3>1. PICK S : vm.cs \in Seq(S)
      BY DEF VmOK
    <3>2. vm.cs # <<>> /\ VmOK(vm') /\ vm'.cs = vm.cs
      BY <2>3 DEF Interpret, AtBlock, Interpreting, VmOK
    <3>3. current_block' # 0
      BY <2>3, <3>1, <3>2 DEF Interpret, Interpreting
    <3> QED
      BY <3>2, <3>3
  <2>4. CASE NextItem
    <3>1. PICK S : vm.cs \in Seq(S)
      BY DEF VmOK
    <3> DEFINE n == Len(vm.cs) - current_block + 1
               x == [vm.cs[n] EXCEPT !.at = vm.cs[n].at + 1]
               advanced == [vm.cs EXCEPT ![n] = x]
    <3>2. advanced \in Seq(S \cup {x})
      <4>1. vm.cs \in [1 .. Len(vm.cs) -> S] /\ Len(vm.cs) \in Nat
        BY <3>1
      <4>2. advanced \in [1 .. Len(vm.cs) -> S \cup {x}]
        BY <4>1
      <4> QED
        BY <4>1, <4>2
    <3>3. Advanced(vm.cs) = vm.cs \/ Advanced(vm.cs) = advanced
      BY DEF Advanced
    <3>4. \E T : Advanced(vm.cs) \in Seq(T)
      BY <3>1, <3>2, <3>3
    <3>5. vm' = vm \/ vm' = [vm EXCEPT !.cs = Advanced(vm.cs)]
      BY <2>4 DEF NextItem, Advancing
    <3>6. VmOK(vm')
      BY <3>4, <3>5 DEF VmOK
    <3> QED
      BY <2>4, <3>6 DEF NextItem, Advancing
  <2>5. CASE Push
    BY <2>5, ReplaceKeepsCode DEF Push, Done, Fail
  <2>6. CASE SymbolChunk
    <3>1. header # None /\ current_block # 0
      BY <2>6 DEF SymbolChunk, None, TypeOf
    <3>2. \A b : VmOK(Executed(vm, b))
      BY ExecutedPushes
    <3>3. \/ UNCHANGED <<vm, header, current_block>>
          \/ header' = None /\ UNCHANGED current_block /\ \E b : vm' = Executed(vm, b)
          \/ UNCHANGED <<vm, current_block>>
      BY <2>6 DEF SymbolChunk, Done, Fail
    <3> QED
      BY <3>1, <3>2, <3>3
  <2>7. CASE Native
    <3>1. PICK name \in Natives \ {"if"} :
            \/ UNCHANGED <<vm, header, current_block>>
            \/ /\ Accepts(name, vm)
               /\ Done(Effect(name, vm, Fresh, [k \in DOMAIN Line |-> <<"integer", Line[k]>>]))
      BY <2>7 DEF Native, Fail
    <3>2. name \in BuiltinFunctions \ {"if"}
      BY <3>1, NativesAssumption
    <3> QED
      BY <3>1, <3>2, EffectKeepsStack DEF Done
  <2>8. CASE If
    <3> DEFINE rest == PopArguments(vm)
    <3>1. VmOK(rest) /\ rest.cs = vm.cs
      BY ReplaceKeepsCode DEF PopArguments
    <3>2. \A b : VmOK(Executed(rest, b))
      BY <3>1, ExecutedPushes
    <3> HIDE DEF rest
    <3>3. header # None /\ current_block # 0 /\ UNCHANGED current_block
      BY <2>8 DEF If, None, Done, Fail
    <3>4. \/ UNCHANGED <<vm, header>>
          \/ header' = None /\ vm' = rest
          \/ header' = None /\ \E b : vm' = Executed(rest, b)
          \/ vm' = rest
      BY <2>8 DEF If, Done, Fail, rest
    <3> QED
      BY <3>1, <3>2, <3>3, <3>4
  <2> QED
    BY <2>1, <2>2, <2>3, <2>4, <2>5, <2>6, <2>7, <2>8 DEF Next
<1>3. Inv => LoopHasBlock
  BY DEF Inv, LoopHasBlock, None
<1> QED
  BY <1>1, <1>2, <1>3, PTL DEF Spec
=============================================================================
