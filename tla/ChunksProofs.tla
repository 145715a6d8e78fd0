---------------------------- MODULE ChunksProofs ----------------------------
(***************************************************************************)
(* The operations of every builtin fit together: a static check of the     *)
(* sequences in Builtins, as a type system for them.  It says which C      *)
(* locals hold a chunk that hangs on something when an operation runs,     *)
(* what is known of it, and what the registers hold.                       *)
(*                                                                         *)
(* Then what the recursive functions of Chunks compute.  None of it is     *)
(* taken from a theorem about induction: a recursive function is shown to  *)
(* exist by giving it, and to be unique by looking at a greatest argument  *)
(* on which two of them would differ.                                      *)
(***************************************************************************)
EXTENDS Chunks, FiniteSetTheorems, WellFoundedInduction, TLAPS

(* What is known when an operation starts:                                 *)
(*   loc    of C locals, <<name, kind of chunk>>                           *)
(*   weak   the names of those no register nor hook has seen yet           *)
(*   regs   the kinds of what the builtin has put into the registers       *)
(*   top    the kinds of the topmost items of ds                           *)
(*   bound  of symbols, <<number, kind of what it is bound to>>            *)
(*   code   a block runs: it is on cs                                      *)
(* A kind is a type Expects knows, or the code of a block.                 *)
Context(locals, registers, items) ==
  [loc |-> locals, weak |-> {}, regs |-> registers, top |-> items,
   bound |-> {}, code |-> FALSE]

InBlock ==
  [loc |-> {}, weak |-> {}, regs |-> <<>>, top |-> <<>>, bound |-> {}, code |-> TRUE]

Binding(s, kind) ==
  [loc |-> {}, weak |-> {}, regs |-> <<>>, top |-> <<>>, bound |-> {<<s, kind>>}, code |-> FALSE]

Weakly(locals, registers, x) ==
  [loc |-> locals, weak |-> {x}, regs |-> registers, top |-> <<>>, bound |-> {}, code |-> FALSE]

Names(c) == {e[1] : e \in c.loc}

Stacks == {"ds", "cs"}

(* A local of the builtin's own *)
OwnLocal(x) == x \notin Stacks /\ x # ""

(* Locals are what they were, but for the one the operation assigns, which *)
(* is of this kind.                                                        *)
Assigns(o, kind, c, d) ==
  /\ OwnLocal(o.x)
  /\ \A e \in d.loc : e = <<o.x, kind>> \/ (e \in c.loc /\ e[1] # o.x)

Forgets(d) == d.top = <<>> /\ d.bound = {} /\ d.code = FALSE

Is(c, x, kind) == <<x, kind>> \in c.loc

TypedPop(o, c, d) ==
  /\ o.op = "pop_to_register" /\ o.x # o.p
  /\ c.weak = {} /\ d.weak = {} /\ d.bound = {} /\ d.code = FALSE
  /\ d.regs = Append(c.regs, "any")
  /\ \/ /\ o.p = "ds" /\ c.top # <<>> /\ d.top = Tail(c.top)
        /\ Assigns(o, Head(c.top), c, d)
     \/ /\ Is(c, o.p, "list+") /\ d.top = <<>>
        /\ OwnLocal(o.x)
        /\ \A e \in d.loc : e \in {<<o.x, "any">>, <<o.p, "list">>}

TypedDrop(o, c, d) ==
  /\ o.op = "pop_front" /\ o.p \in Stacks
  /\ d.loc = {} /\ d.regs = c.regs /\ Forgets(d) /\ d.weak = {}

(* A push gives up all locals, but for the list it returns. *)
TypedPush(o, c, d) ==
  /\ o.op \in {"push_front", "push_back"}
  /\ o.p = "ds" \/ (o.p = "cs" /\ Is(c, o.x, "block")) \/ Is(c, o.p, "list")
  /\ o.x \in Names(c) /\ (o.v = 1 => o.p \notin Stacks)
  /\ \A e \in c.loc : e[1] \in {o.p, o.x} /\ e[2] # "list+"
  /\ \A e \in d.loc : e = <<o.p, "list">> /\ e \in c.loc /\ o.v = 1
  /\ d.regs = c.regs /\ Forgets(d) /\ d.weak = {}

TypedNew(V, o, c, d) ==
  /\ o.op = "new" /\ o.p \in {"list", "integer", "symbol", "escaped"} /\ OwnLocal(o.x)
  /\ o.p \in {"symbol", "escaped"} => o.v \in V.symbols
  /\ o.p = "integer" => o.v \in Nat
  /\ c.loc = {} /\ \A e \in d.loc : e = <<o.x, o.p>>
  /\ d.regs = c.regs /\ Forgets(d) /\ d.weak = {}

TypedNewBlock(V, o, c, d) ==
  /\ o.op = "new_block" /\ OwnLocal(o.x)
  /\ \/ c.loc = {<<o.p, "code">>}
     \/ c.loc = {<<o.p, "list">>} /\ V.literals
  /\ \A e \in d.loc : e = <<o.x, "block">>
  /\ d.regs = c.regs /\ Forgets(d) /\ d.weak = {}

TypedKeep(o, c, d) ==
  /\ o.op = "push_register" /\ o.x = "" /\ d.loc \subseteq c.loc /\ Forgets(d) /\ d.weak = {}
  /\ \/ Is(c, o.p, "any") /\ c.weak = {} /\ d.regs = Append(c.regs, "any")
     \/ Is(c, o.p, "list") /\ c.weak = {} /\ d.regs = Append(c.regs, "list")
     \/ Is(c, o.p, "block") /\ d.regs = Append(c.regs, "block")

(* Registers are not known to hold more than these. *)
Kept == {"any", "list", "block"}

Gives(c, d, kind) == d.regs \in Seq(Kept) /\ c.regs = Append(d.regs, kind)

TypedRelease(o, c, d) ==
  /\ o.op = "release" /\ o.x = "" /\ c.weak = {} /\ d.loc \subseteq c.loc /\ Forgets(d) /\ d.weak = {}
  /\ Gives(c, d, "any") \/ Gives(c, d, "list") \/ Gives(c, d, "block")

TypedPopRegister(o, c, d) ==
  /\ o.op = "pop_register" /\ c.weak = {} /\ Forgets(d) /\ d.weak = {}
  /\ \/ Gives(c, d, "any") /\ Assigns(o, "any", c, d)
     \/ Gives(c, d, "list") /\ Assigns(o, "list", c, d)
     \/ Gives(c, d, "block") /\ Assigns(o, "block", c, d)

TypedFront(o, c, d) ==
  /\ o.op = "front" /\ c.weak = {}
  /\ \/ o.p = "ds" /\ c.top # <<>> /\ Assigns(o, Head(c.top), c, d)
     \/ o.p = "cs" /\ c.code /\ Assigns(o, "block", c, d)
  /\ d.regs = c.regs /\ Forgets(d) /\ d.weak = {o.x}

TypedDereference(o, c, d) ==
  /\ o.op = "dereference" /\ c.weak = {}
  /\ \/ <<o.v, "any">> \in c.bound /\ Assigns(o, "any", c, d)
     \/ <<o.v, "block">> \in c.bound /\ Assigns(o, "block", c, d)
  /\ d.regs = c.regs /\ Forgets(d) /\ d.weak = {o.x}

TypedCode(o, c, d) ==
  /\ o.op = "code" /\ Is(c, o.p, "block") /\ Assigns(o, "code", c, d)
  /\ d.regs = c.regs /\ Forgets(d) /\ d.weak = {}

TypedRewind(o, c, d) ==
  /\ o.op = "rewind" /\ o.x = "" /\ Is(c, o.p, "block") /\ d.loc \subseteq c.loc
  /\ d.regs = c.regs /\ Forgets(d) /\ d.weak = {}

TypedBind(o, c, d) ==
  /\ o.op = "bind" /\ Is(c, o.p, "symbol") /\ o.x \in Names(c) /\ c.weak = {}
  /\ d.loc \subseteq c.loc /\ d.regs = c.regs /\ Forgets(d) /\ d.weak = {}

(* Operation o leads from context c to context d.                          *)
(* V tells the symbols there are, and whether the operations are literals  *)
(* of a program too, which make a block of the list they have just made.   *)
Typed(V, o, c, d) ==
  \/ TypedPop(o, c, d) \/ TypedDrop(o, c, d) \/ TypedPush(o, c, d)
  \/ TypedNew(V, o, c, d) \/ TypedNewBlock(V, o, c, d)
  \/ TypedKeep(o, c, d) \/ TypedRelease(o, c, d) \/ TypedPopRegister(o, c, d)
  \/ TypedFront(o, c, d) \/ TypedDereference(o, c, d)
  \/ TypedCode(o, c, d) \/ TypedRewind(o, c, d) \/ TypedBind(o, c, d)

(* cs are the contexts between the operations of ops, and nothing stays in *)
(* the registers.                                                          *)
Certificate(V, ops, cs) ==
  /\ DOMAIN cs = 1 .. Len(ops) + 1
  /\ \A k \in 1 .. Len(ops) : Typed(V, ops[k], cs[k], cs[k + 1])
  /\ cs[Len(ops) + 1].regs = <<>>

(* From context c on all of ops fits. *)
Certified(V, ops, c) ==
  /\ \E T : ops \in Seq(T)
  /\ \E cs : Certificate(V, ops, cs) /\ cs[1] = c

-----------------------------------------------------------------------------
LEMMA UnaryTyped ==
  ASSUME NEW V PROVE Certified(V, unary, Context({}, <<>>, <<"integer">>))
<1> DEFINE c1 == Context({}, <<>>, <<"integer">>)
           c2 == Context({}, <<"any">>, <<>>)
           c3 == Context({<<"c", "integer">>}, <<"any">>, <<>>)
           c4 == Context({}, <<"any">>, <<>>)
           c5 == Context({}, <<>>, <<>>)
<1>1. TypedPop(PopToRegister("ds", "a"), c1, c2)
  BY DEF TypedPop, PopToRegister, Op, Assigns, Is, Context, Forgets, Stacks, OwnLocal
<1>2. TypedNew(V, New("integer", "c", 0), c2, c3)
  BY DEF TypedNew, New, Context, Forgets, Stacks, OwnLocal
<1>3. TypedPush(PushFront("ds", "c"), c3, c4)
  BY DEF TypedPush, PushFront, Op, Names, Is, Context, Forgets, Stacks, OwnLocal
<1>4. TypedRelease(Release, c4, c5)
  BY DEF TypedRelease, Release, Op, Gives, Kept, Context, Forgets, Stacks, OwnLocal
<1>5. c5.regs = <<>>
  BY DEF Context
<1> HIDE DEF c1, c2, c3, c4, c5
<1>6. Certificate(V, unary, <<c1, c2, c3, c4, c5>>)
  BY <1>1, <1>2, <1>3, <1>4, <1>5 DEF Certificate, Typed, unary
<1>7. unary \in Seq({PopToRegister("ds", "a"), New("integer", "c", 0),
        PushFront("ds", "c"), Release})
  BY DEF unary
<1> QED
  BY <1>6, <1>7 DEF Certified, c1

LEMMA BinaryTyped ==
  ASSUME NEW V PROVE Certified(V, binary, Context({}, <<>>, <<"integer", "integer">>))
<1> DEFINE c1 == Context({}, <<>>, <<"integer", "integer">>)
           c2 == Context({}, <<"any">>, <<"integer">>)
           c3 == Context({}, <<"any", "any">>, <<>>)
           c4 == Context({<<"c", "integer">>}, <<"any", "any">>, <<>>)
           c5 == Context({}, <<"any", "any">>, <<>>)
           c6 == Context({}, <<"any">>, <<>>)
           c7 == Context({}, <<>>, <<>>)
<1>1. TypedPop(PopToRegister("ds", "a"), c1, c2)
  BY DEF TypedPop, PopToRegister, Op, Assigns, Is, Context, Forgets, Stacks, OwnLocal
<1>2. TypedPop(PopToRegister("ds", "b"), c2, c3)
  BY DEF TypedPop, PopToRegister, Op, Assigns, Is, Context, Forgets, Stacks, OwnLocal
<1>3. TypedNew(V, New("integer", "c", 0), c3, c4)
  BY DEF TypedNew, New, Context, Forgets, Stacks, OwnLocal
<1>4. TypedPush(PushFront("ds", "c"), c4, c5)
  BY DEF TypedPush, PushFront, Op, Names, Is, Context, Forgets, Stacks, OwnLocal
<1>5. TypedRelease(Release, c5, c6)
  BY DEF TypedRelease, Release, Op, Gives, Kept, Context, Forgets, Stacks, OwnLocal
<1>6. TypedRelease(Release, c6, c7)
  BY DEF TypedRelease, Release, Op, Gives, Kept, Context, Forgets, Stacks, OwnLocal
<1>7. c7.regs = <<>>
  BY DEF Context
<1> HIDE DEF c1, c2, c3, c4, c5, c6, c7
<1>8. Certificate(V, binary, <<c1, c2, c3, c4, c5, c6, c7>>)
  BY <1>1, <1>2, <1>3, <1>4, <1>5, <1>6, <1>7 DEF Certificate, Typed, binary
<1>9. binary \in Seq({PopToRegister("ds", "a"), PopToRegister("ds", "b"),
        New("integer", "c", 0), PushFront("ds", "c"), Release})
  BY DEF binary
<1> QED
  BY <1>8, <1>9 DEF Certified, c1

LEMMA ListHeadTyped ==
  ASSUME NEW V PROVE Certified(V, list_head, Context({}, <<>>, <<"list+">>))
<1> DEFINE c1 == Context({}, <<>>, <<"list+">>)
           c2 == Context({<<"list", "list+">>}, <<"any">>, <<>>)
           c3 == Context({<<"data", "any">>, <<"list", "list">>}, <<"any", "any">>, <<>>)
           c4 == Context({<<"list", "list">>}, <<"any", "any", "any">>, <<>>)
           c5 == Context({}, <<"any", "any", "any">>, <<>>)
           c6 == Context({<<"data", "any">>}, <<"any", "any">>, <<>>)
           c7 == Context({}, <<"any", "any">>, <<>>)
           c8 == Context({}, <<"any">>, <<>>)
           c9 == Context({}, <<>>, <<>>)
<1>1. TypedPop(PopToRegister("ds", "list"), c1, c2)
  BY DEF TypedPop, PopToRegister, Op, Assigns, Is, Context, Forgets, Stacks, OwnLocal
<1>2. TypedPop(PopToRegister("list", "data"), c2, c3)
  BY DEF TypedPop, PopToRegister, Op, Assigns, Is, Context, Forgets, Stacks, OwnLocal
<1>3. TypedKeep(PushRegister("data"), c3, c4)
  BY DEF TypedKeep, PushRegister, Op, Is, Context, Forgets, Stacks, OwnLocal
<1>4. TypedPush(PushFront("ds", "list"), c4, c5)
  BY DEF TypedPush, PushFront, Op, Names, Is, Context, Forgets, Stacks, OwnLocal
<1>5. TypedPopRegister(PopRegister("data"), c5, c6)
  BY DEF TypedPopRegister, PopRegister, Op, Assigns, Gives, Kept, Context, Forgets, Stacks, OwnLocal
<1>6. TypedPush(PushFront("ds", "data"), c6, c7)
  BY DEF TypedPush, PushFront, Op, Names, Is, Context, Forgets, Stacks, OwnLocal
<1>7. TypedRelease(Release, c7, c8)
  BY DEF TypedRelease, Release, Op, Gives, Kept, Context, Forgets, Stacks, OwnLocal
<1>8. TypedRelease(Release, c8, c9)
  BY DEF TypedRelease, Release, Op, Gives, Kept, Context, Forgets, Stacks, OwnLocal
<1>9. c9.regs = <<>>
  BY DEF Context
<1> HIDE DEF c1, c2, c3, c4, c5, c6, c7, c8, c9
<1>10. Certificate(V, list_head, <<c1, c2, c3, c4, c5, c6, c7, c8, c9>>)
  BY <1>1, <1>2, <1>3, <1>4, <1>5, <1>6, <1>7, <1>8, <1>9 DEF Certificate, Typed, list_head
<1>11. list_head \in Seq({PopToRegister("ds", "list"),
        PopToRegister("list", "data"), PushRegister("data"),
        PushFront("ds", "list"), PopRegister("data"),
        PushFront("ds", "data"), Release})
  BY DEF list_head
<1> QED
  BY <1>10, <1>11 DEF Certified, c1

LEMMA ListPrependTyped ==
  ASSUME NEW V PROVE Certified(V, list_prepend, Context({}, <<>>, <<"any", "list">>))
<1> DEFINE c1 == Context({}, <<>>, <<"any", "list">>)
           c2 == Context({<<"ch", "any">>}, <<"any">>, <<"list">>)
           c3 == Context({<<"ch", "any">>, <<"list", "list">>}, <<"any", "any">>, <<>>)
           c4 == Context({<<"list", "list">>}, <<"any", "any">>, <<>>)
           c5 == Context({}, <<"any", "any">>, <<>>)
           c6 == Context({}, <<"any">>, <<>>)
           c7 == Context({}, <<>>, <<>>)
<1>1. TypedPop(PopToRegister("ds", "ch"), c1, c2)
  BY DEF TypedPop, PopToRegister, Op, Assigns, Is, Context, Forgets, Stacks, OwnLocal
<1>2. TypedPop(PopToRegister("ds", "list"), c2, c3)
  BY DEF TypedPop, PopToRegister, Op, Assigns, Is, Context, Forgets, Stacks, OwnLocal
<1>3. TypedPush(Returning(PushFront("list", "ch")), c3, c4)
  BY DEF TypedPush, Returning, PushFront, Op, Names, Is, Context, Forgets, Stacks, OwnLocal
<1>4. TypedPush(PushFront("ds", "list"), c4, c5)
  BY DEF TypedPush, PushFront, Op, Names, Is, Context, Forgets, Stacks, OwnLocal
<1>5. TypedRelease(Release, c5, c6)
  BY DEF TypedRelease, Release, Op, Gives, Kept, Context, Forgets, Stacks, OwnLocal
<1>6. TypedRelease(Release, c6, c7)
  BY DEF TypedRelease, Release, Op, Gives, Kept, Context, Forgets, Stacks, OwnLocal
<1>7. c7.regs = <<>>
  BY DEF Context
<1> HIDE DEF c1, c2, c3, c4, c5, c6, c7
<1>8. Certificate(V, list_prepend, <<c1, c2, c3, c4, c5, c6, c7>>)
  BY <1>1, <1>2, <1>3, <1>4, <1>5, <1>6, <1>7 DEF Certificate, Typed, list_prepend
<1>9. list_prepend \in Seq({PopToRegister("ds", "ch"),
        PopToRegister("ds", "list"), Returning(PushFront("list", "ch")),
        PushFront("ds", "list"), Release})
  BY DEF list_prepend
<1> QED
  BY <1>8, <1>9 DEF Certified, c1

LEMMA ListNewTyped ==
  ASSUME NEW V PROVE Certified(V, list_new, Context({}, <<>>, <<>>))
<1> DEFINE c1 == Context({}, <<>>, <<>>)
           c2 == Context({<<"list", "list">>}, <<>>, <<>>)
           c3 == Context({}, <<>>, <<>>)
<1>1. TypedNew(V, New("list", "list", 0), c1, c2)
  BY DEF TypedNew, New, Context, Forgets, Stacks, OwnLocal
<1>2. TypedPush(PushFront("ds", "list"), c2, c3)
  BY DEF TypedPush, PushFront, Op, Names, Is, Context, Forgets, Stacks, OwnLocal
<1>3. c3.regs = <<>>
  BY DEF Context
<1> HIDE DEF c1, c2, c3
<1>4. Certificate(V, list_new, <<c1, c2, c3>>)
  BY <1>1, <1>2, <1>3 DEF Certificate, Typed, list_new
<1>5. list_new \in Seq({New("list", "list", 0), PushFront("ds", "list")})
  BY DEF list_new
<1> QED
  BY <1>4, <1>5 DEF Certified, c1

LEMMA ReadLineTyped ==
  ASSUME NEW V PROVE Certified(V, read_line, Context({}, <<>>, <<>>))
<1> DEFINE c1 == Context({}, <<>>, <<>>)
           c2 == Context({<<"list", "list">>}, <<>>, <<>>)
           c3 == Context({<<"list", "list">>}, <<"list">>, <<>>)
           c4 == Context({}, <<"list", "list">>, <<>>)
           c5 == Context({<<"i", "integer">>}, <<"list", "list">>, <<>>)
           c6 == Context({<<"i", "integer">>, <<"list", "list">>}, <<"list">>, <<>>)
           c7 == Context({<<"list", "list">>}, <<"list">>, <<>>)
           c8 == Context({}, <<"list">>, <<>>)
           c9 == Context({}, <<>>, <<>>)
<1>1. TypedNew(V, New("list", "list", 0), c1, c2)
  BY DEF TypedNew, New, Context, Forgets, Stacks, OwnLocal
<1>2. TypedKeep(PushRegister("list"), c2, c3)
  BY DEF TypedKeep, PushRegister, Op, Is, Context, Forgets, Stacks, OwnLocal
<1>3. TypedKeep(PushRegister("list"), c3, c4)
  BY DEF TypedKeep, PushRegister, Op, Is, Context, Forgets, Stacks, OwnLocal
<1>4. TypedNew(V, New("integer", "i", 0), c4, c5)
  BY DEF TypedNew, New, Context, Forgets, Stacks, OwnLocal
<1>5. TypedPopRegister(PopRegister("list"), c5, c6)
  BY DEF TypedPopRegister, PopRegister, Op, Assigns, Gives, Kept, Context, Forgets, Stacks, OwnLocal
<1>6. TypedPush(Returning(PushBack("list", "i")), c6, c7)
  BY DEF TypedPush, Returning, PushBack, Op, Names, Is, Context, Forgets, Stacks, OwnLocal
<1>7. TypedPush(PushFront("ds", "list"), c7, c8)
  BY DEF TypedPush, PushFront, Op, Names, Is, Context, Forgets, Stacks, OwnLocal
<1>8. TypedRelease(Release, c8, c9)
  BY DEF TypedRelease, Release, Op, Gives, Kept, Context, Forgets, Stacks, OwnLocal
<1>9. c9.regs = <<>>
  BY DEF Context
<1> HIDE DEF c1, c2, c3, c4, c5, c6, c7, c8, c9
<1>10. Certificate(V, read_line, <<c1, c2, c3, c4, c5, c6, c7, c8, c9>>)
  BY <1>1, <1>2, <1>3, <1>4, <1>5, <1>6, <1>7, <1>8, <1>9 DEF Certificate, Typed, read_line
<1>11. read_line \in Seq({New("list", "list", 0), PushRegister("list"),
        New("integer", "i", 0), PopRegister("list"),
        Returning(PushBack("list", "i")), PushFront("ds", "list"), Release})
  BY DEF read_line
<1> QED
  BY <1>10, <1>11 DEF Certified, c1

LEMMA ListIsEmptyTyped ==
  ASSUME NEW V PROVE Certified(V, unary, Context({}, <<>>, <<"list">>))
<1> DEFINE c1 == Context({}, <<>>, <<"list">>)
           c2 == Context({}, <<"any">>, <<>>)
           c3 == Context({<<"c", "integer">>}, <<"any">>, <<>>)
           c4 == Context({}, <<"any">>, <<>>)
           c5 == Context({}, <<>>, <<>>)
<1>1. TypedPop(PopToRegister("ds", "a"), c1, c2)
  BY DEF TypedPop, PopToRegister, Op, Assigns, Is, Context, Forgets, Stacks, OwnLocal
<1>2. TypedNew(V, New("integer", "c", 0), c2, c3)
  BY DEF TypedNew, New, Context, Forgets, Stacks, OwnLocal
<1>3. TypedPush(PushFront("ds", "c"), c3, c4)
  BY DEF TypedPush, PushFront, Op, Names, Is, Context, Forgets, Stacks, OwnLocal
<1>4. TypedRelease(Release, c4, c5)
  BY DEF TypedRelease, Release, Op, Gives, Kept, Context, Forgets, Stacks, OwnLocal
<1>5. c5.regs = <<>>
  BY DEF Context
<1> HIDE DEF c1, c2, c3, c4, c5
<1>6. Certificate(V, unary, <<c1, c2, c3, c4, c5>>)
  BY <1>1, <1>2, <1>3, <1>4, <1>5 DEF Certificate, Typed, unary
<1>7. unary \in Seq({PopToRegister("ds", "a"), New("integer", "c", 0),
        PushFront("ds", "c"), Release})
  BY DEF unary
<1> QED
  BY <1>6, <1>7 DEF Certified, c1

LEMMA PrintStringTyped ==
  ASSUME NEW V PROVE Certified(V, print_string, Context({}, <<>>, <<"list">>))
<1> DEFINE c1 == Context({}, <<>>, <<"list">>)
           c2 == Context({}, <<"any">>, <<>>)
           c3 == Context({}, <<>>, <<>>)
<1>1. TypedPop(PopToRegister("ds", "list"), c1, c2)
  BY DEF TypedPop, PopToRegister, Op, Assigns, Is, Context, Forgets, Stacks, OwnLocal
<1>2. TypedRelease(Release, c2, c3)
  BY DEF TypedRelease, Release, Op, Gives, Kept, Context, Forgets, Stacks, OwnLocal
<1>3. c3.regs = <<>>
  BY DEF Context
<1> HIDE DEF c1, c2, c3
<1>4. Certificate(V, print_string, <<c1, c2, c3>>)
  BY <1>1, <1>2, <1>3 DEF Certificate, Typed, print_string
<1>5. print_string \in Seq({PopToRegister("ds", "list"), Release})
  BY DEF print_string
<1> QED
  BY <1>4, <1>5 DEF Certified, c1

LEMMA PrintIntTyped ==
  ASSUME NEW V PROVE Certified(V, print_int, Context({}, <<>>, <<"integer">>))
<1> DEFINE c1 == Context({}, <<>>, <<"integer">>)
           c2 == Context({}, <<"any">>, <<>>)
           c3 == Context({}, <<>>, <<>>)
<1>1. TypedPop(PopToRegister("ds", "i"), c1, c2)
  BY DEF TypedPop, PopToRegister, Op, Assigns, Is, Context, Forgets, Stacks, OwnLocal
<1>2. TypedRelease(Release, c2, c3)
  BY DEF TypedRelease, Release, Op, Gives, Kept, Context, Forgets, Stacks, OwnLocal
<1>3. c3.regs = <<>>
  BY DEF Context
<1> HIDE DEF c1, c2, c3
<1>4. Certificate(V, print_int, <<c1, c2, c3>>)
  BY <1>1, <1>2, <1>3 DEF Certificate, Typed, print_int
<1>5. print_int \in Seq({PopToRegister("ds", "i"), Release})
  BY DEF print_int
<1> QED
  BY <1>4, <1>5 DEF Certified, c1

LEMMA DropTyped ==
  ASSUME NEW V PROVE Certified(V, drop, Context({}, <<>>, <<"any">>))
<1> DEFINE c1 == Context({}, <<>>, <<"any">>)
           c2 == Context({}, <<>>, <<>>)
<1>1. TypedDrop(PopFront("ds"), c1, c2)
  BY DEF TypedDrop, PopFront, Op, Context, Forgets, Stacks, OwnLocal
<1>2. c2.regs = <<>>
  BY DEF Context
<1> HIDE DEF c1, c2
<1>3. Certificate(V, drop, <<c1, c2>>)
  BY <1>1, <1>2 DEF Certificate, Typed, drop
<1>4. drop \in Seq({PopFront("ds")})
  BY DEF drop
<1> QED
  BY <1>3, <1>4 DEF Certified, c1

LEMMA DupTyped ==
  ASSUME NEW V PROVE Certified(V, _dup, Context({}, <<>>, <<"any">>))
<1> DEFINE c1 == Context({}, <<>>, <<"any">>)
           c2 == Weakly({<<"ch", "any">>}, <<>>, "ch")
           c3 == Context({}, <<>>, <<>>)
<1>1. TypedFront(FirstItem("ds", "ch"), c1, c2)
  BY DEF TypedFront, FirstItem, Op, Assigns, Context, Weakly, Forgets, Stacks, OwnLocal
<1>2. TypedPush(PushFront("ds", "ch"), c2, c3)
  BY DEF TypedPush, PushFront, Op, Names, Is, Context, Weakly, Forgets, Stacks, OwnLocal
<1>3. c3.regs = <<>>
  BY DEF Context
<1> HIDE DEF c1, c2, c3
<1>4. Certificate(V, _dup, <<c1, c2, c3>>)
  BY <1>1, <1>2, <1>3 DEF Certificate, Typed, _dup
<1>5. _dup \in Seq({FirstItem("ds", "ch"), PushFront("ds", "ch")})
  BY DEF _dup
<1> QED
  BY <1>4, <1>5 DEF Certified, c1

LEMMA AppendTyped ==
  ASSUME NEW V PROVE Certified(V, append, Context({}, <<>>, <<"any", "list">>))
<1> DEFINE c1 == Context({}, <<>>, <<"any", "list">>)
           c2 == Context({<<"data", "any">>}, <<"any">>, <<"list">>)
           c3 == Weakly({<<"data", "any">>, <<"list", "list">>}, <<"any">>, "list")
           c4 == Context({}, <<"any">>, <<>>)
           c5 == Context({}, <<>>, <<>>)
<1>1. TypedPop(PopToRegister("ds", "data"), c1, c2)
  BY DEF TypedPop, PopToRegister, Op, Assigns, Is, Context, Forgets, Stacks, OwnLocal
<1>2. TypedFront(FirstItem("ds", "list"), c2, c3)
  BY DEF TypedFront, FirstItem, Op, Assigns, Context, Weakly, Forgets, Stacks, OwnLocal
<1>3. TypedPush(PushBack("list", "data"), c3, c4)
  BY DEF TypedPush, PushBack, Op, Names, Is, Context, Weakly, Forgets, Stacks, OwnLocal
<1>4. TypedRelease(Release, c4, c5)
  BY DEF TypedRelease, Release, Op, Gives, Kept, Context, Forgets, Stacks, OwnLocal
<1>5. c5.regs = <<>>
  BY DEF Context
<1> HIDE DEF c1, c2, c3, c4, c5
<1>6. Certificate(V, append, <<c1, c2, c3, c4, c5>>)
  BY <1>1, <1>2, <1>3, <1>4, <1>5 DEF Certificate, Typed, append
<1>7. append \in Seq({PopToRegister("ds", "data"), FirstItem("ds", "list"),
        PushBack("list", "data"), Release})
  BY DEF append
<1> QED
  BY <1>6, <1>7 DEF Certified, c1

LEMMA RollTyped ==
  ASSUME NEW V PROVE Certified(V, roll, Context({}, <<>>, <<"any", "any", "any">>))
<1> DEFINE c1 == Context({}, <<>>, <<"any", "any", "any">>)
           c2 == Context({<<"a", "any">>}, <<"any">>, <<"any", "any">>)
           c3 == Context({<<"a", "any">>, <<"b", "any">>}, <<"any", "any">>, <<"any">>)
           c4 == Context({<<"a", "any">>, <<"b", "any">>, <<"c", "any">>}, <<"any", "any", "any">>, <<>>)
           c5 == Context({<<"a", "any">>, <<"c", "any">>}, <<"any", "any", "any", "any">>, <<>>)
           c6 == Context({<<"a", "any">>}, <<"any", "any", "any", "any", "any">>, <<>>)
           c7 == Context({}, <<"any", "any", "any", "any", "any", "any">>, <<>>)
           c8 == Context({<<"x", "any">>}, <<"any", "any", "any", "any", "any">>, <<>>)
           c9 == Context({}, <<"any", "any", "any", "any", "any">>, <<>>)
           c10 == Context({<<"x", "any">>}, <<"any", "any", "any", "any">>, <<>>)
           c11 == Context({}, <<"any", "any", "any", "any">>, <<>>)
           c12 == Context({<<"x", "any">>}, <<"any", "any", "any">>, <<>>)
           c13 == Context({}, <<"any", "any", "any">>, <<>>)
           c14 == Context({}, <<"any", "any">>, <<>>)
           c15 == Context({}, <<"any">>, <<>>)
           c16 == Context({}, <<>>, <<>>)
<1>1. TypedPop(PopToRegister("ds", "a"), c1, c2)
  BY DEF TypedPop, PopToRegister, Op, Assigns, Is, Context, Forgets, Stacks, OwnLocal
<1>2. TypedPop(PopToRegister("ds", "b"), c2, c3)
  BY DEF TypedPop, PopToRegister, Op, Assigns, Is, Context, Forgets, Stacks, OwnLocal
<1>3. TypedPop(PopToRegister("ds", "c"), c3, c4)
  BY DEF TypedPop, PopToRegister, Op, Assigns, Is, Context, Forgets, Stacks, OwnLocal
<1>4. TypedKeep(PushRegister("b"), c4, c5)
  BY DEF TypedKeep, PushRegister, Op, Is, Context, Forgets, Stacks, OwnLocal
<1>5. TypedKeep(PushRegister("c"), c5, c6)
  BY DEF TypedKeep, PushRegister, Op, Is, Context, Forgets, Stacks, OwnLocal
<1>6. TypedKeep(PushRegister("a"), c6, c7)
  BY DEF TypedKeep, PushRegister, Op, Is, Context, Forgets, Stacks, OwnLocal
<1>7. TypedPopRegister(PopRegister("x"), c7, c8)
  BY DEF TypedPopRegister, PopRegister, Op, Assigns, Gives, Kept, Context, Forgets, Stacks, OwnLocal
<1>8. TypedPush(PushFront("ds", "x"), c8, c9)
  BY DEF TypedPush, PushFront, Op, Names, Is, Context, Forgets, Stacks, OwnLocal
<1>9. TypedPopRegister(PopRegister("x"), c9, c10)
  BY DEF TypedPopRegister, PopRegister, Op, Assigns, Gives, Kept, Context, Forgets, Stacks, OwnLocal
<1>10. TypedPush(PushFront("ds", "x"), c10, c11)
  BY DEF TypedPush, PushFront, Op, Names, Is, Context, Forgets, Stacks, OwnLocal
<1>11. TypedPopRegister(PopRegister("x"), c11, c12)
  BY DEF TypedPopRegister, PopRegister, Op, Assigns, Gives, Kept, Context, Forgets, Stacks, OwnLocal
<1>12. TypedPush(PushFront("ds", "x"), c12, c13)
  BY DEF TypedPush, PushFront, Op, Names, Is, Context, Forgets, Stacks, OwnLocal
<1>13. TypedRelease(Release, c13, c14)
  BY DEF TypedRelease, Release, Op, Gives, Kept, Context, Forgets, Stacks, OwnLocal
<1>14. TypedRelease(Release, c14, c15)
  BY DEF TypedRelease, Release, Op, Gives, Kept, Context, Forgets, Stacks, OwnLocal
<1>15. TypedRelease(Release, c15, c16)
  BY DEF TypedRelease, Release, Op, Gives, Kept, Context, Forgets, Stacks, OwnLocal
<1>16. c16.regs = <<>>
  BY DEF Context
<1> HIDE DEF c1, c2, c3, c4, c5, c6, c7, c8, c9, c10, c11, c12, c13, c14, c15, c16
<1>17. Certificate(V, roll, <<c1, c2, c3, c4, c5, c6, c7, c8, c9, c10, c11, c12, c13, c14, c15, c16>>)
  BY <1>1, <1>2, <1>3, <1>4, <1>5, <1>6, <1>7, <1>8, <1>9, <1>10, <1>11, <1>12, <1>13, <1>14, <1>15, <1>16 DEF Certificate, Typed, roll
<1>18. roll \in Seq({PopToRegister("ds", "a"), PopToRegister("ds", "b"),
        PopToRegister("ds", "c"), PushRegister("b"), PushRegister("c"),
        PushRegister("a"), PopRegister("x"), PushFront("ds", "x"), Release})
  BY DEF roll
<1> QED
  BY <1>17, <1>18 DEF Certified, c1

LEMMA SwapTyped ==
  ASSUME NEW V PROVE Certified(V, swap, Context({}, <<>>, <<"any", "any">>))
<1> DEFINE c1 == Context({}, <<>>, <<"any", "any">>)
           c2 == Context({<<"a", "any">>}, <<"any">>, <<"any">>)
           c3 == Context({<<"a", "any">>, <<"b", "any">>}, <<"any", "any">>, <<>>)
           c4 == Context({<<"a", "any">>}, <<"any", "any", "any">>, <<>>)
           c5 == Context({}, <<"any", "any", "any", "any">>, <<>>)
           c6 == Context({<<"x", "any">>}, <<"any", "any", "any">>, <<>>)
           c7 == Context({}, <<"any", "any", "any">>, <<>>)
           c8 == Context({<<"x", "any">>}, <<"any", "any">>, <<>>)
           c9 == Context({}, <<"any", "any">>, <<>>)
           c10 == Context({}, <<"any">>, <<>>)
           c11 == Context({}, <<>>, <<>>)
<1>1. TypedPop(PopToRegister("ds", "a"), c1, c2)
  BY DEF TypedPop, PopToRegister, Op, Assigns, Is, Context, Forgets, Stacks, OwnLocal
<1>2. TypedPop(PopToRegister("ds", "b"), c2, c3)
  BY DEF TypedPop, PopToRegister, Op, Assigns, Is, Context, Forgets, Stacks, OwnLocal
<1>3. TypedKeep(PushRegister("b"), c3, c4)
  BY DEF TypedKeep, PushRegister, Op, Is, Context, Forgets, Stacks, OwnLocal
<1>4. TypedKeep(PushRegister("a"), c4, c5)
  BY DEF TypedKeep, PushRegister, Op, Is, Context, Forgets, Stacks, OwnLocal
<1>5. TypedPopRegister(PopRegister("x"), c5, c6)
  BY DEF TypedPopRegister, PopRegister, Op, Assigns, Gives, Kept, Context, Forgets, Stacks, OwnLocal
<1>6. TypedPush(PushFront("ds", "x"), c6, c7)
  BY DEF TypedPush, PushFront, Op, Names, Is, Context, Forgets, Stacks, OwnLocal
<1>7. TypedPopRegister(PopRegister("x"), c7, c8)
  BY DEF TypedPopRegister, PopRegister, Op, Assigns, Gives, Kept, Context, Forgets, Stacks, OwnLocal
<1>8. TypedPush(PushFront("ds", "x"), c8, c9)
  BY DEF TypedPush, PushFront, Op, Names, Is, Context, Forgets, Stacks, OwnLocal
<1>9. TypedRelease(Release, c9, c10)
  BY DEF TypedRelease, Release, Op, Gives, Kept, Context, Forgets, Stacks, OwnLocal
<1>10. TypedRelease(Release, c10, c11)
  BY DEF TypedRelease, Release, Op, Gives, Kept, Context, Forgets, Stacks, OwnLocal
<1>11. c11.regs = <<>>
  BY DEF Context
<1> HIDE DEF c1, c2, c3, c4, c5, c6, c7, c8, c9, c10, c11
<1>12. Certificate(V, swap, <<c1, c2, c3, c4, c5, c6, c7, c8, c9, c10, c11>>)
  BY <1>1, <1>2, <1>3, <1>4, <1>5, <1>6, <1>7, <1>8, <1>9, <1>10, <1>11 DEF Certificate, Typed, swap
<1>13. swap \in Seq({PopToRegister("ds", "a"), PopToRegister("ds", "b"),
        PushRegister("b"), PushRegister("a"), PopRegister("x"),
        PushFront("ds", "x"), Release})
  BY DEF swap
<1> QED
  BY <1>12, <1>13 DEF Certified, c1

LEMMA BindTyped ==
  ASSUME NEW V PROVE Certified(V, bind_symbol, Context({}, <<>>, <<"symbol", "any">>))
<1> DEFINE c1 == Context({}, <<>>, <<"symbol", "any">>)
           c2 == Context({<<"sc", "symbol">>}, <<"any">>, <<"any">>)
           c3 == Context({<<"sc", "symbol">>, <<"data", "any">>}, <<"any", "any">>, <<>>)
           c4 == Context({}, <<"any", "any">>, <<>>)
           c5 == Context({}, <<"any">>, <<>>)
           c6 == Context({}, <<>>, <<>>)
<1>1. TypedPop(PopToRegister("ds", "sc"), c1, c2)
  BY DEF TypedPop, PopToRegister, Op, Assigns, Is, Context, Forgets, Stacks, OwnLocal
<1>2. TypedPop(PopToRegister("ds", "data"), c2, c3)
  BY DEF TypedPop, PopToRegister, Op, Assigns, Is, Context, Forgets, Stacks, OwnLocal
<1>3. TypedBind(Bind("sc", "data"), c3, c4)
  BY DEF TypedBind, Bind, Op, Is, Names, Context, Forgets, Stacks, OwnLocal
<1>4. TypedRelease(Release, c4, c5)
  BY DEF TypedRelease, Release, Op, Gives, Kept, Context, Forgets, Stacks, OwnLocal
<1>5. TypedRelease(Release, c5, c6)
  BY DEF TypedRelease, Release, Op, Gives, Kept, Context, Forgets, Stacks, OwnLocal
<1>6. c6.regs = <<>>
  BY DEF Context
<1> HIDE DEF c1, c2, c3, c4, c5, c6
<1>7. Certificate(V, bind_symbol, <<c1, c2, c3, c4, c5, c6>>)
  BY <1>1, <1>2, <1>3, <1>4, <1>5, <1>6 DEF Certificate, Typed, bind_symbol
<1>8. bind_symbol \in Seq({PopToRegister("ds", "sc"),
        PopToRegister("ds", "data"), Bind("sc", "data"), Release})
  BY DEF bind_symbol
<1> QED
  BY <1>7, <1>8 DEF Certified, c1

LEMMA CallTyped ==
  ASSUME NEW V PROVE Certified(V, call, Context({}, <<>>, <<"block">>))
<1> DEFINE c1 == Context({}, <<>>, <<"block">>)
           c2 == Context({<<"bc", "block">>}, <<"any">>, <<>>)
           c3 == Context({<<"bc", "block">>}, <<"any", "block">>, <<>>)
           c4 == Context({<<"code", "code">>}, <<"any", "block">>, <<>>)
           c5 == Context({<<"newblock", "block">>}, <<"any", "block">>, <<>>)
           c6 == Context({}, <<"any", "block">>, <<>>)
           c7 == Context({}, <<"any">>, <<>>)
           c8 == Context({}, <<>>, <<>>)
<1>1. TypedPop(PopToRegister("ds", "bc"), c1, c2)
  BY DEF TypedPop, PopToRegister, Op, Assigns, Is, Context, Forgets, Stacks, OwnLocal
<1>2. TypedKeep(PushRegister("bc"), c2, c3)
  BY DEF TypedKeep, PushRegister, Op, Is, Context, Forgets, Stacks, OwnLocal
<1>3. TypedCode(Code("bc", "code"), c3, c4)
  BY DEF TypedCode, Code, Op, Assigns, Is, Context, Forgets, Stacks, OwnLocal
<1>4. TypedNewBlock(V, NewBlock("code", "newblock"), c4, c5)
  BY DEF TypedNewBlock, NewBlock, Op, Context, Forgets, Stacks, OwnLocal
<1>5. TypedPush(PushFront("cs", "newblock"), c5, c6)
  BY DEF TypedPush, PushFront, Op, Names, Is, Context, Forgets, Stacks, OwnLocal
<1>6. TypedPopRegister(PopRegister("bc"), c6, c7)
  BY DEF TypedPopRegister, PopRegister, Op, Assigns, Gives, Kept, Context, Forgets, Stacks, OwnLocal
<1>7. TypedRelease(Release, c7, c8)
  BY DEF TypedRelease, Release, Op, Gives, Kept, Context, Forgets, Stacks, OwnLocal
<1>8. c8.regs = <<>>
  BY DEF Context
<1> HIDE DEF c1, c2, c3, c4, c5, c6, c7, c8
<1>9. Certificate(V, call, <<c1, c2, c3, c4, c5, c6, c7, c8>>)
  BY <1>1, <1>2, <1>3, <1>4, <1>5, <1>6, <1>7, <1>8 DEF Certificate, Typed, call, execute_block
<1>10. call \in Seq({PopToRegister("ds", "bc"), PushRegister("bc"),
        Code("bc", "code"), NewBlock("code", "newblock"),
        PushFront("cs", "newblock"), PopRegister("bc"), Release})
  BY DEF call, execute_block
<1> QED
  BY <1>9, <1>10 DEF Certified, c1

LEMMA BreakTyped ==
  ASSUME NEW V PROVE Certified(V, _break, InBlock)
<1> DEFINE c1 == InBlock
           c2 == Context({}, <<>>, <<>>)
<1>1. TypedDrop(PopFront("cs"), c1, c2)
  BY DEF TypedDrop, PopFront, Op, Context, InBlock, Forgets, Stacks, OwnLocal
<1>2. c2.regs = <<>>
  BY DEF Context
<1> HIDE DEF c1, c2
<1>3. Certificate(V, _break, <<c1, c2>>)
  BY <1>1, <1>2 DEF Certificate, Typed, _break
<1>4. _break \in Seq({PopFront("cs")})
  BY DEF _break
<1> QED
  BY <1>3, <1>4 DEF Certified, c1

LEMMA LoopTyped ==
  ASSUME NEW V PROVE Certified(V, loop, InBlock)
<1> DEFINE c1 == InBlock
           c2 == Weakly({<<"bc", "block">>}, <<>>, "bc")
           c3 == Context({}, <<>>, <<>>)
<1>1. TypedFront(FirstItem("cs", "bc"), c1, c2)
  BY DEF TypedFront, FirstItem, Op, Assigns, Context, Weakly, InBlock, Forgets, Stacks, OwnLocal
<1>2. TypedRewind(Rewind("bc"), c2, c3)
  BY DEF TypedRewind, Rewind, Op, Is, Context, Weakly, Forgets, Stacks, OwnLocal
<1>3. c3.regs = <<>>
  BY DEF Context
<1> HIDE DEF c1, c2, c3
<1>4. Certificate(V, loop, <<c1, c2, c3>>)
  BY <1>1, <1>2, <1>3 DEF Certificate, Typed, loop
<1>5. loop \in Seq({FirstItem("cs", "bc"), Rewind("bc")})
  BY DEF loop
<1> QED
  BY <1>4, <1>5 DEF Certified, c1

LEMMA IfNotTyped ==
  ASSUME NEW V PROVE Certified(V, if_not, Context({}, <<>>, <<"any", "integer">>))
<1> DEFINE c1 == Context({}, <<>>, <<"any", "integer">>)
           c2 == Context({}, <<"any">>, <<"integer">>)
           c3 == Context({}, <<"any", "any">>, <<>>)
           c4 == Context({}, <<"any">>, <<>>)
           c5 == Context({}, <<>>, <<>>)
<1>1. TypedPop(PopToRegister("ds", "ch"), c1, c2)
  BY DEF TypedPop, PopToRegister, Op, Assigns, Is, Context, Forgets, Stacks, OwnLocal
<1>2. TypedPop(PopToRegister("ds", "ic"), c2, c3)
  BY DEF TypedPop, PopToRegister, Op, Assigns, Is, Context, Forgets, Stacks, OwnLocal
<1>3. TypedRelease(Release, c3, c4)
  BY DEF TypedRelease, Release, Op, Gives, Kept, Context, Forgets, Stacks, OwnLocal
<1>4. TypedRelease(Release, c4, c5)
  BY DEF TypedRelease, Release, Op, Gives, Kept, Context, Forgets, Stacks, OwnLocal
<1>5. c5.regs = <<>>
  BY DEF Context
<1> HIDE DEF c1, c2, c3, c4, c5
<1>6. Certificate(V, if_not, <<c1, c2, c3, c4, c5>>)
  BY <1>1, <1>2, <1>3, <1>4, <1>5 DEF Certificate, Typed, if_not
<1>7. if_not \in Seq({PopToRegister("ds", "ch"), PopToRegister("ds", "ic"),
        Release})
  BY DEF if_not
<1> QED
  BY <1>6, <1>7 DEF Certified, c1

LEMMA IfBlockTyped ==
  ASSUME NEW V PROVE Certified(V, if_block, Context({}, <<>>, <<"block", "integer">>))
<1> DEFINE c1 == Context({}, <<>>, <<"block", "integer">>)
           c2 == Context({<<"ch", "block">>}, <<"any">>, <<"integer">>)
           c3 == Context({<<"ch", "block">>}, <<"any", "any">>, <<>>)
           c4 == Context({<<"ch", "block">>}, <<"any", "any", "block">>, <<>>)
           c5 == Context({<<"code", "code">>}, <<"any", "any", "block">>, <<>>)
           c6 == Context({<<"newblock", "block">>}, <<"any", "any", "block">>, <<>>)
           c7 == Context({}, <<"any", "any", "block">>, <<>>)
           c8 == Context({}, <<"any", "any">>, <<>>)
           c9 == Context({}, <<"any">>, <<>>)
           c10 == Context({}, <<>>, <<>>)
<1>1. TypedPop(PopToRegister("ds", "ch"), c1, c2)
  BY DEF TypedPop, PopToRegister, Op, Assigns, Is, Context, Forgets, Stacks, OwnLocal
<1>2. TypedPop(PopToRegister("ds", "ic"), c2, c3)
  BY DEF TypedPop, PopToRegister, Op, Assigns, Is, Context, Forgets, Stacks, OwnLocal
<1>3. TypedKeep(PushRegister("ch"), c3, c4)
  BY DEF TypedKeep, PushRegister, Op, Is, Context, Forgets, Stacks, OwnLocal
<1>4. TypedCode(Code("ch", "code"), c4, c5)
  BY DEF TypedCode, Code, Op, Assigns, Is, Context, Forgets, Stacks, OwnLocal
<1>5. TypedNewBlock(V, NewBlock("code", "newblock"), c5, c6)
  BY DEF TypedNewBlock, NewBlock, Op, Context, Forgets, Stacks, OwnLocal
<1>6. TypedPush(PushFront("cs", "newblock"), c6, c7)
  BY DEF TypedPush, PushFront, Op, Names, Is, Context, Forgets, Stacks, OwnLocal
<1>7. TypedPopRegister(PopRegister("ch"), c7, c8)
  BY DEF TypedPopRegister, PopRegister, Op, Assigns, Gives, Kept, Context, Forgets, Stacks, OwnLocal
<1>8. TypedRelease(Release, c8, c9)
  BY DEF TypedRelease, Release, Op, Gives, Kept, Context, Forgets, Stacks, OwnLocal
<1>9. TypedRelease(Release, c9, c10)
  BY DEF TypedRelease, Release, Op, Gives, Kept, Context, Forgets, Stacks, OwnLocal
<1>10. c10.regs = <<>>
  BY DEF Context
<1> HIDE DEF c1, c2, c3, c4, c5, c6, c7, c8, c9, c10
<1>11. Certificate(V, if_block, <<c1, c2, c3, c4, c5, c6, c7, c8, c9, c10>>)
  BY <1>1, <1>2, <1>3, <1>4, <1>5, <1>6, <1>7, <1>8, <1>9, <1>10 DEF Certificate, Typed, if_block, execute_block
<1>12. if_block \in Seq({PopToRegister("ds", "ch"),
        PopToRegister("ds", "ic"), PushRegister("ch"), Code("ch", "code"),
        NewBlock("code", "newblock"), PushFront("cs", "newblock"),
        PopRegister("ch"), Release})
  BY DEF if_block, execute_block
<1> QED
  BY <1>11, <1>12 DEF Certified, c1

LEMMA EscapedTyped ==
  ASSUME NEW V, NEW s \in V.symbols PROVE Certified(V, escaped_symbol(s), Context({}, <<>>, <<>>))
<1> DEFINE c1 == Context({}, <<>>, <<>>)
           c2 == Context({<<"symbol", "symbol">>}, <<>>, <<>>)
           c3 == Context({}, <<>>, <<>>)
<1>1. TypedNew(V, New("symbol", "symbol", s), c1, c2)
  BY DEF TypedNew, New, Context, Forgets, Stacks, OwnLocal
<1>2. TypedPush(PushFront("ds", "symbol"), c2, c3)
  BY DEF TypedPush, PushFront, Op, Names, Is, Context, Forgets, Stacks, OwnLocal
<1>3. c3.regs = <<>>
  BY DEF Context
<1> HIDE DEF c1, c2, c3
<1>4. Certificate(V, escaped_symbol(s), <<c1, c2, c3>>)
  BY <1>1, <1>2, <1>3 DEF Certificate, Typed, escaped_symbol
<1>5. escaped_symbol(s) \in Seq({New("symbol", "symbol", s),
        PushFront("ds", "symbol")})
  BY DEF escaped_symbol
<1> QED
  BY <1>4, <1>5 DEF Certified, c1

LEMMA SymbolDataTyped ==
  ASSUME NEW V, NEW s PROVE Certified(V, symbol_data(s), Binding(s, "any"))
<1> DEFINE c1 == Binding(s, "any")
           c2 == Weakly({<<"header", "any">>}, <<>>, "header")
           c3 == Context({}, <<>>, <<>>)
<1>1. TypedDereference(Dereference(s, "header"), c1, c2)
  BY DEF TypedDereference, Dereference, Assigns, Context, Weakly, Binding, Forgets, Stacks, OwnLocal
<1>2. TypedPush(PushFront("ds", "header"), c2, c3)
  BY DEF TypedPush, PushFront, Op, Names, Is, Context, Weakly, Forgets, Stacks, OwnLocal
<1>3. c3.regs = <<>>
  BY DEF Context
<1> HIDE DEF c1, c2, c3
<1>4. Certificate(V, symbol_data(s), <<c1, c2, c3>>)
  BY <1>1, <1>2, <1>3 DEF Certificate, Typed, symbol_data
<1>5. symbol_data(s) \in Seq({Dereference(s, "header"),
        PushFront("ds", "header")})
  BY DEF symbol_data
<1> QED
  BY <1>4, <1>5 DEF Certified, c1

LEMMA SymbolBlockTyped ==
  ASSUME NEW V, NEW s PROVE Certified(V, symbol_block(s), Binding(s, "block"))
<1> DEFINE c1 == Binding(s, "block")
           c2 == Weakly({<<"header", "block">>}, <<>>, "header")
           c3 == Context({<<"header", "block">>}, <<"block">>, <<>>)
           c4 == Context({<<"code", "code">>}, <<"block">>, <<>>)
           c5 == Context({<<"newblock", "block">>}, <<"block">>, <<>>)
           c6 == Context({}, <<"block">>, <<>>)
           c7 == Context({}, <<>>, <<>>)
<1>1. TypedDereference(Dereference(s, "header"), c1, c2)
  BY DEF TypedDereference, Dereference, Assigns, Context, Weakly, Binding, Forgets, Stacks, OwnLocal
<1>2. TypedKeep(PushRegister("header"), c2, c3)
  BY DEF TypedKeep, PushRegister, Op, Is, Context, Weakly, Forgets, Stacks, OwnLocal
<1>3. TypedCode(Code("header", "code"), c3, c4)
  BY DEF TypedCode, Code, Op, Assigns, Is, Context, Forgets, Stacks, OwnLocal
<1>4. TypedNewBlock(V, NewBlock("code", "newblock"), c4, c5)
  BY DEF TypedNewBlock, NewBlock, Op, Context, Forgets, Stacks, OwnLocal
<1>5. TypedPush(PushFront("cs", "newblock"), c5, c6)
  BY DEF TypedPush, PushFront, Op, Names, Is, Context, Forgets, Stacks, OwnLocal
<1>6. TypedPopRegister(PopRegister("header"), c6, c7)
  BY DEF TypedPopRegister, PopRegister, Op, Assigns, Gives, Kept, Context, Forgets, Stacks, OwnLocal
<1>7. c7.regs = <<>>
  BY DEF Context
<1> HIDE DEF c1, c2, c3, c4, c5, c6, c7
<1>8. Certificate(V, symbol_block(s), <<c1, c2, c3, c4, c5, c6, c7>>)
  BY <1>1, <1>2, <1>3, <1>4, <1>5, <1>6, <1>7 DEF Certificate, Typed, symbol_block, execute_block
<1>9. symbol_block(s) \in Seq({Dereference(s, "header"),
        PushRegister("header"), Code("header", "code"),
        NewBlock("code", "newblock"), PushFront("cs", "newblock"),
        PopRegister("header")})
  BY DEF symbol_block, execute_block
<1> QED
  BY <1>8, <1>9 DEF Certified, c1

LEMMA ShortSequences ==
  ASSUME NEW T, NEW k \in T, NEW l \in T, NEW m \in T
  PROVE  /\ <<>> \in Seq(T) /\ Len(<<>>) \in 0 .. 3
         /\ <<k>> \in Seq(T) /\ Len(<<k>>) \in 0 .. 3
         /\ <<k, l>> \in Seq(T) /\ Len(<<k, l>>) \in 0 .. 3
         /\ <<k, l, m>> \in Seq(T) /\ Len(<<k, l, m>>) \in 0 .. 3
OBVIOUS

(* The kinds of arguments *)
Kinds == {"any", "integer", "list", "list+", "symbol", "block"}

LEMMA ExpectsShort ==
  ASSUME NEW name PROVE Expects(name) \in Seq(Kinds) /\ Len(Expects(name)) \in 0 .. 3
<1> DEFINE Short(t) == t \in Seq(Kinds) /\ Len(t) \in 0 .. 3
           E == {<<>>, <<"integer">>, <<"integer", "integer">>, <<"list">>, <<"list+">>, <<"any", "list">>, <<"any">>,
                 <<"any", "any", "any">>, <<"any", "any">>, <<"symbol", "any">>, <<"block">>,
                 <<"any", "integer">>, <<"block", "integer">>}
<1>1. ASSUME NEW k \in Kinds PROVE Short(<<>>) /\ Short(<<k>>)
  BY ShortSequences DEF Short
<1>2. ASSUME NEW k \in Kinds, NEW l \in Kinds PROVE Short(<<k, l>>)
  BY ShortSequences
<1>3. ASSUME NEW k \in Kinds, NEW l \in Kinds, NEW m \in Kinds PROVE Short(<<k, l, m>>)
  BY ShortSequences
<1>5. Expects(name) \in E
  BY DEF Expects
<1> HIDE DEF Short
<1>6. \A t \in E : Short(t)
  <2>1. Short(<<>>) /\ Short(<<"integer">>) /\ Short(<<"list">>) /\ Short(<<"list+">>) /\ Short(<<"any">>) /\ Short(<<"block">>)
    BY <1>1 DEF Kinds
  <2>2. /\ Short(<<"integer", "integer">>) /\ Short(<<"any", "list">>) /\ Short(<<"any", "any">>)
        /\ Short(<<"symbol", "any">>) /\ Short(<<"any", "integer">>) /\ Short(<<"block", "integer">>)
    BY <1>2 DEF Kinds
  <2> QED
    BY <2>1, <2>2, <1>3 DEF Kinds, E
<1> HIDE DEF E
<1> QED
  BY <1>5, <1>6 DEF Short

(* What the interpreter knows when it calls a builtin.                     *)
Start(name) == IF name \in {"break", "loop"} THEN InBlock
               ELSE Context({}, <<>>, Expects(name))

(* Each builtin, given arguments that pass its error_asserts, runs to its  *)
(* end on locals and registers that hold what they should, and leaves no   *)
(* register behind.                                                        *)
THEOREM BuiltinsFit ==
  ASSUME NEW V, NEW name \in (BuiltinFunctions \ {"if"}) \cup {"if-not", "if-block"}
  PROVE  Certified(V, Program(name), Start(name))
<1> USE DEF Program, Expects, Start
<1>1. CASE name \in {"char-to-upper", "char-is-alpha", "not"}
  BY <1>1, UnaryTyped DEF char_to_upper, char_is_alpha, _not
<1>2. CASE name \in {"add", "sub", "mod", "equals"}
  BY <1>2, BinaryTyped DEF add, sub, mod, equals
<1>3. CASE name \in {"list-is-empty", "print-string", "list-head", "list-prepend", "list-new", "read-line"}
  BY <1>3, ListIsEmptyTyped, PrintStringTyped, ListHeadTyped, ListPrependTyped, ListNewTyped, ReadLineTyped
     DEF list_is_empty
<1>4. CASE name \in {"print-int", "drop", "dup", "append", "list-append", "roll", "swap", "bind"}
  BY <1>4, PrintIntTyped, DropTyped, DupTyped, AppendTyped, RollTyped, SwapTyped, BindTyped
<1>5. CASE name \in {"call", "break", "loop", "if-not", "if-block"}
  BY <1>5, CallTyped, BreakTyped, LoopTyped, IfNotTyped, IfBlockTyped
<1> QED
  BY <1>1, <1>2, <1>3, <1>4, <1>5 DEF BuiltinFunctions

-----------------------------------------------------------------------------
LEMMA CertifiedStep ==
  ASSUME NEW V, NEW ops, NEW c, Certified(V, ops, c), ops # <<>>
  PROVE  \E d : Typed(V, Head(ops), c, d) /\ Certified(V, Tail(ops), d)
<1> PICK T : ops \in Seq(T)
  BY DEF Certified
<1>1. PICK cs : Certificate(V, ops, cs) /\ cs[1] = c
  BY DEF Certified
<1> DEFINE ds == [k \in 1 .. Len(ops) |-> cs[k + 1]]
<1>2. Len(ops) \in Nat /\ Len(ops) >= 1 /\ Len(Tail(ops)) = Len(ops) - 1 /\ Head(ops) = ops[1]
  OBVIOUS
<1>3. \A k \in 1 .. Len(ops) - 1 : Tail(ops)[k] = ops[k + 1]
  OBVIOUS
<1>4. Typed(V, Head(ops), c, ds[1])
  BY <1>1, <1>2 DEF Certificate
<1>5. Certificate(V, Tail(ops), ds)
  <2> SUFFICES ASSUME NEW k \in 1 .. Len(ops) - 1 PROVE Typed(V, Tail(ops)[k], ds[k], ds[k + 1])
    BY <1>1, <1>2 DEF Certificate
  <2>1. k + 1 \in 1 .. Len(ops)
    BY <1>2
  <2> QED
    BY <2>1, <1>1, <1>2, <1>3 DEF Certificate
<1>6. Tail(ops) \in Seq(T)
  OBVIOUS
<1> HIDE DEF ds
<1> QED
  BY <1>4, <1>5, <1>6 DEF Certified

LEMMA CertifiedEnd ==
  ASSUME NEW V, NEW c, Certified(V, <<>>, c) PROVE c.regs = <<>>
BY DEF Certified, Certificate

(* A local is known before an operation that uses it, and stays known      *)
(* until it is assigned.                                                   *)
LEMMA TypedUses ==
  ASSUME NEW V, NEW o, NEW c, NEW d, Typed(V, o, c, d)
  PROVE  Uses(o) \subseteq Names(c) \cup Stacks
<1> USE DEF Names, Uses, Stacks, Is
<1>1. CASE TypedPop(o, c, d) \/ TypedDrop(o, c, d)
  BY <1>1 DEF TypedPop, TypedDrop
<1>2. CASE TypedPush(o, c, d)
  BY <1>2 DEF TypedPush
<1>3. CASE TypedNew(V, o, c, d)
  BY <1>3 DEF TypedNew
<1>4. CASE TypedNewBlock(V, o, c, d)
  <2>1. (<<o.p, "code">> \in c.loc \/ <<o.p, "list">> \in c.loc) /\ o.op = "new_block"
    BY <1>4 DEF TypedNewBlock
  <2> QED
    BY <2>1
<1>5. CASE TypedKeep(o, c, d)
  <2>1. Uses(o) = {o.p} /\ (<<o.p, "any">> \in c.loc \/ <<o.p, "list">> \in c.loc \/ <<o.p, "block">> \in c.loc)
    BY <1>5 DEF TypedKeep
  <2> QED
    BY <2>1
<1>6. CASE TypedRelease(o, c, d) \/ TypedPopRegister(o, c, d)
  BY <1>6 DEF TypedRelease, TypedPopRegister
<1>7. CASE TypedFront(o, c, d) \/ TypedDereference(o, c, d)
  BY <1>7 DEF TypedFront, TypedDereference
<1>8. CASE TypedCode(o, c, d) \/ TypedBind(o, c, d)
  BY <1>8 DEF TypedCode, TypedBind
<1>9. CASE TypedRewind(o, c, d)
  <2>1. Uses(o) = {o.p} /\ <<o.p, "block">> \in c.loc
    BY <1>9 DEF TypedRewind
  <2> QED
    BY <2>1
<1> QED
  BY <1>1, <1>2, <1>3, <1>4, <1>5, <1>6, <1>7, <1>8, <1>9 DEF Typed

LEMMA TypedNames ==
  ASSUME NEW V, NEW o, NEW c, NEW d, Typed(V, o, c, d), NEW x \in Names(d), x # o.x
  PROVE  x \in Names(c)
<1> PICK e \in d.loc : e[1] = x
  BY DEF Names
<1> USE DEF Names, Assigns, Is
<1>1. CASE TypedPop(o, c, d) \/ TypedDrop(o, c, d)
  BY <1>1 DEF TypedPop, TypedDrop
<1>2. CASE TypedPush(o, c, d)
  BY <1>2 DEF TypedPush
<1>3. CASE TypedNew(V, o, c, d) \/ TypedNewBlock(V, o, c, d)
  BY <1>3 DEF TypedNew, TypedNewBlock
<1>4. CASE d.loc \subseteq c.loc
  BY <1>4
<1>5. CASE TypedPopRegister(o, c, d)
  BY <1>5 DEF TypedPopRegister
<1>6. CASE TypedFront(o, c, d) \/ TypedDereference(o, c, d)
  BY <1>6 DEF TypedFront, TypedDereference
<1>7. CASE TypedCode(o, c, d)
  BY <1>7 DEF TypedCode
<1>8. TypedKeep(o, c, d) \/ TypedRelease(o, c, d) \/ TypedRewind(o, c, d) \/ TypedBind(o, c, d) => d.loc \subseteq c.loc
  BY DEF TypedKeep, TypedRelease, TypedRewind, TypedBind
<1> QED
  BY <1>1, <1>2, <1>3, <1>4, <1>5, <1>6, <1>7, <1>8 DEF Typed

(* Every local has a name. *)
LEMMA TypedNamed ==
  ASSUME NEW V, NEW o, NEW c, NEW d, Typed(V, o, c, d), "" \notin Names(c)
  PROVE  "" \notin Names(d)
<1>1. CASE o.x # ""
  BY <1>1, TypedNames
<1>2. CASE d.loc \subseteq c.loc
  BY <1>2 DEF Names
<1>3. TypedKeep(o, c, d) \/ TypedRelease(o, c, d) \/ TypedRewind(o, c, d) \/ TypedBind(o, c, d) \/ TypedDrop(o, c, d)
      \/ TypedPush(o, c, d) => d.loc \subseteq c.loc
  BY DEF TypedKeep, TypedRelease, TypedRewind, TypedBind, TypedDrop, TypedPush
<1>4. TypedPop(o, c, d) \/ TypedNew(V, o, c, d) \/ TypedNewBlock(V, o, c, d) \/ TypedPopRegister(o, c, d)
      \/ TypedFront(o, c, d) \/ TypedDereference(o, c, d) \/ TypedCode(o, c, d) => o.x # ""
  BY DEF TypedPop, TypedNew, TypedNewBlock, TypedPopRegister, TypedFront, TypedDereference, TypedCode,
         Assigns, OwnLocal
<1> QED
  BY <1>1, <1>2, <1>3, <1>4 DEF Typed

LEMMA Smallest ==
  ASSUME NEW J \in SUBSET Nat, J # {} PROVE \E j \in J : \A i \in J : j <= i
<1> DEFINE Less == OpToRel(<, Nat)
<1>1. PICK j \in J : \A i \in J : ~ (<<i, j>> \in Less)
  <2> IsWellFoundedOn(Less, Nat)
    BY NatLessThanWellFounded
  <2> HIDE DEF Less
  <2> QED
    BY WFMin
<1>2. ASSUME NEW i \in J, ~ (j <= i) PROVE FALSE
  <2>1. i < j /\ i \in Nat /\ j \in Nat
    BY <1>2
  <2>2. <<i, j>> \in Less
    BY <2>1 DEF OpToRel
  <2> QED
    BY <2>2, <1>1
<1> QED
  BY <1>2

(* What the rest of a builtin still reads is known to hang on something.   *)
LEMMA StillUsedKnown ==
  ASSUME NEW V, NEW ops, NEW c, Certified(V, ops, c)
  PROVE  StillUsed(ops) \subseteq Names(c) \cup Stacks
<1> PICK T : ops \in Seq(T)
  BY DEF Certified
<1>1. PICK cs : Certificate(V, ops, cs) /\ cs[1] = c
  BY DEF Certified
<1>2. SUFFICES ASSUME NEW k \in 1 .. Len(ops), NEW x \in Uses(ops[k]),
                      \A j \in 1 .. k - 1 : ops[j].x # x \/ x \in Uses(ops[j])
               PROVE  x \in Names(c) \cup Stacks
  BY DEF StillUsed
<1> DEFINE At(j) == j \in 1 .. k /\ x \in Names(cs[j]) \cup Stacks
<1>3. \A j \in 1 .. Len(ops) : Typed(V, ops[j], cs[j], cs[j + 1])
  BY <1>1 DEF Certificate
<1>4. At(k)
  BY <1>3, TypedUses
<1>5. ASSUME NEW j \in 1 .. k, At(j), j # 1 PROVE At(j - 1)
  <2>1. j - 1 \in 1 .. Len(ops) /\ j - 1 \in 1 .. k - 1 /\ (j - 1) + 1 = j
    BY <1>5
  <2>2. Typed(V, ops[j - 1], cs[j - 1], cs[j])
    BY <2>1, <1>3
  <2>3. CASE x \in Uses(ops[j - 1])
    BY <2>1, <2>2, <2>3, TypedUses
  <2>4. CASE ops[j - 1].x # x
    BY <2>1, <2>2, <2>4, <1>5, TypedNames
  <2> QED
    BY <2>1, <2>3, <2>4, <1>2
<1>6. At(1)
  <2> DEFINE J == {j \in 1 .. k : At(j)}
  <2>1. \A j \in J : j = 1 \/ j - 1 \in J
    BY <1>5
  <2>2. k \in J
    BY <1>4
  <2>3. PICK j \in J : \A i \in J : j <= i
    <3>1. J \subseteq Nat /\ J # {}
      BY <2>2
    <3> HIDE DEF J
    <3> QED
      BY <3>1, Smallest
  <2>4. j = 1
    BY <2>1, <2>3
  <2> QED
    BY <2>3, <2>4
<1> QED
  BY <1>1, <1>6

-----------------------------------------------------------------------------
(* What hangs on a chunk, and the chunks of a list.                        *)

(* t[i] is what hangs on chunk i: a set that refers to none outside it, *)
(* and what every such set that holds S holds                              *)
Closed(t, S) == \A i \in S : t[i] \ {NULL} \subseteq S

Hull(t, S) == {x \in DOMAIN t : \A T \in SUBSET DOMAIN t : S \subseteq T /\ Closed(t, T) => x \in T}

NoDangling(t) == NULL \notin DOMAIN t /\ Closed(t, DOMAIN t)

(* What the collectors follow, and how free chunks are linked *)
Successions(h) == [i \in DOMAIN h |-> Range(SuccessorsIn(h, i))]

Following(h) == [i \in DOMAIN h |-> {h[i].b}]

LEMMA GreatestSet ==
  ASSUME NEW D, IsFiniteSet(D), NEW F \in SUBSET SUBSET D, F # {}
  PROVE  \E S \in F : \A T \in F : S \subseteq T => S = T
<1> DEFINE C == {D \ S : S \in F}
<1>1. IsWellFoundedOn(StrictSubsetOrdering(D), SUBSET D)
  BY FS_StrictSubsetOrderingWellFounded, FS_FiniteSubsetsOfFinite
<1>2. C \subseteq SUBSET D /\ C # {}
  <2>1. PICK S : S \in F
    OBVIOUS
  <2>2. D \ S \in C
    BY <2>1
  <2>3. ASSUME NEW x \in C PROVE x \in SUBSET D
    OBVIOUS
  <2> HIDE DEF C
  <2> QED
    BY <2>2, <2>3
<1>3. PICK x \in C : \A y \in C : ~ (<<y, x>> \in StrictSubsetOrdering(D))
  <2> DEFINE R == StrictSubsetOrdering(D)
             U == SUBSET D
  <2>1. IsWellFoundedOn(R, U) /\ C \subseteq U /\ C # {}
    BY <1>1, <1>2
  <2> HIDE DEF C, R, U
  <2>2. \E x \in C : \A y \in C : ~ (<<y, x>> \in R)
    BY <2>1, WFMin
  <2> QED
    BY <2>2 DEF R
<1>4. PICK S \in F : x = D \ S
  BY <1>3
<1>5. ASSUME NEW T \in F, S \subseteq T, S # T PROVE FALSE
  <2>1. D \ T \subseteq D \ S /\ D \ T # D \ S
    BY <1>5
  <2>2. <<D \ T, D \ S>> \in StrictSubsetOrdering(D)
    BY <2>1 DEF StrictSubsetOrdering
  <2> QED
    BY <1>3, <1>4, <2>2
<1> QED
  BY <1>5

(* One more round of Closure *)
More(t, S) == (S \cup UNION {t[i] : i \in S}) \ {NULL}

Rounds(t, R) == R = [S \in SUBSET DOMAIN t |-> IF More(t, S) = S THEN S ELSE R[More(t, S)]]

LEMMA MoreOfHull ==
  ASSUME NEW t, NoDangling(t), NEW S \in SUBSET DOMAIN t
  PROVE  /\ More(t, S) \in SUBSET DOMAIN t /\ S \subseteq More(t, S)
         /\ Hull(t, More(t, S)) = Hull(t, S)
         /\ More(t, S) = S => Hull(t, S) = S
<1>1. More(t, S) = S \cup UNION {t[i] \ {NULL} : i \in S}
  BY DEF More, NoDangling
<1>2. More(t, S) \in SUBSET DOMAIN t
  BY <1>1 DEF NoDangling, Closed
<1>3. ASSUME NEW T \in SUBSET DOMAIN t, S \subseteq T, Closed(t, T) PROVE More(t, S) \subseteq T
  BY <1>1, <1>3 DEF Closed
<1>4. More(t, S) = S => Closed(t, S)
  BY <1>1 DEF Closed
<1> QED
  BY <1>1, <1>2, <1>3, <1>4 DEF Hull

(* Closure's recursive function is there, and there is only one. *)
LEMMA HullRounds ==
  ASSUME NEW t, NoDangling(t)
  PROVE  Rounds(t, [S \in SUBSET DOMAIN t |-> Hull(t, S)])
<1> DEFINE R == [S \in SUBSET DOMAIN t |-> Hull(t, S)]
<1>1. ASSUME NEW S \in SUBSET DOMAIN t
      PROVE  Hull(t, S) = IF More(t, S) = S THEN S ELSE R[More(t, S)]
  BY MoreOfHull
<1> QED
  BY <1>1 DEF Rounds

LEMMA RoundsAreHulls ==
  ASSUME NEW t, NoDangling(t), IsFiniteSet(DOMAIN t), NEW R, Rounds(t, R)
  PROVE  \A S \in SUBSET DOMAIN t : R[S] = Hull(t, S)
<1> DEFINE F == {S \in SUBSET DOMAIN t : R[S] # Hull(t, S)}
<1>1. SUFFICES ASSUME F # {} PROVE FALSE
  OBVIOUS
<1>2. PICK S \in F : \A T \in F : S \subseteq T => S = T
  <2> HIDE <1>1
  <2>1. F \in SUBSET SUBSET DOMAIN t
    OBVIOUS
  <2> HIDE DEF F
  <2> QED
    BY <1>1, <2>1, GreatestSet
<1>3. More(t, S) # S
  BY MoreOfHull DEF Rounds
<1>4. R[S] = R[More(t, S)]
  BY <1>3 DEF Rounds
<1>5. More(t, S) \notin F
  BY <1>2, <1>3, MoreOfHull
<1> QED
  BY <1>4, <1>5, MoreOfHull

LEMMA HullIsLeast ==
  ASSUME NEW t, NoDangling(t), NEW S \in SUBSET DOMAIN t
  PROVE  /\ Hull(t, S) \subseteq DOMAIN t /\ S \subseteq Hull(t, S) /\ Closed(t, Hull(t, S))
         /\ \A T \in SUBSET DOMAIN t : S \subseteq T /\ Closed(t, T) => Hull(t, S) \subseteq T
BY DEF Hull, Closed, NoDangling

(* What hangs on some chunks is the least set with them that refers to     *)
(* nothing outside it.                                                     *)
LEMMA ReachIsHull ==
  ASSUME NEW h, NoDangling(Successions(h)), IsFiniteSet(DOMAIN h), NEW from \in SUBSET (DOMAIN h \cup {NULL})
  PROVE  ReachIn(h, from) = Hull(Successions(h), from \ {NULL})
<1> DEFINE t == Successions(h)
           Step(S) == (S \cup UNION {Range(SuccessorsIn(h, i)) : i \in S}) \ {NULL}
           Recursion(R) == R = [S \in SUBSET DOMAIN h |-> IF Step(S) = S THEN S ELSE R[Step(S)]]
           R == CHOOSE R : Recursion(R)
<1>1. DOMAIN t = DOMAIN h
  BY DEF Successions
<1>2. ASSUME NEW S \in SUBSET DOMAIN h PROVE Step(S) = More(t, S)
  <2>1. {t[i] : i \in S} = {Range(SuccessorsIn(h, i)) : i \in S}
    BY DEF Successions
  <2> QED
    BY <2>1 DEF More
<1> HIDE DEF t, Step
<1>3. \A Q : Recursion(Q) <=> Rounds(t, Q)
  BY <1>1, <1>2 DEF Rounds
<1>4. Rounds(t, R)
  <2>1. \E f : Recursion(f)
    BY <1>3, HullRounds DEF t
  <2> HIDE DEF Recursion
  <2>2. Recursion(R)
    BY <2>1
  <2> QED
    BY <1>3, <2>2
<1>5. ReachIn(h, from) = R[from \ {NULL}]
  BY DEF ReachIn, Closure, Step
<1> HIDE DEF R
<1> QED
  BY <1>1, <1>4, <1>5, RoundsAreHulls DEF t

LEMMA ReachIsLeast ==
  ASSUME NEW h, NoDangling(Successions(h)), IsFiniteSet(DOMAIN h), NEW from \in SUBSET (DOMAIN h \cup {NULL})
  PROVE  /\ ReachIn(h, from) \subseteq DOMAIN h
         /\ from \ {NULL} \subseteq ReachIn(h, from)
         /\ Closed(Successions(h), ReachIn(h, from))
         /\ \A T \in SUBSET DOMAIN h :
              from \ {NULL} \subseteq T /\ Closed(Successions(h), T) => ReachIn(h, from) \subseteq T
<1>1. DOMAIN Successions(h) = DOMAIN h
  BY DEF Successions
<1>2. from \ {NULL} \in SUBSET DOMAIN Successions(h)
  BY <1>1
<1>3. ReachIn(h, from) = Hull(Successions(h), from \ {NULL})
  BY ReachIsHull
<1> QED
  BY <1>1, <1>2, <1>3, HullIsLeast

-----------------------------------------------------------------------------
(* The list of chunks, linked by their second word, that starts at x       *)

Follow(h, x) == Hull(Following(h), {x} \ {NULL})

(* It comes back to none of its chunks. *)
Straight(h, x) == \A y \in Follow(h, x) : y \notin Follow(h, h[y].b)

(* Following the second word stays inside the heap. *)
Chained(h) == NULL \notin DOMAIN h /\ \A i \in DOMAIN h : h[i].b \in DOMAIN h \cup {NULL}

LEMMA ChainedDangles ==
  ASSUME NEW h, Chained(h)
  PROVE  /\ NoDangling(Following(h)) /\ DOMAIN Following(h) = DOMAIN h
         /\ \A i \in DOMAIN h : Following(h)[i] = {h[i].b}
BY DEF Chained, NoDangling, Following, Closed

LEMMA FollowIsClosure ==
  ASSUME NEW h, Chained(h), IsFiniteSet(DOMAIN h), NEW x \in DOMAIN h \cup {NULL}
  PROVE  ChainIn(h, x) = Follow(h, x)
<1> DEFINE t == Following(h)
           Step(S) == (S \cup UNION {{h[i].b} : i \in S}) \ {NULL}
           Recursion(R) == R = [S \in SUBSET DOMAIN h |-> IF Step(S) = S THEN S ELSE R[Step(S)]]
           R == CHOOSE R : Recursion(R)
<1>1. DOMAIN t = DOMAIN h /\ NoDangling(t)
  BY ChainedDangles
<1>2. ASSUME NEW S \in SUBSET DOMAIN h PROVE Step(S) = More(t, S)
  <2>1. {t[i] : i \in S} = {{h[i].b} : i \in S}
    BY DEF Following
  <2> QED
    BY <2>1 DEF More
<1> HIDE DEF t, Step
<1>3. \A Q : Recursion(Q) <=> Rounds(t, Q)
  BY <1>1, <1>2 DEF Rounds
<1>4. Rounds(t, R)
  <2>1. \E f : Recursion(f)
    BY <1>1, <1>3, HullRounds
  <2> HIDE DEF Recursion
  <2>2. Recursion(R)
    BY <2>1
  <2> QED
    BY <1>3, <2>2
<1>5. ChainIn(h, x) = R[{x} \ {NULL}]
  BY DEF ChainIn, Closure, Step
<1> HIDE DEF R
<1>6. {x} \ {NULL} \in SUBSET DOMAIN t
  BY <1>1
<1> QED
  BY <1>1, <1>4, <1>5, <1>6, RoundsAreHulls DEF t, Follow

LEMMA FollowIsLeast ==
  ASSUME NEW h, Chained(h), NEW x \in DOMAIN h \cup {NULL}
  PROVE  /\ Follow(h, x) \subseteq DOMAIN h
         /\ x # NULL => x \in Follow(h, x)
         /\ \A i \in Follow(h, x) : h[i].b = NULL \/ h[i].b \in Follow(h, x)
         /\ \A T \in SUBSET DOMAIN h :
              (x # NULL => x \in T) /\ (\A i \in T : h[i].b = NULL \/ h[i].b \in T) => Follow(h, x) \subseteq T
<1>1. /\ NoDangling(Following(h)) /\ DOMAIN Following(h) = DOMAIN h
      /\ \A i \in DOMAIN h : Following(h)[i] = {h[i].b}
  BY ChainedDangles
<1>2. {x} \ {NULL} \in SUBSET DOMAIN h
  OBVIOUS
<1>3. /\ Follow(h, x) \subseteq DOMAIN h /\ {x} \ {NULL} \subseteq Follow(h, x) /\ Closed(Following(h), Follow(h, x))
      /\ \A T \in SUBSET DOMAIN h :
           {x} \ {NULL} \subseteq T /\ Closed(Following(h), T) => Follow(h, x) \subseteq T
  BY <1>1, <1>2, HullIsLeast DEF Follow
<1>4. \A T \in SUBSET DOMAIN h : Closed(Following(h), T) <=> \A i \in T : h[i].b = NULL \/ h[i].b \in T
  BY <1>1 DEF Closed
<1> QED
  BY <1>3, <1>4

LEMMA FollowNothing ==
  ASSUME NEW h, Chained(h)
  PROVE  Follow(h, NULL) = {} /\ Straight(h, NULL)
<1>1. Follow(h, NULL) = {}
  <2>1. {NULL} \ {NULL} = {}
    OBVIOUS
  <2>2. Hull(Following(h), {}) = {}
    <3>1. {} \in SUBSET DOMAIN Following(h) /\ Closed(Following(h), {}) /\ {} \subseteq {}
      BY DEF Closed
    <3>2. \A x \in Hull(Following(h), {}) : x \in {}
      BY <3>1 DEF Hull
    <3> QED
      BY <3>2
  <2> QED
    BY <2>1, <2>2 DEF Follow
<1> QED
  BY <1>1 DEF Straight

(* The first, and then the rest *)
LEMMA FollowStep ==
  ASSUME NEW h, Chained(h), NEW x \in DOMAIN h
  PROVE  Follow(h, x) = {x} \cup Follow(h, h[x].b)
<1> DEFINE y == h[x].b
           F == Follow(h, x)
           G == Follow(h, y)
<1>1. y \in DOMAIN h \cup {NULL} /\ x # NULL
  BY DEF Chained
<1>2. /\ F \subseteq DOMAIN h /\ x \in F /\ \A i \in F : h[i].b = NULL \/ h[i].b \in F
      /\ \A T \in SUBSET DOMAIN h : x \in T /\ (\A i \in T : h[i].b = NULL \/ h[i].b \in T) => F \subseteq T
  <2>1. x \in DOMAIN h \cup {NULL}
    OBVIOUS
  <2>2. /\ F \subseteq DOMAIN h /\ x \in F /\ \A i \in F : h[i].b = NULL \/ h[i].b \in F
    BY <1>1, <2>1, FollowIsLeast
  <2>3. \A T \in SUBSET DOMAIN h :
          (x # NULL => x \in T) /\ (\A i \in T : h[i].b = NULL \/ h[i].b \in T) => F \subseteq T
    BY <2>1, FollowIsLeast
  <2> QED
    BY <1>1, <2>2, <2>3
<1>3. /\ G \subseteq DOMAIN h /\ (y # NULL => y \in G) /\ \A i \in G : h[i].b = NULL \/ h[i].b \in G
      /\ \A T \in SUBSET DOMAIN h :
           (y # NULL => y \in T) /\ (\A i \in T : h[i].b = NULL \/ h[i].b \in T) => G \subseteq T
  BY <1>1, FollowIsLeast
<1> HIDE DEF F, G
<1>4. G \subseteq F
  BY <1>2, <1>3
<1>5. F \subseteq {x} \cup G
  <2>1. {x} \cup G \in SUBSET DOMAIN h
    BY <1>3
  <2>2. \A i \in {x} \cup G : h[i].b = NULL \/ h[i].b \in {x} \cup G
    BY <1>3
  <2> QED
    BY <1>2, <2>1, <2>2
<1> QED
  BY <1>2, <1>4, <1>5 DEF F, G

(* A list is what it was as long as its links are. *)
LEMMA FollowSame ==
  ASSUME NEW h, Chained(h), NEW g, Chained(g), DOMAIN g = DOMAIN h, NEW x \in DOMAIN h \cup {NULL},
         \A i \in Follow(h, x) : g[i].b = h[i].b
  PROVE  Follow(g, x) = Follow(h, x)
<1> DEFINE F == Follow(h, x)
           G == Follow(g, x)
<1>1. /\ F \subseteq DOMAIN h /\ (x # NULL => x \in F) /\ \A i \in F : h[i].b = NULL \/ h[i].b \in F
      /\ \A T \in SUBSET DOMAIN h :
           (x # NULL => x \in T) /\ (\A i \in T : h[i].b = NULL \/ h[i].b \in T) => F \subseteq T
  BY FollowIsLeast
<1>2. /\ G \subseteq DOMAIN h /\ (x # NULL => x \in G) /\ \A i \in G : g[i].b = NULL \/ g[i].b \in G
      /\ \A T \in SUBSET DOMAIN h :
           (x # NULL => x \in T) /\ (\A i \in T : g[i].b = NULL \/ g[i].b \in T) => G \subseteq T
  BY FollowIsLeast
<1>3. \A i \in F : g[i].b = h[i].b
  OBVIOUS
<1> HIDE DEF F, G
<1>4. G \subseteq F
  BY <1>1, <1>2, <1>3
<1>5. F \subseteq G
  BY <1>1, <1>2, <1>3, <1>4
<1> QED
  BY <1>4, <1>5 DEF F, G

LEMMA StraightSame ==
  ASSUME NEW h, Chained(h), NEW g, Chained(g), DOMAIN g = DOMAIN h, NEW x \in DOMAIN h \cup {NULL},
         \A i \in Follow(h, x) : g[i].b = h[i].b, Straight(h, x)
  PROVE  Follow(g, x) = Follow(h, x) /\ Straight(g, x)
<1>1. Follow(g, x) = Follow(h, x)
  BY FollowSame
<1>2. ASSUME NEW y \in Follow(h, x) PROVE y \notin Follow(g, g[y].b)
  <2>1. Follow(h, x) \subseteq DOMAIN h /\ (h[y].b = NULL \/ h[y].b \in Follow(h, x))
        /\ \A i \in Follow(h, x) : h[i].b = NULL \/ h[i].b \in Follow(h, x)
    BY FollowIsLeast
  <2>2. h[y].b \in DOMAIN h \cup {NULL} /\ g[y].b = h[y].b
    BY <2>1
  <2>3. Follow(h, h[y].b) \subseteq Follow(h, x)
    <3>1. Follow(h, x) \in SUBSET DOMAIN h
      BY <2>1
    <3> QED
      BY <2>1, <2>2, <3>1, FollowIsLeast
  <2>4. Follow(g, h[y].b) = Follow(h, h[y].b)
    BY <2>2, <2>3, FollowSame
  <2> QED
    BY <2>2, <2>4 DEF Straight
<1> QED
  BY <1>1, <1>2 DEF Straight

(* What comes after the first is a list of its own. *)
LEMMA FollowRest ==
  ASSUME NEW h, Chained(h), NEW x \in DOMAIN h, Straight(h, x)
  PROVE  Follow(h, h[x].b) = Follow(h, x) \ {x} /\ Straight(h, h[x].b)
<1>1. Follow(h, x) = {x} \cup Follow(h, h[x].b)
  BY FollowStep
<1>2. x \notin Follow(h, h[x].b)
  BY <1>1 DEF Straight
<1> QED
  BY <1>1, <1>2 DEF Straight

-----------------------------------------------------------------------------
(* What an operation of a kind takes and gives. *)

Pushes == {"push_front", "push_back"}

LEMMA TypedAs ==
  ASSUME NEW V, NEW o, NEW c, NEW d, Typed(V, o, c, d)
  PROVE  /\ o.op = "pop_to_register" => TypedPop(o, c, d)
         /\ o.op = "pop_front" => TypedDrop(o, c, d)
         /\ o.op \in Pushes => TypedPush(o, c, d)
         /\ o.op = "new" => TypedNew(V, o, c, d)
         /\ o.op = "new_block" => TypedNewBlock(V, o, c, d)
         /\ o.op = "push_register" => TypedKeep(o, c, d)
         /\ o.op = "release" => TypedRelease(o, c, d)
         /\ o.op = "pop_register" => TypedPopRegister(o, c, d)
         /\ o.op = "front" => TypedFront(o, c, d)
         /\ o.op = "dereference" => TypedDereference(o, c, d)
         /\ o.op = "code" => TypedCode(o, c, d)
         /\ o.op = "rewind" => TypedRewind(o, c, d)
         /\ o.op = "bind" => TypedBind(o, c, d)
         /\ o.op \notin {"advance", "current_data", "argument", "stop"}
BY DEF Typed, TypedPop, TypedDrop, TypedPush, TypedNew, TypedNewBlock, TypedKeep, TypedRelease,
       TypedPopRegister, TypedFront, TypedDereference, TypedCode, TypedRewind, TypedBind, Pushes

(* What an operation reads is still used before it, and what is still used *)
(* after it was still used before, but for what it assigns.                *)
LEMMA UsesNow ==
  ASSUME NEW T, NEW ops \in Seq(T), ops # <<>>
  PROVE  Uses(Head(ops)) \subseteq StillUsed(ops)
<1>1. 1 \in DOMAIN ops /\ Head(ops) = ops[1] /\ 1 .. 1 - 1 = {}
  OBVIOUS
<1> QED
  BY <1>1 DEF StillUsed

LEMMA UsedLater ==
  ASSUME NEW T, NEW ops \in Seq(T), ops # <<>>,
         NEW x \in StillUsed(Tail(ops)), x # Head(ops).x \/ x \in Uses(Head(ops))
  PROVE  x \in StillUsed(ops)
<1>1. /\ Head(ops) = ops[1] /\ Len(ops) \in Nat /\ DOMAIN ops = 1 .. Len(ops)
      /\ DOMAIN Tail(ops) = 1 .. Len(ops) - 1
      /\ \A k \in 1 .. Len(ops) - 1 : Tail(ops)[k] = ops[k + 1]
  OBVIOUS
<1>2. PICK k \in 1 .. Len(ops) - 1 :
        x \in Uses(ops[k + 1]) /\ \A j \in 1 .. k - 1 : Tail(ops)[j].x # x \/ x \in Uses(Tail(ops)[j])
  BY <1>1 DEF StillUsed
<1>3. ASSUME NEW j \in 1 .. (k + 1) - 1 PROVE ops[j].x # x \/ x \in Uses(ops[j])
  <2>1. CASE j = 1
    BY <1>1, <2>1
  <2>2. CASE j # 1
    <3>1. j - 1 \in 1 .. k - 1 /\ j - 1 \in 1 .. Len(ops) - 1 /\ (j - 1) + 1 = j
      BY <1>1, <2>2
    <3>2. Tail(ops)[j - 1] = ops[j]
      BY <1>1, <3>1
    <3> QED
      BY <1>2, <3>1, <3>2
  <2> QED
    BY <2>1, <2>2
<1>4. k + 1 \in DOMAIN ops
  BY <1>1
<1> QED
  BY <1>2, <1>3, <1>4 DEF StillUsed

LEMMA TailFacts ==
  ASSUME NEW T, NEW s \in Seq(T), s # <<>>
  PROVE  /\ Len(s) \in Nat /\ Len(s) >= 1 /\ Head(s) = s[1]
         /\ Tail(s) \in Seq(T) /\ Len(Tail(s)) = Len(s) - 1
         /\ \A k \in 1 .. Len(Tail(s)) : Tail(s)[k] = s[k + 1]
OBVIOUS

LEMMA CutFacts ==
  ASSUME NEW T, NEW s \in Seq(T), NEW n \in Nat, n <= Len(s)
  PROVE  /\ SubSeq(s, 1, n) \in Seq(T) /\ Len(SubSeq(s, 1, n)) = n
         /\ \A k \in 1 .. n : SubSeq(s, 1, n)[k] = s[k]
<1>1. \A k \in 1 .. n : s[k] \in T
  OBVIOUS
<1> QED
  BY <1>1

LEMMA JoinFacts ==
  ASSUME NEW T, NEW s \in Seq(T), NEW t \in Seq(T)
  PROVE  /\ s \o t \in Seq(T) /\ Len(s \o t) = Len(s) + Len(t)
         /\ \A k \in 1 .. Len(s) : (s \o t)[k] = s[k]
OBVIOUS

LEMMA AppendFacts ==
  ASSUME NEW T, NEW s \in Seq(T), NEW x \in T
  PROVE  /\ Append(s, x) \in Seq(T) /\ Len(Append(s, x)) = Len(s) + 1 /\ Len(s) \in Nat
         /\ Append(s, x)[Len(s) + 1] = x /\ \A k \in 1 .. Len(s) : Append(s, x)[k] = s[k]
OBVIOUS

LEMMA LastFacts ==
  ASSUME NEW T, NEW s \in Seq(T), Len(s) >= 1
  PROVE  /\ Front(s) \in Seq(T) /\ Len(Front(s)) = Len(s) - 1 /\ Last(s) = s[Len(s)]
         /\ \A k \in 1 .. Len(s) - 1 : Front(s)[k] = s[k]
<1>1. Front(s) = SubSeq(s, 1, Len(s) - 1) /\ Last(s) = s[Len(s)]
  BY DEF Front, Last
<1>2. Len(s) - 1 \in Nat /\ Len(s) - 1 <= Len(s)
  OBVIOUS
<1> QED
  BY <1>1, <1>2, CutFacts

(* What Gives says of the registers *)
LEMMA GivesFacts ==
  ASSUME NEW c, NEW d, NEW kind, Gives(c, d, kind)
  PROVE  /\ d.regs \in Seq(Kept) /\ Len(d.regs) \in Nat /\ Len(c.regs) = Len(d.regs) + 1
         /\ c.regs[Len(c.regs)] = kind
         /\ \A k \in 1 .. Len(d.regs) : c.regs[k] = d.regs[k] /\ k \in 1 .. Len(c.regs)
<1> DEFINE s == d.regs
<1>1. s \in Seq(Kept) /\ c.regs = Append(s, kind)
  BY DEF Gives
<1> HIDE DEF s
<1>2. Len(Append(s, kind)) = Len(s) + 1 /\ Len(s) \in Nat /\ Append(s, kind)[Len(s) + 1] = kind
      /\ \A k \in 1 .. Len(s) : Append(s, kind)[k] = s[k] /\ k \in 1 .. Len(s) + 1
  BY <1>1
<1> QED
  BY <1>1, <1>2 DEF s

-----------------------------------------------------------------------------
(* The first three items of a list, and what a symbol means *)

(* The program calls a builtin. *)

LEMMA NodeOf1 ==
  ASSUME NEW h, NEW list
  PROVE  NodeOf(h, list, 1) = h[list].a
<1> DEFINE G(f) == f = [j \in 1 .. 1 |-> IF j = 1 THEN h[list].a
                                        ELSE IF f[j - 1] = NULL THEN NULL ELSE h[f[j - 1]].b]
           at == CHOOSE f : G(f)
           w == [j \in 1 .. 1 |-> h[list].a]
<1>1. G(w)
  OBVIOUS
<1>2. G(at)
  <2> HIDE DEF G, w
  <2> QED
    BY <1>1
<1>3. at[1] = h[list].a
  <2> HIDE DEF at
  <2> QED
    BY <1>2
<1> QED
  BY <1>3 DEF NodeOf

LEMMA NodeOf2 ==
  ASSUME NEW h, NEW list, h[list].a # NULL
  PROVE  NodeOf(h, list, 2) = h[h[list].a].b
<1> DEFINE G(f) == f = [j \in 1 .. 2 |-> IF j = 1 THEN h[list].a
                                        ELSE IF f[j - 1] = NULL THEN NULL ELSE h[f[j - 1]].b]
           at == CHOOSE f : G(f)
           w == [j \in 1 .. 2 |-> IF j = 1 THEN h[list].a ELSE h[h[list].a].b]
<1>1. G(w)
  OBVIOUS
<1>2. G(at)
  <2> HIDE DEF G, w
  <2> QED
    BY <1>1
<1>3. at[2] = h[h[list].a].b
  <2> HIDE DEF at
  <2>1. at[1] = h[list].a
    BY <1>2
  <2>2. at[2] = IF at[1] = NULL THEN NULL ELSE h[at[1]].b
    BY <1>2
  <2> QED
    BY <2>1, <2>2
<1> QED
  BY <1>3 DEF NodeOf

LEMMA NodeOf3 ==
  ASSUME NEW h, NEW list, h[list].a # NULL, h[h[list].a].b # NULL
  PROVE  NodeOf(h, list, 3) = h[h[h[list].a].b].b
<1> DEFINE G(f) == f = [j \in 1 .. 3 |-> IF j = 1 THEN h[list].a
                                        ELSE IF f[j - 1] = NULL THEN NULL ELSE h[f[j - 1]].b]
           at == CHOOSE f : G(f)
           w == [j \in 1 .. 3 |-> IF j = 1 THEN h[list].a
                                  ELSE IF j = 2 THEN h[h[list].a].b ELSE h[h[h[list].a].b].b]
<1>1. G(w)
  OBVIOUS
<1>2. G(at)
  <2> HIDE DEF G, w
  <2> QED
    BY <1>1
<1>3. at[3] = h[h[h[list].a].b].b
  <2> HIDE DEF at
  <2>1. at[1] = h[list].a
    BY <1>2
  <2>2. at[2] = IF at[1] = NULL THEN NULL ELSE h[at[1]].b
    BY <1>2
  <2>3. at[3] = IF at[2] = NULL THEN NULL ELSE h[at[2]].b
    BY <1>2
  <2> QED
    BY <2>1, <2>2, <2>3
<1> QED
  BY <1>3 DEF NodeOf

(* What a symbol bound to a symbol means, one step at a time *)
SymbolAfter(h, b, t) ==
  IF t \in DOMAIN b /\ b[t] # NULL /\ h[b[t]].type = "symbol" THEN h[b[t]].a ELSE t

Meaning(h, b, s, S, meant) ==
  /\ meant[0] = s /\ \A k \in 1 .. Cardinality(S) : meant[k] = SymbolAfter(h, b, meant[k - 1])
  /\ \A k \in 0 .. Cardinality(S) : meant[k] \in S
  /\ MeantIn(h, b, s) = meant[Cardinality(S)]

LEMMA MeantSteps ==
  ASSUME NEW h, NEW S, IsFiniteSet(S), NEW b, DOMAIN b = S, NEW s \in S,
         \A t \in S : b[t] # NULL /\ h[b[t]].type = "symbol" => h[b[t]].a \in S
  PROVE  \E meant : Meaning(h, b, s, S, meant)
<1> DEFINE n == Cardinality(DOMAIN b)
           Step(t) == IF t \in DOMAIN b /\ b[t] # NULL /\ h[b[t]].type = "symbol"
                      THEN h[b[t]].a ELSE t
           G(f) == f = [k \in 0 .. n |-> IF k = 0 THEN s
                         ELSE LET t == f[k - 1]
                              IN  IF t \in DOMAIN b /\ b[t] # NULL
                                     /\ h[b[t]].type = "symbol"
                                  THEN h[b[t]].a ELSE t]
           meant == CHOOSE f : G(f)
<1>1. n \in Nat
  BY FS_CardinalityType
<1>2. \A t \in S : Step(t) \in S
  OBVIOUS
<1> HIDE DEF n
<1>3. ASSUME NEW f PROVE G(f) <=> f = [k \in 0 .. n |-> IF k = 0 THEN s ELSE Step(f[k - 1])]
  OBVIOUS
<1> HIDE DEF G, Step
<1> DEFINE Upto(k) == \E f \in [0 .. k -> S] : f[0] = s /\ \A j \in 1 .. k : f[j] = Step(f[j - 1])
<1>4. Upto(0)
  <2> DEFINE f == [j \in 0 .. 0 |-> s]
  <2>1. f \in [0 .. 0 -> S] /\ f[0] = s
    OBVIOUS
  <2>2. \A j \in 1 .. 0 : FALSE
    OBVIOUS
  <2> HIDE DEF f
  <2> QED
    BY <2>1, <2>2
<1>5. ASSUME NEW k \in Nat, Upto(k) PROVE Upto(k + 1)
  <2>1. PICK f \in [0 .. k -> S] : f[0] = s /\ \A j \in 1 .. k : f[j] = Step(f[j - 1])
    BY <1>5
  <2> DEFINE g == [j \in 0 .. k + 1 |-> IF j = k + 1 THEN Step(f[k]) ELSE f[j]]
  <2>2. g \in [0 .. k + 1 -> S]
    BY <1>2, <2>1
  <2>3. g[0] = s /\ g[k + 1] = Step(g[k]) /\ \A j \in 0 .. k : g[j] = f[j]
    BY <2>1
  <2>4. ASSUME NEW j \in 1 .. k + 1 PROVE g[j] = Step(g[j - 1])
    <3>1. CASE j = k + 1
      BY <2>3, <3>1
    <3>2. CASE j # k + 1
      <4>1. j \in 1 .. k /\ j - 1 \in 0 .. k
        BY <3>2
      <4> QED
        BY <2>1, <2>3, <4>1
    <3> QED
      BY <3>1, <3>2
  <2> HIDE DEF g
  <2> QED
    BY <2>2, <2>3, <2>4
<1>6. Upto(n)
  <2> DEFINE J == {k \in Nat : ~ Upto(k)}
  <2>1. SUFFICES ASSUME J # {} PROVE FALSE
    BY <1>1
  <2>2. PICK k \in J : \A i \in J : k <= i
    <3>1. J \in SUBSET Nat
      OBVIOUS
    <3> HIDE DEF J
    <3> QED
      BY <2>1, <3>1, Smallest
  <2>3. k # 0 /\ k \in Nat
    BY <1>4
  <2> HIDE DEF Upto
  <2>4. k - 1 \in Nat /\ (k - 1) + 1 = k /\ ~ (k <= k - 1)
    BY <2>3
  <2>5. Upto(k - 1) /\ ~ Upto(k)
    BY <2>2, <2>4
  <2> QED
    BY <1>5, <2>4, <2>5
<1>7. G(meant)
  <2>1. PICK f \in [0 .. n -> S] : f[0] = s /\ \A j \in 1 .. n : f[j] = Step(f[j - 1])
    BY <1>6
  <2>2. ASSUME NEW k \in 0 .. n PROVE f[k] = IF k = 0 THEN s ELSE Step(f[k - 1])
    <3>1. k = 0 \/ k \in 1 .. n
      BY <1>1
    <3> QED
      BY <2>1, <3>1
  <2>3. f = [k \in 0 .. n |-> IF k = 0 THEN s ELSE Step(f[k - 1])]
    BY <2>1, <2>2
  <2>4. G(f)
    BY <1>3, <2>3
  <2> QED
    BY <2>4
<1> HIDE DEF meant
<1>8. \A k \in 0 .. n : meant[k] = IF k = 0 THEN s ELSE Step(meant[k - 1])
  <2>1. meant = [k \in 0 .. n |-> IF k = 0 THEN s ELSE Step(meant[k - 1])]
    BY <1>3, <1>7
  <2> QED
    BY <2>1
<1>9. \A k \in 0 .. n : meant[k] \in S
  <2> DEFINE J == {k \in 0 .. n : meant[k] \notin S}
  <2>1. SUFFICES ASSUME J # {} PROVE FALSE
    OBVIOUS
  <2>2. PICK k \in J : \A i \in J : k <= i
    <3>1. J \in SUBSET Nat
      OBVIOUS
    <3> HIDE DEF J
    <3> QED
      BY <2>1, <3>1, Smallest
  <2>3. k # 0
    BY <1>8
  <2>4. k - 1 \in 0 .. n /\ k - 1 \notin J
    BY <1>1, <2>2, <2>3
  <2> QED
    BY <1>2, <1>8, <2>3, <2>4
<1>10. MeantIn(h, b, s) = meant[n]
  BY DEF MeantIn, meant, G, n
<1>11. \A t : Step(t) = SymbolAfter(h, b, t)
  BY DEF Step, SymbolAfter
<1>12. n = Cardinality(S)
  BY DEF n
<1> QED
  <2>1. meant[0] = s /\ \A k \in 1 .. n : meant[k] = SymbolAfter(h, b, meant[k - 1])
    BY <1>1, <1>8, <1>11
  <2> QED
    BY <1>9, <1>10, <1>12, <2>1 DEF Meaning

(* Following symbols bound to symbols leads to a symbol. *)
LEMMA MeantIsSymbol ==
  ASSUME NEW h, NEW S, IsFiniteSet(S), NEW b, DOMAIN b = S, NEW s \in S,
         \A t \in S : b[t] # NULL /\ h[b[t]].type = "symbol" => h[b[t]].a \in S
  PROVE  MeantIn(h, b, s) \in S
<1>1. Cardinality(S) \in 0 .. Cardinality(S)
  BY FS_CardinalityType
<1> QED
  BY <1>1, MeantSteps DEF Meaning

(* It depends on nothing but where symbols lead. *)
LEMMA MeantSame ==
  ASSUME NEW h, NEW g, NEW S, IsFiniteSet(S), NEW b, DOMAIN b = S, NEW d, DOMAIN d = S, NEW s \in S,
         \A t \in S : b[t] # NULL /\ h[b[t]].type = "symbol" => h[b[t]].a \in S,
         \A t \in S : SymbolAfter(g, d, t) = SymbolAfter(h, b, t)
  PROVE  MeantIn(g, d, s) = MeantIn(h, b, s)
<1> DEFINE n == Cardinality(S)
<1>1. n \in Nat
  BY FS_CardinalityType
<1>2. \A t \in S : d[t] # NULL /\ g[d[t]].type = "symbol" => g[d[t]].a \in S
  BY DEF SymbolAfter
<1>3. PICK u : Meaning(h, b, s, S, u)
  BY MeantSteps
<1>4. PICK v : Meaning(g, d, s, S, v)
  BY <1>2, MeantSteps
<1>5. /\ u[0] = s /\ v[0] = s
      /\ \A k \in 1 .. n : u[k] = SymbolAfter(h, b, u[k - 1]) /\ v[k] = SymbolAfter(g, d, v[k - 1])
      /\ \A k \in 0 .. n : u[k] \in S
      /\ MeantIn(h, b, s) = u[n] /\ MeantIn(g, d, s) = v[n]
  BY <1>3, <1>4 DEF Meaning
<1> HIDE DEF n
<1>6. \A k \in 0 .. n : v[k] = u[k]
  <2> DEFINE J == {k \in 0 .. n : v[k] # u[k]}
  <2>1. SUFFICES ASSUME J # {} PROVE FALSE
    OBVIOUS
  <2>2. PICK k \in J : \A i \in J : k <= i
    <3>1. J \in SUBSET Nat
      BY <1>1
    <3> HIDE DEF J
    <3> QED
      BY <2>1, <3>1, Smallest
  <2>3. k # 0 /\ k \in 0 .. n
    BY <1>5
  <2>4. k \in 1 .. n /\ k - 1 \in 0 .. n /\ k - 1 \notin J
    BY <1>1, <2>2, <2>3
  <2>5. v[k - 1] = u[k - 1] /\ u[k - 1] \in S
    BY <1>5, <2>4
  <2>6. v[k] = u[k]
    BY <1>5, <2>4, <2>5
  <2> QED
    BY <2>2, <2>6
<1> QED
  BY <1>1, <1>5, <1>6

=============================================================================
