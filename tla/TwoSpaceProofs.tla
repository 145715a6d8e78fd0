--------------------------- MODULE TwoSpaceProofs ---------------------------
(***************************************************************************)
(* No pointer the program can use is stale, however often its chunks have  *)
(* been moved: proofs about TwoSpace.                                      *)
(*                                                                         *)
(* What is known of the machine between two operations (Sane, Knows) and   *)
(* while it waits for a chunk (Waits) is said of any heap h, locals l,     *)
(* registers r and bindings b.  During a collection it holds of those the  *)
(* collection began with; Copying says how those of the moment come from   *)
(* them, and in the end they are an image of them.                         *)
(***************************************************************************)
EXTENDS TwoSpace, ChunksProofs

(* Operations that come with a program may be literals of it. *)
Literal == [symbols |-> Symbol, literals |-> TRUE]

(* What sinavm_initialize and the literals of the program do *)
Boot == <<New("list", "cs", 0), New("list", "ds", 0)>> \o Setup

SetupFits == Certified(Literal, Setup, Context({}, <<>>, <<>>))

-----------------------------------------------------------------------------
(* The hypothesis of the theorems is met: by a program without literals,   *)
(* and by the one TLC runs (CodeBlockNumber of MCTwoSpace), which leaves   *)
(* { } on the code stack, and { } and a number on ds.                      *)
NoLiterals == <<>>

BlockAndNumber ==
  <<New("list", "l", 0), NewBlock("l", "code"), PushFront("cs", "code"),
    New("list", "l", 0), NewBlock("l", "b"), PushFront("ds", "b"),
    New("integer", "i", 0), PushFront("ds", "i")>>

LEMMA NoLiteralsFit == ASSUME Setup = NoLiterals PROVE SetupFits
<1> DEFINE c1 == Context({}, <<>>, <<>>)
<1>1. c1.regs = <<>>
  BY DEF Context
<1> HIDE DEF c1
<1>2. Certificate(Literal, <<>>, <<c1>>)
  BY <1>1 DEF Certificate
<1>3. <<>> \in Seq({0})
  OBVIOUS
<1> QED
  BY <1>2, <1>3 DEF Certified, SetupFits, c1, NoLiterals

LEMMA BlockAndNumberFits == ASSUME Setup = BlockAndNumber PROVE SetupFits
<1> DEFINE V == Literal
           c1 == Context({}, <<>>, <<>>)
           c2 == Context({<<"l", "list">>}, <<>>, <<>>)
           c3 == Context({<<"code", "block">>}, <<>>, <<>>)
           c4 == Context({}, <<>>, <<>>)
           c5 == Context({<<"l", "list">>}, <<>>, <<>>)
           c6 == Context({<<"b", "block">>}, <<>>, <<>>)
           c7 == Context({}, <<>>, <<>>)
           c8 == Context({<<"i", "integer">>}, <<>>, <<>>)
           c9 == Context({}, <<>>, <<>>)
<1>1. TypedNew(V, New("list", "l", 0), c1, c2)
  BY DEF TypedNew, New, Context, Forgets, Stacks, OwnLocal
<1>2. TypedNewBlock(V, NewBlock("l", "code"), c2, c3)
  BY DEF TypedNewBlock, NewBlock, Op, Context, Forgets, Stacks, OwnLocal, Literal
<1>3. TypedPush(PushFront("cs", "code"), c3, c4)
  BY DEF TypedPush, PushFront, Op, Names, Is, Context, Forgets, Stacks, OwnLocal
<1>4. TypedNew(V, New("list", "l", 0), c4, c5)
  BY DEF TypedNew, New, Context, Forgets, Stacks, OwnLocal
<1>5. TypedNewBlock(V, NewBlock("l", "b"), c5, c6)
  BY DEF TypedNewBlock, NewBlock, Op, Context, Forgets, Stacks, OwnLocal, Literal
<1>6. TypedPush(PushFront("ds", "b"), c6, c7)
  BY DEF TypedPush, PushFront, Op, Names, Is, Context, Forgets, Stacks, OwnLocal
<1>7. TypedNew(V, New("integer", "i", 0), c7, c8)
  BY DEF TypedNew, New, Context, Forgets, Stacks, OwnLocal
<1>8. TypedPush(PushFront("ds", "i"), c8, c9)
  BY DEF TypedPush, PushFront, Op, Names, Is, Context, Forgets, Stacks, OwnLocal
<1>9. c9.regs = <<>>
  BY DEF Context
<1> HIDE DEF V, c1, c2, c3, c4, c5, c6, c7, c8, c9
<1>10. Certificate(V, BlockAndNumber, <<c1, c2, c3, c4, c5, c6, c7, c8, c9>>)
  BY <1>1, <1>2, <1>3, <1>4, <1>5, <1>6, <1>7, <1>8, <1>9
  DEF Certificate, Typed, BlockAndNumber
<1>11. BlockAndNumber \in
         Seq({New("list", "l", 0), NewBlock("l", "code"), PushFront("cs", "code"),
              NewBlock("l", "b"), PushFront("ds", "b"), New("integer", "i", 0),
              PushFront("ds", "i")})
  BY DEF BlockAndNumber
<1> HIDE DEF BlockAndNumber
<1> QED
  BY <1>10, <1>11 DEF Certified, SetupFits, c1, V

-----------------------------------------------------------------------------
(* A heap in order.                                                        *)

Types == {"node", "list", "block", "integer", "symbol", "escaped"}

Refers == {"node", "list", "block"}

OrNull(S) == S \cup {NULL}

Record(c) == [type |-> c.type, a |-> c.a, b |-> c.b]

Nodes(h)     == {i \in DOMAIN h : h[i].type = "node"}
Lists(h)     == {i \in DOMAIN h : h[i].type = "list"}
Values(h, l) == {i \in DOMAIN h : h[i].type # "node" /\ i # l["ds"] /\ i # l["cs"]}

(* Chunks refer to chunks, of the types they should. *)
Words(h, l) ==
  /\ IsFiniteSet(DOMAIN h) /\ DOMAIN h \subseteq Nat
  /\ \A i \in DOMAIN h : h[i] = Record(h[i]) /\ h[i].type \in Types
  /\ \A i \in Nodes(h) : h[i].a \in Values(h, l) /\ h[i].b \in OrNull(Nodes(h))
  /\ \A i \in Lists(h) : h[i].a \in OrNull(Nodes(h)) /\ h[i].b \in OrNull(Nodes(h))
  /\ \A i \in DOMAIN h : h[i].type = "block" =>
        h[i].a \in Lists(h) \cap Values(h, l) /\ h[i].b \in OrNull(Nodes(h))
  /\ \A i \in DOMAIN h : h[i].type \in {"symbol", "escaped"} => h[i].a \in Symbol

(* So do the roots.  Nothing but a root refers to ds or cs. *)
Rooted(h, l, r, b) ==
  /\ Stacks \subseteq DOMAIN l
  /\ l["ds"] \in OrNull(Lists(h)) /\ l["cs"] \in OrNull(Lists(h))
  /\ l["ds"] = l["cs"] => l["ds"] = NULL
  /\ \A x \in DOMAIN l \ Stacks : l[x] \in Values(h, l)
  /\ b \in [Symbol -> OrNull(Values(h, l))]
  /\ r \in Seq(DOMAIN h)

(* The nodes of a list belong to it and lead to its last one; o tells the  *)
(* list a node belongs to.  Nodes that were popped belong to it too, until *)
(* the list is empty.                                                      *)
Owned(h, l, o) ==
  /\ \A n \in Nodes(h) : o[n] \in OrNull(Lists(h))
  /\ \A k \in Lists(h) : h[k].a = NULL <=> h[k].b = NULL
  /\ \A k \in Lists(h) : h[k].a # NULL => o[h[k].a] = k /\ o[h[k].b] = k /\ h[h[k].b].b = NULL
  /\ \A n \in Nodes(h) : o[n] # NULL /\ h[n].b = NULL => n = h[o[n]].b
  /\ \A n \in Nodes(h) : o[n] # NULL /\ h[n].b # NULL => o[h[n].b] = o[n]
  /\ \A n \in Nodes(h) : o[n] # NULL /\ o[n] = l["cs"] => h[h[n].a].type = "block"

(* A walk along a list comes to its last node: a set of nodes that holds   *)
(* the first one, and with each the next, holds the last one.              *)
Walked(h, S) == \A n \in S : h[n].b # NULL => h[n].b \in S

Ends(h, k) ==
  h[k].a # NULL => \A S \in SUBSET Nodes(h) : h[k].a \in S /\ Walked(h, S) => h[k].b \in S

AllEnd(h) == \A k \in Lists(h) : Ends(h, k)

Sane(h, l, r, b, o) == Words(h, l) /\ Rooted(h, l, r, b) /\ Owned(h, l, o) /\ AllEnd(h)

-----------------------------------------------------------------------------
(* What is known of a heap before the operations ops, in context c.        *)

Means(h, i, kind) == IF kind = "code" THEN h[i].type = "list" ELSE IsA(h, i, kind)

(* Every local has a name. *)
Named(c) == "" \notin Names(c)

KnowsLocals(h, l, c, ops) ==
  \A e \in c.loc :
    /\ e[1] \notin Stacks
    /\ e[1] \in StillUsed(ops) =>
         e[1] \in DOMAIN l /\ l[e[1]] \in Values(h, l) /\ Means(h, l[e[1]], e[2])

KnowsRegisters(h, l, r, c) ==
  /\ c.regs \in Seq(Kept)
  /\ \A k \in 1 .. Len(c.regs) : r[k] \in Values(h, l) /\ IsA(h, r[k], c.regs[k])

KnowsItem(h, item, kind) == item # NULL /\ IsA(h, h[item].a, kind)

KnowsItems(h, l, c) ==
  /\ c.top \in Seq(Kinds) /\ Len(c.top) \in 0 .. 3
  /\ Len(c.top) >= 1 => KnowsItem(h, h[l["ds"]].a, c.top[1])
  /\ Len(c.top) >= 2 => KnowsItem(h, h[h[l["ds"]].a].b, c.top[2])
  /\ Len(c.top) >= 3 => KnowsItem(h, h[h[h[l["ds"]].a].b].b, c.top[3])

KnowsBound(h, l, b, c) ==
  \A e \in c.bound : /\ e[1] \in Symbol /\ b[e[1]] \in Values(h, l)
                     /\ e[2] # "list+" /\ IsA(h, b[e[1]], e[2])

Knows(h, l, r, b, c, ops) ==
  /\ Certified(Literal, ops, c) /\ Named(c)
  /\ l["ds"] # NULL /\ l["cs"] # NULL
  /\ KnowsLocals(h, l, c, ops)
  /\ KnowsRegisters(h, l, r, c) /\ Len(r) = Len(c.regs)
  /\ KnowsItems(h, l, c) /\ KnowsBound(h, l, b, c)
  /\ c.code => h[l["cs"]].a # NULL

(* What the operation o, which allocates, has put into the registers above *)
(* the first n *)
Holds(h, l, r, n, o) ==
  /\ Len(r) = n + Len(Held(o))
  /\ o.op = "new_block" => r[n + 1] \in Lists(h) \cap Values(h, l)
  /\ o.op \in Pushes =>
       /\ r[n + 1] \in Lists(h) /\ r[n + 2] \in Values(h, l)
       /\ IF o.p \in Stacks THEN r[n + 1] = l[o.p] ELSE r[n + 1] \in Values(h, l)
       /\ o.p = "cs" => h[r[n + 2]].type = "block"

(* ... and while the first of them waits for its chunk.                    *)
Waits(h, l, r, c, ops) ==
  /\ ops # <<>> /\ Head(ops).op \in Allocates
  /\ Certified(Literal, ops, c) /\ Named(c)
  /\ DOMAIN l = Stacks /\ l["ds"] # NULL /\ l["cs"] # NULL
  /\ KnowsRegisters(h, l, r, c) /\ Holds(h, l, r, Len(c.regs), Head(ops))

(* There are no stacks yet, or just one. *)
Booting(l, r, ops) ==
  /\ DOMAIN l = Stacks /\ r = <<>> /\ l["ds"] = NULL
  /\ \/ ops = Boot /\ l["cs"] = NULL
     \/ ops = Tail(Boot) /\ l["cs"] # NULL

-----------------------------------------------------------------------------
(* An image of a heap in order is in order.                                *)

(* y is the copy of p, where src tells what a chunk is a copy of. *)
Copy(src, y, p) == IF p = NULL THEN y = NULL ELSE y \in DOMAIN src /\ src[y] = p

Injects(src, h) ==
  /\ src \in [DOMAIN src -> DOMAIN h]
  /\ \A x, y \in DOMAIN src : src[x] = src[y] => x = y

CopiedChunk(src, g, h, x) ==
  /\ g[x] = Record(g[x]) /\ g[x].type = h[src[x]].type
  /\ g[x].type \in Refers => Copy(src, g[x].a, h[src[x]].a) /\ Copy(src, g[x].b, h[src[x]].b)
  /\ g[x].type \notin Refers => g[x].a = h[src[x]].a

CopiedHeap(src, g, h) ==
  /\ DOMAIN g = DOMAIN src /\ IsFiniteSet(DOMAIN g) /\ DOMAIN g \subseteq Nat
  /\ \A x \in DOMAIN g : CopiedChunk(src, g, h, x)

CopiedRoots(src, m, s, d, l, r, b) ==
  /\ DOMAIN m = DOMAIN l /\ \A x \in DOMAIN l : Copy(src, m[x], l[x])
  /\ s \in Seq(DOMAIN src) /\ Len(s) = Len(r) /\ \A k \in 1 .. Len(r) : Copy(src, s[k], r[k])
  /\ d = [t \in Symbol |-> d[t]] /\ \A t \in Symbol : Copy(src, d[t], b[t])

(* The list a copy belongs to *)
Owners(src, o) ==
  [x \in DOMAIN src |-> IF \E y \in DOMAIN src : src[y] = o[src[x]]
                        THEN CHOOSE y \in DOMAIN src : src[y] = o[src[x]]
                        ELSE NULL]

LEMMA ImageTypes ==
  ASSUME NEW h, NEW l, NEW r, NEW b, NEW o, Sane(h, l, r, b, o),
         NEW src, NEW g, NEW m, NEW s, NEW d,
         Injects(src, h), CopiedHeap(src, g, h), CopiedRoots(src, m, s, d, l, r, b)
  PROVE  /\ \A y, p : Copy(src, y, p) => y = NULL <=> p = NULL
         /\ \A y, p : Copy(src, y, p) /\ p \in Values(h, l) => y \in Values(g, m) /\ y \in DOMAIN src /\ src[y] = p
         /\ \A y, p : Copy(src, y, p) /\ p \in Nodes(h) => y \in Nodes(g) /\ y \in DOMAIN src /\ src[y] = p
         /\ \A y, p : Copy(src, y, p) /\ p \in Lists(h) => y \in Lists(g) /\ y \in DOMAIN src /\ src[y] = p
         /\ NULL \notin DOMAIN g /\ NULL \notin DOMAIN h
<1>1. NULL \notin DOMAIN g /\ NULL \notin DOMAIN h
  BY DEF CopiedHeap, Sane, Words, NULL
<1>2. \A x \in DOMAIN src : x \in DOMAIN g /\ src[x] \in DOMAIN h /\ g[x].type = h[src[x]].type
  BY DEF CopiedHeap, CopiedChunk, Injects
<1>3. Copy(src, m["ds"], l["ds"]) /\ Copy(src, m["cs"], l["cs"])
  BY DEF CopiedRoots, Sane, Rooted, Stacks
<1>4. DOMAIN g = DOMAIN src
  BY DEF CopiedHeap
<1>5. \A y, p : Copy(src, y, p) => (y = NULL <=> p = NULL) /\ (p # NULL => y \in DOMAIN src /\ src[y] = p)
  BY <1>1, <1>4 DEF Copy
<1>6. \A y, p : Copy(src, y, p) /\ p \in Values(h, l) => y \in Values(g, m) /\ y \in DOMAIN src /\ src[y] = p
  <2> SUFFICES ASSUME NEW y, NEW p, Copy(src, y, p), p \in Values(h, l)
               PROVE  y \in Values(g, m) /\ y \in DOMAIN src /\ src[y] = p
    OBVIOUS
  <2>1. p \in DOMAIN h /\ p # NULL /\ h[p].type # "node" /\ p # l["ds"] /\ p # l["cs"]
    BY <1>1 DEF Values
  <2>2. y \in DOMAIN src /\ src[y] = p /\ g[y].type # "node" /\ y # NULL
    BY <2>1, <1>1, <1>2, <1>4, <1>5
  <2>3. y # m["ds"] /\ y # m["cs"]
    BY <1>3, <1>5, <2>1, <2>2
  <2> QED
    BY <2>2, <2>3, <1>4 DEF Values
<1>7. \A y, p : Copy(src, y, p) /\ p \in Nodes(h) => y \in Nodes(g) /\ y \in DOMAIN src /\ src[y] = p
  BY <1>1, <1>2, <1>4, <1>5 DEF Nodes
<1>8. \A y, p : Copy(src, y, p) /\ p \in Lists(h) => y \in Lists(g) /\ y \in DOMAIN src /\ src[y] = p
  BY <1>1, <1>2, <1>4, <1>5 DEF Lists
<1> QED
  BY <1>1, <1>5, <1>6, <1>7, <1>8

LEMMA ImageWords ==
  ASSUME NEW h, NEW l, NEW r, NEW b, NEW o, Sane(h, l, r, b, o),
         NEW src, NEW g, NEW m, NEW s, NEW d,
         Injects(src, h), CopiedHeap(src, g, h), CopiedRoots(src, m, s, d, l, r, b)
  PROVE  Words(g, m) /\ Rooted(g, m, s, d)
<1>1. /\ \A y, p : Copy(src, y, p) => y = NULL <=> p = NULL
      /\ \A y, p : Copy(src, y, p) /\ p \in Values(h, l) => y \in Values(g, m) /\ y \in DOMAIN src /\ src[y] = p
      /\ \A y, p : Copy(src, y, p) /\ p \in Nodes(h) => y \in Nodes(g) /\ y \in DOMAIN src /\ src[y] = p
      /\ \A y, p : Copy(src, y, p) /\ p \in Lists(h) => y \in Lists(g) /\ y \in DOMAIN src /\ src[y] = p
      /\ NULL \notin DOMAIN g /\ NULL \notin DOMAIN h
  BY ImageTypes
<1>2. ASSUME NEW x \in DOMAIN g
      PROVE  /\ src[x] \in DOMAIN h /\ g[x].type = h[src[x]].type /\ h[src[x]].type \in Types
             /\ g[x] = Record(g[x])
             /\ g[x].type \in Refers => Copy(src, g[x].a, h[src[x]].a) /\ Copy(src, g[x].b, h[src[x]].b)
             /\ g[x].type \notin Refers => g[x].a = h[src[x]].a
  BY DEF CopiedHeap, CopiedChunk, Injects, Sane, Words
<1>3. \A y, p : Copy(src, y, p) /\ p \in OrNull(Nodes(h)) => y \in OrNull(Nodes(g))
  BY <1>1 DEF OrNull
<1>4. ASSUME NEW x \in Nodes(g) PROVE g[x].a \in Values(g, m) /\ g[x].b \in OrNull(Nodes(g))
  <2>1. x \in DOMAIN g /\ src[x] \in Nodes(h) /\ g[x].type \in Refers
    BY <1>2 DEF Nodes, Refers
  <2>2. h[src[x]].a \in Values(h, l) /\ h[src[x]].b \in OrNull(Nodes(h))
    BY <2>1 DEF Sane, Words
  <2> QED
    BY <1>1, <1>2, <1>3, <2>1, <2>2
<1>5. ASSUME NEW x \in Lists(g) PROVE g[x].a \in OrNull(Nodes(g)) /\ g[x].b \in OrNull(Nodes(g))
  <2>1. x \in DOMAIN g /\ src[x] \in Lists(h) /\ g[x].type \in Refers
    BY <1>2 DEF Lists, Refers
  <2>2. h[src[x]].a \in OrNull(Nodes(h)) /\ h[src[x]].b \in OrNull(Nodes(h))
    BY <2>1 DEF Sane, Words
  <2> QED
    BY <1>1, <1>2, <1>3, <2>1, <2>2
<1>6. ASSUME NEW x \in DOMAIN g, g[x].type = "block"
      PROVE  g[x].a \in Lists(g) \cap Values(g, m) /\ g[x].b \in OrNull(Nodes(g))
  <2>1. src[x] \in DOMAIN h /\ h[src[x]].type = "block" /\ g[x].type \in Refers
    BY <1>2, <1>6 DEF Refers
  <2>2. h[src[x]].a \in Lists(h) \cap Values(h, l) /\ h[src[x]].b \in OrNull(Nodes(h))
    BY <2>1 DEF Sane, Words
  <2> QED
    BY <1>1, <1>2, <1>3, <2>1, <2>2
<1>7. ASSUME NEW x \in DOMAIN g, g[x].type \in {"symbol", "escaped"} PROVE g[x].a \in Symbol
  <2>1. src[x] \in DOMAIN h /\ h[src[x]].type \in {"symbol", "escaped"} /\ g[x].a = h[src[x]].a
    BY <1>2, <1>7 DEF Refers
  <2> QED
    BY <2>1 DEF Sane, Words
<1>8. Words(g, m)
  <2>1. IsFiniteSet(DOMAIN g) /\ DOMAIN g \subseteq Nat
    BY DEF CopiedHeap
  <2>2. \A x \in DOMAIN g : g[x] = Record(g[x]) /\ g[x].type \in Types
    BY <1>2
  <2> QED
    BY <1>4, <1>5, <1>6, <1>7, <2>1, <2>2 DEF Words
<1> USE DEF CopiedRoots
<1>9. Rooted(g, m, s, d)
  <2> USE DEF Rooted
  <2> DEFINE ds == m["ds"]
             cs == m["cs"]
  <2>1. Stacks \subseteq DOMAIN m /\ Copy(src, ds, l["ds"]) /\ Copy(src, cs, l["cs"])
    BY DEF Sane, Stacks
  <2>2. ds \in OrNull(Lists(g)) /\ cs \in OrNull(Lists(g))
    BY <1>1, <2>1 DEF Sane, OrNull
  <2>3. ds = cs => ds = NULL
    BY <1>1, <2>1 DEF Sane, Copy
  <2>4. \A x \in DOMAIN m \ Stacks : m[x] \in Values(g, m)
    BY <1>1 DEF Sane
  <2>5. d \in [Symbol -> OrNull(Values(g, m))]
    <3>1. \A t \in Symbol : d[t] \in OrNull(Values(g, m))
      BY <1>1 DEF Sane, OrNull
    <3> QED
      BY <3>1
  <2>6. s \in Seq(DOMAIN g)
    BY DEF CopiedHeap
  <2> QED
    BY <2>1, <2>2, <2>3, <2>4, <2>5, <2>6
<1> QED
  BY <1>8, <1>9

LEMMA ImageOwned ==
  ASSUME NEW h, NEW l, NEW r, NEW b, NEW o, Sane(h, l, r, b, o),
         NEW src, NEW g, NEW m, NEW s, NEW d,
         Injects(src, h), CopiedHeap(src, g, h), CopiedRoots(src, m, s, d, l, r, b)
  PROVE  Owned(g, m, Owners(src, o))
<1>1. /\ \A y, p : Copy(src, y, p) => y = NULL <=> p = NULL
      /\ \A y, p : Copy(src, y, p) /\ p \in Values(h, l) => y \in Values(g, m) /\ y \in DOMAIN src /\ src[y] = p
      /\ \A y, p : Copy(src, y, p) /\ p \in Nodes(h) => y \in Nodes(g) /\ y \in DOMAIN src /\ src[y] = p
      /\ \A y, p : Copy(src, y, p) /\ p \in Lists(h) => y \in Lists(g) /\ y \in DOMAIN src /\ src[y] = p
      /\ NULL \notin DOMAIN g /\ NULL \notin DOMAIN h
  BY ImageTypes
<1>2. \A x \in DOMAIN g : /\ x \in DOMAIN src /\ src[x] \in DOMAIN h /\ g[x].type = h[src[x]].type
                          /\ g[x].type \in Refers => Copy(src, g[x].a, h[src[x]].a) /\ Copy(src, g[x].b, h[src[x]].b)
  BY DEF CopiedHeap, CopiedChunk, Injects
<1>3. DOMAIN g = DOMAIN src /\ \A x, y \in DOMAIN src : src[x] = src[y] => x = y
  BY DEF CopiedHeap, Injects
<1> DEFINE q == Owners(src, o)
<1>4. ASSUME NEW n \in Nodes(g)
      PROVE  /\ n \in DOMAIN src /\ src[n] \in Nodes(h)
             /\ Copy(src, g[n].a, h[src[n]].a) /\ Copy(src, g[n].b, h[src[n]].b)
             /\ h[src[n]].a \in Values(h, l) /\ h[src[n]].b \in OrNull(Nodes(h))
             /\ o[src[n]] \in OrNull(Lists(h))
  BY <1>2 DEF Nodes, Refers, Sane, Words, Owned
<1>5. ASSUME NEW k \in Lists(g)
      PROVE  /\ k \in DOMAIN src /\ src[k] \in Lists(h)
             /\ Copy(src, g[k].a, h[src[k]].a) /\ Copy(src, g[k].b, h[src[k]].b)
             /\ h[src[k]].a \in OrNull(Nodes(h)) /\ h[src[k]].b \in OrNull(Nodes(h))
             /\ h[src[k]].a = NULL <=> h[src[k]].b = NULL
  BY <1>2 DEF Lists, Refers, Sane, Words, Owned
<1>6. ASSUME NEW n \in Nodes(g)
      PROVE  /\ q[n] \in OrNull(Lists(g))
             /\ q[n] # NULL => q[n] \in Lists(g) /\ src[q[n]] = o[src[n]] /\ o[src[n]] # NULL
             /\ \A k \in Lists(g) : src[k] = o[src[n]] => q[n] = k
  <2>1. n \in DOMAIN src /\ o[src[n]] \in OrNull(Lists(h))
    BY <1>4
  <2>2. CASE \E y \in DOMAIN src : src[y] = o[src[n]]
    <3>1. q[n] = CHOOSE y \in DOMAIN src : src[y] = o[src[n]]
      BY <2>1, <2>2 DEF Owners
    <3>2. q[n] \in DOMAIN src /\ src[q[n]] = o[src[n]]
      BY <2>2, <3>1
    <3>3. o[src[n]] # NULL /\ q[n] \in Lists(g)
      BY <1>1, <1>2, <1>3, <2>1, <3>2 DEF Lists, OrNull
    <3> QED
      BY <1>3, <3>2, <3>3 DEF OrNull, Lists
  <2>3. CASE ~ \E y \in DOMAIN src : src[y] = o[src[n]]
    BY <2>1, <2>3, <1>3 DEF Owners, OrNull, Lists
  <2> QED
    BY <2>2, <2>3
<1> HIDE DEF q
<1>7. \A k \in Lists(g) : g[k].a = NULL <=> g[k].b = NULL
  BY <1>1, <1>5
<1>8. ASSUME NEW k \in Lists(g), g[k].a # NULL
      PROVE  q[g[k].a] = k /\ q[g[k].b] = k /\ g[g[k].b].b = NULL
  <2> DEFINE first == g[k].a
             last  == g[k].b
  <2>1. h[src[k]].a # NULL /\ src[k] \in Lists(h) /\ h[src[k]].a \in Nodes(h) /\ h[src[k]].b \in Nodes(h)
    BY <1>1, <1>5, <1>8 DEF OrNull
  <2>2. o[h[src[k]].a] = src[k] /\ o[h[src[k]].b] = src[k] /\ h[h[src[k]].b].b = NULL
    BY <2>1 DEF Sane, Owned
  <2>3. first \in Nodes(g) /\ last \in Nodes(g) /\ src[first] = h[src[k]].a /\ src[last] = h[src[k]].b
    BY <1>1, <1>5, <2>1
  <2> HIDE DEF first, last
  <2>4. q[first] = k /\ q[last] = k
    BY <1>6, <2>2, <2>3
  <2>5. g[last].b = NULL
    BY <1>1, <1>4, <2>2, <2>3
  <2> QED
    BY <2>4, <2>5 DEF first, last
<1>9. ASSUME NEW n \in Nodes(g), q[n] # NULL
      PROVE  /\ g[n].b = NULL => n = g[q[n]].b
             /\ g[n].b # NULL => q[g[n].b] = q[n]
             /\ q[n] = m["cs"] => g[g[n].a].type = "block"
  <2> DEFINE k == q[n]
             p == src[n]
  <2>1. k \in Lists(g) /\ src[k] = o[p] /\ o[p] # NULL /\ p \in Nodes(h)
    BY <1>4, <1>6, <1>9
  <2>2. Copy(src, g[k].b, h[o[p]].b) /\ Copy(src, g[n].b, h[p].b) /\ Copy(src, g[n].a, h[p].a)
    BY <1>4, <1>5, <2>1
  <2> HIDE DEF k
  <2>3. ASSUME g[n].b = NULL PROVE n = g[k].b
    <3>1. h[p].b = NULL
      BY <1>1, <2>2, <2>3
    <3>2. p = h[o[p]].b
      BY <2>1, <3>1 DEF Sane, Owned
    <3>3. g[k].b \in DOMAIN src /\ src[g[k].b] = p
      BY <1>1, <2>1, <2>2, <3>2
    <3> QED
      BY <1>3, <1>4, <3>3
  <2>4. ASSUME g[n].b # NULL PROVE q[g[n].b] = k
    <3>1. h[p].b # NULL /\ h[p].b \in Nodes(h)
      BY <1>1, <1>4, <2>2, <2>4 DEF OrNull
    <3>2. o[h[p].b] = o[p]
      BY <2>1, <3>1 DEF Sane, Owned
    <3>3. g[n].b \in Nodes(g) /\ src[g[n].b] = h[p].b
      BY <1>1, <2>2, <3>1
    <3> QED
      BY <1>6, <2>1, <3>2, <3>3
  <2>5. ASSUME k = m["cs"] PROVE g[g[n].a].type = "block"
    <3>1. Copy(src, m["cs"], l["cs"]) /\ k # NULL
      BY <1>9, <2>1 DEF CopiedRoots, Sane, Rooted, Stacks, k
    <3>2. o[p] = l["cs"]
      BY <1>1, <2>1, <2>5, <3>1 DEF Copy
    <3>3. h[h[p].a].type = "block"
      BY <2>1, <3>2 DEF Sane, Owned
    <3>4. g[n].a \in DOMAIN g /\ src[g[n].a] = h[p].a
      BY <1>1, <1>3, <1>4, <2>2
    <3> QED
      BY <1>2, <3>3, <3>4
  <2> QED
    BY <2>3, <2>4, <2>5 DEF k
<1> QED
  BY <1>6, <1>7, <1>8, <1>9 DEF Owned, q

LEMMA ImageEnds ==
  ASSUME NEW h, NEW l, NEW r, NEW b, NEW o, Sane(h, l, r, b, o),
         NEW src, NEW g, NEW m, NEW s, NEW d,
         Injects(src, h), CopiedHeap(src, g, h), CopiedRoots(src, m, s, d, l, r, b)
  PROVE  AllEnd(g)
<1>1. /\ \A y, p : Copy(src, y, p) => y = NULL <=> p = NULL
      /\ \A y, p : Copy(src, y, p) /\ p \in Values(h, l) => y \in Values(g, m) /\ y \in DOMAIN src /\ src[y] = p
      /\ \A y, p : Copy(src, y, p) /\ p \in Nodes(h) => y \in Nodes(g) /\ y \in DOMAIN src /\ src[y] = p
      /\ \A y, p : Copy(src, y, p) /\ p \in Lists(h) => y \in Lists(g) /\ y \in DOMAIN src /\ src[y] = p
      /\ NULL \notin DOMAIN g /\ NULL \notin DOMAIN h
  BY ImageTypes
<1>2. \A x \in DOMAIN g : /\ x \in DOMAIN src /\ src[x] \in DOMAIN h /\ g[x].type = h[src[x]].type
                          /\ g[x].type \in Refers => Copy(src, g[x].a, h[src[x]].a) /\ Copy(src, g[x].b, h[src[x]].b)
  BY DEF CopiedHeap, CopiedChunk, Injects
<1>3. DOMAIN g = DOMAIN src /\ \A x, y \in DOMAIN src : src[x] = src[y] => x = y
  BY DEF CopiedHeap, Injects
<1> SUFFICES ASSUME NEW k \in Lists(g), g[k].a # NULL, NEW S \in SUBSET Nodes(g),
                    g[k].a \in S, Walked(g, S)
             PROVE  g[k].b \in S
  BY DEF AllEnd, Ends
<1> DEFINE T == {src[n] : n \in S}
           p == src[k]
<1>4. \A n \in S : /\ n \in DOMAIN src /\ src[n] \in Nodes(h) /\ Copy(src, g[n].b, h[src[n]].b)
                  /\ h[src[n]].b \in OrNull(Nodes(h))
  BY <1>2 DEF Nodes, Refers, Sane, Words
<1>5. /\ p \in Lists(h) /\ Copy(src, g[k].a, h[p].a) /\ Copy(src, g[k].b, h[p].b)
      /\ h[p].a \in OrNull(Nodes(h)) /\ h[p].b \in OrNull(Nodes(h))
      /\ h[p].a = NULL <=> h[p].b = NULL
      /\ Ends(h, p)
  <2>1. k \in DOMAIN g /\ p \in Lists(h) /\ g[k].type \in Refers
    BY <1>2 DEF Lists, Refers
  <2> QED
    BY <1>2, <2>1 DEF Sane, Words, Owned, AllEnd
<1> HIDE DEF p
<1>6. h[p].a # NULL /\ h[p].b # NULL /\ src[g[k].a] = h[p].a
  BY <1>1, <1>5 DEF OrNull
<1>7. T \in SUBSET Nodes(h) /\ h[p].a \in T
  BY <1>4, <1>6
<1>8. Walked(h, T)
  <2> SUFFICES ASSUME NEW n \in S, h[src[n]].b # NULL PROVE h[src[n]].b \in T
    BY DEF Walked
  <2>1. src[g[n].b] = h[src[n]].b /\ g[n].b # NULL
    BY <1>1, <1>4 DEF OrNull
  <2>2. g[n].b \in S
    BY <2>1 DEF Walked
  <2> QED
    BY <2>1, <2>2
<1>9. h[p].b \in T
  BY <1>5, <1>6, <1>7, <1>8 DEF Ends
<1>10. PICK n \in S : src[n] = h[p].b
  BY <1>9
<1>11. g[k].b \in DOMAIN src /\ src[g[k].b] = h[p].b
  BY <1>1, <1>5, <1>6 DEF OrNull
<1> QED
  BY <1>3, <1>4, <1>10, <1>11

LEMMA ImageSane ==
  ASSUME NEW h, NEW l, NEW r, NEW b, NEW o, Sane(h, l, r, b, o),
         NEW src, NEW g, NEW m, NEW s, NEW d,
         Injects(src, h), CopiedHeap(src, g, h), CopiedRoots(src, m, s, d, l, r, b)
  PROVE  Sane(g, m, s, d, Owners(src, o))
BY ImageWords, ImageOwned, ImageEnds DEF Sane

LEMMA HeldLength ==
  ASSUME NEW o
  PROVE  /\ o.op = "new" => Held(o) = <<>> /\ Len(Held(o)) = 0
         /\ o.op = "new_block" => Held(o) = <<o.p>> /\ Len(Held(o)) = 1
         /\ o.op \in Pushes => Held(o) = <<o.p, o.x>> /\ Len(Held(o)) = 2
         /\ o.op \in Allocates <=> o.op \in {"new", "new_block"} \cup Pushes
BY DEF Held, Pushes, Allocates

(* What the machine waits with is known of the image too. *)
LEMMA ImageWaits ==
  ASSUME NEW h, NEW l, NEW r, NEW b, NEW o, Sane(h, l, r, b, o),
         NEW src, NEW g, NEW m, NEW s, NEW d,
         Injects(src, h), CopiedHeap(src, g, h), CopiedRoots(src, m, s, d, l, r, b),
         NEW c, NEW ops, Waits(h, l, r, c, ops)
  PROVE  Waits(g, m, s, c, ops)
<1>1. /\ \A y, p : Copy(src, y, p) => y = NULL <=> p = NULL
      /\ \A y, p : Copy(src, y, p) /\ p \in Values(h, l) => y \in Values(g, m) /\ y \in DOMAIN src /\ src[y] = p
      /\ \A y, p : Copy(src, y, p) /\ p \in Nodes(h) => y \in Nodes(g) /\ y \in DOMAIN src /\ src[y] = p
      /\ \A y, p : Copy(src, y, p) /\ p \in Lists(h) => y \in Lists(g) /\ y \in DOMAIN src /\ src[y] = p
      /\ NULL \notin DOMAIN g /\ NULL \notin DOMAIN h
  BY ImageTypes
<1>2. \A x \in DOMAIN src : g[x].type = h[src[x]].type
  BY DEF CopiedHeap, CopiedChunk
<1>3. /\ DOMAIN m = DOMAIN l /\ Stacks \subseteq DOMAIN l /\ \A x \in Stacks : Copy(src, m[x], l[x])
      /\ Len(s) = Len(r) /\ \A k \in 1 .. Len(r) : Copy(src, s[k], r[k])
  BY DEF CopiedRoots, Sane, Rooted
<1>4. m["ds"] # NULL /\ m["cs"] # NULL
  BY <1>1, <1>3 DEF Waits, Stacks
<1> DEFINE n == Len(c.regs)
           op == Head(ops)
<1>5. /\ n \in Nat /\ op.op \in Allocates /\ n <= Len(r) /\ Len(r) \in Nat
      /\ op.op = "new_block" => Len(r) = n + 1
      /\ op.op \in Pushes => Len(r) = n + 2
      /\ Len(r) = n + Len(Held(op))
  <2>1. c.regs \in Seq(Kept) /\ Len(r) = n + Len(Held(op)) /\ op.op \in Allocates /\ r \in Seq(DOMAIN h)
    BY DEF Waits, KnowsRegisters, Holds, Sane, Rooted
  <2>2. n \in Nat /\ Len(r) \in Nat
    BY <2>1
  <2> DEFINE len == Len(Held(op))
  <2> HIDE DEF n, op
  <2>3. /\ op.op = "new" => len = 0
        /\ op.op = "new_block" => len = 1
        /\ op.op \in Pushes => len = 2
        /\ op.op \in {"new", "new_block"} \cup Pushes
    BY <2>1, HeldLength
  <2>4. Len(r) = n + len /\ len \in Nat
    BY <2>1, <2>3
  <2> HIDE DEF len
  <2>5. n <= Len(r) /\ (op.op = "new_block" => Len(r) = n + 1) /\ (op.op \in Pushes => Len(r) = n + 2)
    BY <2>2, <2>3, <2>4
  <2> QED
    BY <2>1, <2>2, <2>5
<1>6. KnowsRegisters(g, m, s, c)
  <2>0. c.regs \in Seq(Kept) /\ \A k \in 1 .. n : r[k] \in Values(h, l) /\ IsA(h, r[k], c.regs[k])
    BY DEF Waits, KnowsRegisters
  <2> SUFFICES ASSUME NEW k \in 1 .. n PROVE s[k] \in Values(g, m) /\ IsA(g, s[k], c.regs[k])
    BY <2>0 DEF KnowsRegisters
  <2>1. c.regs[k] \in Kept
    BY <2>0
  <2> HIDE DEF n, op
  <2>2. k \in 1 .. Len(r) /\ r[k] \in Values(h, l) /\ IsA(h, r[k], c.regs[k])
    BY <1>5, <2>0
  <2>3. Copy(src, s[k], r[k])
    BY <1>3, <2>2
  <2>4. s[k] \in Values(g, m) /\ g[s[k]].type = h[r[k]].type
    BY <1>1, <1>2, <2>2, <2>3
  <2>5. IsA(g, s[k], c.regs[k])
    BY <2>1, <2>2, <2>4 DEF IsA, Kept
  <2> QED
    BY <2>4, <2>5
<1> HIDE DEF n, op
<1>7. Holds(g, m, s, n, op)
  <2>1. Holds(h, l, r, n, op)
    BY DEF Waits, n, op
  <2>2. ASSUME op.op = "new_block" PROVE s[n + 1] \in Lists(g) \cap Values(g, m)
    <3>1. n + 1 \in 1 .. Len(r) /\ r[n + 1] \in Lists(h) \cap Values(h, l)
      BY <1>5, <2>1, <2>2 DEF Holds
    <3> QED
      BY <1>1, <1>3, <3>1
  <2>3. ASSUME op.op \in Pushes
        PROVE  /\ s[n + 1] \in Lists(g) /\ s[n + 2] \in Values(g, m)
               /\ IF op.p \in Stacks THEN s[n + 1] = m[op.p] ELSE s[n + 1] \in Values(g, m)
               /\ op.p = "cs" => g[s[n + 2]].type = "block"
    <3>1. n + 1 \in 1 .. Len(r) /\ n + 2 \in 1 .. Len(r)
      BY <1>5, <2>3
    <3>2. /\ r[n + 1] \in Lists(h) /\ r[n + 2] \in Values(h, l)
          /\ IF op.p \in Stacks THEN r[n + 1] = l[op.p] ELSE r[n + 1] \in Values(h, l)
          /\ op.p = "cs" => h[r[n + 2]].type = "block"
      BY <2>1, <2>3 DEF Holds
    <3>3. Copy(src, s[n + 1], r[n + 1]) /\ Copy(src, s[n + 2], r[n + 2])
      BY <1>3, <3>1
    <3>4. s[n + 1] \in Lists(g) /\ s[n + 1] \in DOMAIN src /\ src[s[n + 1]] = r[n + 1] /\ s[n + 2] \in Values(g, m)
          /\ s[n + 2] \in DOMAIN src /\ src[s[n + 2]] = r[n + 2]
      BY <1>1, <3>2, <3>3
    <3>5. op.p \in Stacks => s[n + 1] = m[op.p]
      <4>1. SUFFICES ASSUME op.p \in Stacks PROVE s[n + 1] = m[op.p]
        OBVIOUS
      <4>2. Copy(src, m[op.p], r[n + 1]) /\ r[n + 1] # NULL
        BY <1>1, <1>3, <3>2, <4>1 DEF Lists
      <4>3. m[op.p] \in DOMAIN src /\ src[m[op.p]] = r[n + 1]
        BY <4>2 DEF Copy
      <4> QED
        BY <3>4, <4>3 DEF Injects
    <3>6. op.p \notin Stacks => s[n + 1] \in Values(g, m)
      BY <1>1, <3>2, <3>3
    <3> QED
      BY <1>2, <3>2, <3>4, <3>5, <3>6
  <2>4. Len(s) = n + Len(Held(op))
    BY <1>3, <1>5
  <2> QED
    BY <2>2, <2>3, <2>4 DEF Holds
<1> QED
  BY <1>3, <1>4, <1>6, <1>7 DEF Waits, n, op

LEMMA ImageBooting ==
  ASSUME NEW h, NEW l, NEW r, NEW b, NEW o, Sane(h, l, r, b, o),
         NEW src, NEW g, NEW m, NEW s, NEW d,
         Injects(src, h), CopiedHeap(src, g, h), CopiedRoots(src, m, s, d, l, r, b),
         NEW ops, Booting(l, r, ops)
  PROVE  Booting(m, s, ops)
<1>1. \A y, p : Copy(src, y, p) => y = NULL <=> p = NULL
  BY ImageTypes
<1>2. DOMAIN m = DOMAIN l /\ Copy(src, m["ds"], l["ds"]) /\ Copy(src, m["cs"], l["cs"])
  BY DEF CopiedRoots, Sane, Rooted, Stacks
<1>3. s = <<>>
  <2>1. s \in Seq(DOMAIN src) /\ Len(s) = 0
    BY DEF CopiedRoots, Booting
  <2> QED
    BY <2>1
<1> QED
  BY <1>1, <1>2, <1>3 DEF Booting

-----------------------------------------------------------------------------
(* Unreachable chunks are dropped.                                         *)

(* Chunks refer to chunks. *)
LEMMA SaneCloses ==
  ASSUME NEW h, NEW l, NEW r, NEW b, NEW o, Sane(h, l, r, b, o)
  PROVE  NoDangling(Successions(h)) /\ \A i \in DOMAIN h : Range(SuccessorsIn(h, i)) \subseteq OrNull(DOMAIN h)
<1>1. ASSUME NEW i \in DOMAIN h PROVE Range(SuccessorsIn(h, i)) \subseteq OrNull(DOMAIN h)
  <2>1. h[i].type \in Refers => h[i].a \in OrNull(DOMAIN h) /\ h[i].b \in OrNull(DOMAIN h)
    BY DEF Sane, Words, Refers, OrNull, Nodes, Lists, Values
  <2>2. h[i].type \in {"list", "block"} => SuccessorsIn(h, i) = <<h[i].a, h[i].b>>
    BY DEF SuccessorsIn
  <2>3. h[i].type = "node" => SuccessorsIn(h, i) = <<h[i].b, h[i].a>>
    BY DEF SuccessorsIn
  <2>4. h[i].type \notin Refers => SuccessorsIn(h, i) = <<>>
    BY DEF SuccessorsIn, Refers
  <2>5. CASE h[i].type \in Refers
    <3> DEFINE x == h[i].a
               y == h[i].b
    <3>1. x \in OrNull(DOMAIN h) /\ y \in OrNull(DOMAIN h)
      BY <2>1, <2>5
    <3>2. SuccessorsIn(h, i) = <<x, y>> \/ SuccessorsIn(h, i) = <<y, x>>
      BY <2>2, <2>3, <2>5 DEF Refers
    <3> HIDE DEF x, y
    <3>3. Range(<<x, y>>) \subseteq {x, y} /\ Range(<<y, x>>) \subseteq {x, y}
      BY DEF Range
    <3> QED
      BY <3>1, <3>2, <3>3
  <2>6. CASE h[i].type \notin Refers
    BY <2>4, <2>6 DEF Range
  <2> QED
    BY <2>5, <2>6
<1>2. NULL \notin DOMAIN h
  BY DEF Sane, Words, NULL
<1> QED
  BY <1>1, <1>2 DEF NoDangling, Successions, Closed, OrNull

(* The part of h the roots reach *)
Part(g, h, l, r, b) ==
  /\ DOMAIN g \subseteq DOMAIN h /\ \A i \in DOMAIN g : g[i] = h[i]
  /\ \A x \in DOMAIN l : l[x] \in OrNull(DOMAIN g)
  /\ \A k \in 1 .. Len(r) : r[k] \in DOMAIN g
  /\ \A t \in Symbol : b[t] \in OrNull(DOMAIN g)
  /\ \A i \in DOMAIN g : Range(SuccessorsIn(h, i)) \subseteq OrNull(DOMAIN g)
  /\ IsFiniteSet(DOMAIN g)

LEMMA ReachablePart ==
  ASSUME NEW h, NEW l, NEW r, NEW b, NEW o, Sane(h, l, r, b, o),
         NEW g, g = Reachable(h, l, r, b)
  PROVE  Part(g, h, l, r, b)
<1> DEFINE from == Range(l) \cup Range(r) \cup Range(b)
<1>1. from \in SUBSET OrNull(DOMAIN h)
  <2>1. \A x \in DOMAIN l : l[x] \in OrNull(DOMAIN h)
    BY DEF Sane, Rooted, Stacks, OrNull, Lists, Values
  <2>2. \A x \in DOMAIN b : b[x] \in OrNull(DOMAIN h)
    BY DEF Sane, Rooted, OrNull, Values
  <2>3. \A x \in DOMAIN r : r[x] \in OrNull(DOMAIN h)
    BY DEF Sane, Rooted, OrNull
  <2> QED
    BY <2>1, <2>2, <2>3 DEF Range
<1>2. \A x \in DOMAIN l : l[x] \in from
  BY DEF Range
<1>3. \A t \in Symbol : b[t] \in from
  BY DEF Range, Sane, Rooted
<1>4. \A k \in 1 .. Len(r) : r[k] \in from /\ r[k] \in DOMAIN h
  BY DEF Range, Sane, Rooted
<1> HIDE DEF from
<1>5. IsFiniteSet(DOMAIN h) /\ NULL \notin DOMAIN h
  BY DEF Sane, Words, NULL
<1> DEFINE S == ReachIn(h, from)
<1>6. S \subseteq DOMAIN h /\ from \ {NULL} \subseteq S /\ Closed(Successions(h), S)
  BY <1>1, <1>5, SaneCloses, ReachIsLeast DEF OrNull
<1>7. g = [i \in S |-> h[i]]
  BY DEF Reachable, from
<1> HIDE DEF S
<1>8. DOMAIN g = S /\ \A i \in DOMAIN g : g[i] = h[i]
  BY <1>7
<1>9. IsFiniteSet(DOMAIN g)
  BY <1>5, <1>6, <1>8, FS_Subset
<1>10. \A i \in DOMAIN g : Range(SuccessorsIn(h, i)) \subseteq OrNull(DOMAIN g)
  BY <1>6, <1>8 DEF Closed, Successions, OrNull
<1> QED
  BY <1>2, <1>3, <1>4, <1>5, <1>6, <1>8, <1>9, <1>10 DEF Part, OrNull

LEMMA PartFacts ==
  ASSUME NEW h, NEW l, NEW r, NEW b, NEW o, Sane(h, l, r, b, o), NEW g, Part(g, h, l, r, b)
  PROVE  /\ NULL \notin DOMAIN g /\ DOMAIN g \subseteq DOMAIN h /\ \A i \in DOMAIN g : g[i] = h[i]
         /\ \A i \in DOMAIN g : g[i].type \in Refers => g[i].a \in OrNull(DOMAIN g) /\ g[i].b \in OrNull(DOMAIN g)
<1>1. NULL \notin DOMAIN g /\ DOMAIN g \subseteq DOMAIN h /\ \A i \in DOMAIN g : g[i] = h[i]
  BY DEF Part, Sane, Words, NULL
<1>2. ASSUME NEW i \in DOMAIN g, g[i].type \in Refers
      PROVE  g[i].a \in OrNull(DOMAIN g) /\ g[i].b \in OrNull(DOMAIN g)
  <2> DEFINE x == h[i].a
             y == h[i].b
  <2>1. SuccessorsIn(h, i) = <<x, y>> \/ SuccessorsIn(h, i) = <<y, x>>
    BY <1>1, <1>2 DEF SuccessorsIn, Refers
  <2>2. Range(SuccessorsIn(h, i)) \subseteq OrNull(DOMAIN g)
    BY DEF Part
  <2>3. x = g[i].a /\ y = g[i].b
    BY <1>1
  <2> HIDE DEF x, y
  <2>4. x \in Range(<<x, y>>) /\ y \in Range(<<x, y>>) /\ x \in Range(<<y, x>>) /\ y \in Range(<<y, x>>)
    <3>1. 1 \in DOMAIN <<x, y>> /\ 2 \in DOMAIN <<x, y>> /\ 1 \in DOMAIN <<y, x>> /\ 2 \in DOMAIN <<y, x>>
      OBVIOUS
    <3>2. <<x, y>>[1] = x /\ <<x, y>>[2] = y /\ <<y, x>>[1] = y /\ <<y, x>>[2] = x
      OBVIOUS
    <3> QED
      BY <3>1, <3>2 DEF Range
  <2> QED
    BY <2>1, <2>2, <2>3, <2>4
<1> QED
  BY <1>1, <1>2

LEMMA PartSane ==
  ASSUME NEW h, NEW l, NEW r, NEW b, NEW o, Sane(h, l, r, b, o), NEW g, Part(g, h, l, r, b)
  PROVE  \E q : Sane(g, l, r, b, q)
<1> DEFINE src == [i \in DOMAIN g |-> i]
<1>1. /\ NULL \notin DOMAIN g /\ DOMAIN g \subseteq DOMAIN h /\ \A i \in DOMAIN g : g[i] = h[i]
      /\ \A i \in DOMAIN g : g[i].type \in Refers => g[i].a \in OrNull(DOMAIN g) /\ g[i].b \in OrNull(DOMAIN g)
  BY PartFacts
<1>2. DOMAIN src = DOMAIN g /\ \A i \in DOMAIN g : src[i] = i
  OBVIOUS
<1>3. Injects(src, h)
  BY <1>1 DEF Injects
<1> HIDE DEF src
<1>4. \A y \in OrNull(DOMAIN g) : Copy(src, y, y)
  BY <1>2 DEF Copy, OrNull
<1>5. CopiedHeap(src, g, h)
  <2>1. IsFiniteSet(DOMAIN g) /\ DOMAIN g \subseteq Nat
    BY <1>1 DEF Part, Sane, Words
  <2>2. ASSUME NEW x \in DOMAIN g PROVE CopiedChunk(src, g, h, x)
    <3>1. x \in DOMAIN h /\ g[x] = h[x] /\ src[x] = x /\ h[x] = Record(h[x])
      BY <1>1, <1>2 DEF Sane, Words
    <3> QED
      BY <1>1, <1>4, <3>1 DEF CopiedChunk
  <2> QED
    BY <1>2, <2>1, <2>2 DEF CopiedHeap
<1>6. CopiedRoots(src, l, r, b, l, r, b)
  <2>1. r \in Seq(DOMAIN g)
    <3>1. r \in Seq(DOMAIN h) /\ \A k \in 1 .. Len(r) : r[k] \in DOMAIN g
      BY DEF Sane, Rooted, Part
    <3> QED
      BY <3>1
  <2>2. \A k \in 1 .. Len(r) : Copy(src, r[k], r[k])
    BY <1>4 DEF Part, OrNull
  <2>3. b = [t \in Symbol |-> b[t]]
    BY DEF Sane, Rooted
  <2> QED
    BY <1>2, <1>4, <2>1, <2>2, <2>3 DEF CopiedRoots, Part
<1> QED
  BY <1>3, <1>5, <1>6, ImageSane

LEMMA PartMeans ==
  ASSUME NEW g, NEW h, NEW i, g[i] = h[i], NEW kind, Means(h, i, kind)
  PROVE  Means(g, i, kind)
BY DEF Means, IsA, EmptyIn

LEMMA PartKnows ==
  ASSUME NEW h, NEW l, NEW r, NEW b, NEW o, Sane(h, l, r, b, o), NEW g, Part(g, h, l, r, b),
         NEW c, NEW ops, Knows(h, l, r, b, c, ops)
  PROVE  Knows(g, l, r, b, c, ops)
<1>1. /\ NULL \notin DOMAIN g /\ DOMAIN g \subseteq DOMAIN h /\ \A i \in DOMAIN g : g[i] = h[i]
      /\ \A i \in DOMAIN g : g[i].type \in Refers => g[i].a \in OrNull(DOMAIN g) /\ g[i].b \in OrNull(DOMAIN g)
  BY PartFacts
<1>2. \A i : i \in Values(h, l) /\ i \in OrNull(DOMAIN g) => i \in Values(g, l) /\ g[i] = h[i]
  <2>1. NULL \notin Values(h, l)
    BY DEF Values, Sane, Words, NULL
  <2> QED
    BY <1>1, <2>1 DEF Values, OrNull
<1>3. ASSUME NEW i, g[i] = h[i], NEW kind PROVE IsA(g, i, kind) = IsA(h, i, kind)
  BY <1>3 DEF IsA, EmptyIn
<1>4. KnowsLocals(g, l, c, ops)
  <2>1. KnowsLocals(h, l, c, ops)
    BY DEF Knows
  <2>2. ASSUME NEW e \in c.loc, e[1] \in StillUsed(ops)
        PROVE  e[1] \in DOMAIN l /\ l[e[1]] \in Values(g, l) /\ Means(g, l[e[1]], e[2])
    <3>1. e[1] \in DOMAIN l /\ l[e[1]] \in Values(h, l) /\ Means(h, l[e[1]], e[2])
      BY <2>1, <2>2 DEF KnowsLocals
    <3>2. l[e[1]] \in OrNull(DOMAIN g)
      BY <3>1 DEF Part
    <3>3. l[e[1]] \in Values(g, l) /\ g[l[e[1]]] = h[l[e[1]]]
      BY <1>2, <3>1, <3>2
    <3> QED
      BY <3>1, <3>3, PartMeans
  <2> QED
    BY <2>1, <2>2 DEF KnowsLocals
<1>5. KnowsRegisters(g, l, r, c)
  <2>1. KnowsRegisters(h, l, r, c) /\ Len(r) = Len(c.regs)
    BY DEF Knows
  <2>2. ASSUME NEW k \in 1 .. Len(c.regs) PROVE r[k] \in Values(g, l) /\ IsA(g, r[k], c.regs[k])
    <3>1. r[k] \in Values(h, l) /\ IsA(h, r[k], c.regs[k]) /\ r[k] \in OrNull(DOMAIN g)
      BY <2>1 DEF KnowsRegisters, Part, OrNull
    <3>2. r[k] \in Values(g, l) /\ g[r[k]] = h[r[k]]
      BY <1>2, <3>1
    <3> QED
      BY <1>3, <3>1, <3>2
  <2> QED
    BY <2>1, <2>2 DEF KnowsRegisters
<1>6. KnowsBound(g, l, b, c)
  <2>1. KnowsBound(h, l, b, c)
    BY DEF Knows
  <2>2. ASSUME NEW e \in c.bound PROVE /\ e[1] \in Symbol /\ b[e[1]] \in Values(g, l)
                                       /\ e[2] # "list+" /\ IsA(g, b[e[1]], e[2])
    <3>1. /\ e[1] \in Symbol /\ b[e[1]] \in Values(h, l) /\ b[e[1]] \in OrNull(DOMAIN g)
          /\ e[2] # "list+" /\ IsA(h, b[e[1]], e[2])
      BY <2>1 DEF KnowsBound, Part
    <3>2. b[e[1]] \in Values(g, l) /\ g[b[e[1]]] = h[b[e[1]]]
      BY <1>2, <3>1
    <3> QED
      BY <1>3, <3>1, <3>2
  <2> QED
    BY <2>2 DEF KnowsBound
<1> DEFINE ds == l["ds"]
           cs == l["cs"]
<1>7. /\ ds \in DOMAIN g /\ g[ds] = h[ds] /\ h[ds].type = "list"
      /\ cs \in DOMAIN g /\ g[cs] = h[cs]
  <2>1. ds \in OrNull(DOMAIN g) /\ ds # NULL /\ ds \in OrNull(Lists(h)) /\ cs \in OrNull(DOMAIN g) /\ cs # NULL
    BY DEF Part, Knows, Sane, Rooted, Stacks
  <2> QED
    BY <1>1, <2>1 DEF OrNull, Lists
<1>8. ASSUME NEW item \in OrNull(DOMAIN g), item # NULL, item \in OrNull(Nodes(h))
      PROVE  /\ g[item] = h[item] /\ g[item].a \in OrNull(DOMAIN g) /\ g[item].b \in OrNull(DOMAIN g)
             /\ g[item].b \in OrNull(Nodes(h))
             /\ \A kind : KnowsItem(h, item, kind) => KnowsItem(g, item, kind)
  <2>1. item \in DOMAIN g /\ item \in Nodes(h)
    BY <1>8 DEF OrNull
  <2>2. g[item] = h[item] /\ g[item].type \in Refers /\ h[item].a \in Values(h, l) /\ h[item].b \in OrNull(Nodes(h))
    BY <1>1, <2>1 DEF Nodes, Refers, Sane, Words
  <2>3. g[item].a \in OrNull(DOMAIN g) /\ g[item].b \in OrNull(DOMAIN g)
    BY <1>1, <2>1, <2>2
  <2>4. g[h[item].a] = h[h[item].a]
    BY <1>2, <2>2, <2>3
  <2> QED
    BY <1>3, <2>2, <2>3, <2>4 DEF KnowsItem
<1>9. KnowsItems(g, l, c)
  <2> DEFINE item1 == h[ds].a
             item2 == h[item1].b
             item3 == h[item2].b
  <2>1. KnowsItems(h, l, c)
    BY DEF Knows
  <2>2. c.top \in Seq(Kinds) /\ Len(c.top) \in 0 .. 3
    BY <2>1 DEF KnowsItems
  <2>3. item1 \in OrNull(Nodes(h)) /\ item1 \in OrNull(DOMAIN g) /\ g[ds].a = item1
    BY <1>1, <1>7 DEF Lists, Refers, Sane, Words
  <2>4. /\ Len(c.top) >= 1 => KnowsItem(h, item1, c.top[1])
        /\ Len(c.top) >= 2 => KnowsItem(h, item2, c.top[2])
        /\ Len(c.top) >= 3 => KnowsItem(h, item3, c.top[3])
    BY <2>1 DEF KnowsItems
  <2> HIDE DEF item1
  <2>5. Len(c.top) >= 1 => KnowsItem(g, item1, c.top[1]) /\ g[item1].b = item2 /\ item2 \in OrNull(DOMAIN g)
                           /\ item2 \in OrNull(Nodes(h))
    BY <1>8, <2>3, <2>4 DEF KnowsItem
  <2> HIDE DEF item2
  <2>6. Len(c.top) >= 2 => KnowsItem(g, item2, c.top[2]) /\ g[item2].b = item3 /\ item3 \in OrNull(DOMAIN g)
                           /\ item3 \in OrNull(Nodes(h))
    BY <1>8, <2>2, <2>4, <2>5 DEF KnowsItem
  <2> HIDE DEF item3
  <2>7. Len(c.top) >= 3 => KnowsItem(g, item3, c.top[3])
    BY <1>8, <2>2, <2>4, <2>6 DEF KnowsItem
  <2>8. Len(c.top) >= 2 => Len(c.top) >= 1
    BY <2>2
  <2>9. Len(c.top) >= 3 => Len(c.top) >= 2
    BY <2>2
  <2> QED
    BY <2>2, <2>3, <2>5, <2>6, <2>7, <2>8, <2>9 DEF KnowsItems
<1>10. c.code => g[cs].a # NULL
  BY <1>7 DEF Knows
<1> QED
  BY <1>4, <1>5, <1>6, <1>9, <1>10 DEF Knows

-----------------------------------------------------------------------------
(* An operation is over.                                                   *)

Ready(o, c) ==
  Sane(heap, loc, registers, bindings, o) /\ Knows(heap, loc, registers, bindings, c, todo)

(* Locals nothing reads any more do not matter. *)
LEMMA LocalsFewer ==
  ASSUME NEW h, NEW l, NEW r, NEW b, NEW o, Sane(h, l, r, b, o), NEW ops, NEW m, m = Locals(l, ops)
  PROVE  /\ Sane(h, m, r, b, o)
         /\ \A c : Knows(h, l, r, b, c, ops) => Knows(h, m, r, b, c, ops)
<1>1. /\ DOMAIN m = DOMAIN l \cap (Stacks \cup StillUsed(ops)) /\ \A x \in DOMAIN m : m[x] = l[x]
      /\ Stacks \subseteq DOMAIN l
  BY DEF Locals, Stacks, Sane, Rooted
<1>2. m["ds"] = l["ds"] /\ m["cs"] = l["cs"] /\ Stacks \subseteq DOMAIN m
  BY <1>1 DEF Stacks
<1>3. Values(h, m) = Values(h, l)
  BY <1>2 DEF Values
<1>4. Sane(h, m, r, b, o)
  BY <1>1, <1>2, <1>3 DEF Sane, Words, Rooted, Owned
<1>5. ASSUME NEW c, Knows(h, l, r, b, c, ops) PROVE Knows(h, m, r, b, c, ops)
  <2>1. KnowsLocals(h, m, c, ops)
    BY <1>1, <1>3, <1>5 DEF Knows, KnowsLocals
  <2>2. KnowsRegisters(h, m, r, c) /\ KnowsItems(h, m, c) /\ KnowsBound(h, m, b, c)
    BY <1>2, <1>3, <1>5 DEF Knows, KnowsRegisters, KnowsItems, KnowsBound
  <2> QED
    BY <1>2, <1>5, <2>1, <2>2 DEF Knows
<1> QED
  BY <1>4, <1>5

LEMMA FinishReady ==
  ASSUME NEW h, NEW l, NEW r, NEW b, Finish(h, l, r, b),
         NEW o, Sane(h, l, r, b, o), NEW c, Knows(h, l, r, b, c, Tail(todo))
  PROVE  \E q : Ready(q, c)' /\ DOMAIN heap' \subseteq DOMAIN h /\ ~ allocating'
<1> DEFINE m == Locals(l, Tail(todo))
<1>1. /\ todo' = Tail(todo) /\ loc' = m /\ registers' = r /\ bindings' = b
      /\ heap' = Reachable(h, m, r, b) /\ ~ allocating'
  BY DEF Finish
<1>2. Sane(h, m, r, b, o) /\ Knows(h, m, r, b, c, Tail(todo))
  BY LocalsFewer
<1> HIDE DEF m
<1> PICK g : g = heap'
  OBVIOUS
<1>3. Part(g, h, m, r, b)
  BY <1>1, <1>2, ReachablePart
<1>4. PICK q : Sane(g, m, r, b, q)
  BY <1>2, <1>3, PartSane
<1>5. Knows(g, m, r, b, c, Tail(todo))
  BY <1>2, <1>3, PartKnows
<1>6. DOMAIN g \subseteq DOMAIN h
  BY <1>3 DEF Part
<1> QED
  BY <1>1, <1>4, <1>5, <1>6 DEF Ready

(* What an operation finds: the context it leads to, and what its locals   *)
(* hold.                                                                   *)
LEMMA AtOperation ==
  ASSUME NEW h, NEW l, NEW r, NEW b, NEW c, NEW ops, Knows(h, l, r, b, c, ops), ops # <<>>
  PROVE  /\ \E d : /\ Typed(Literal, Head(ops), c, d) /\ Certified(Literal, Tail(ops), d)
                   /\ Named(d)
         /\ \A e \in c.loc : e[1] \in Uses(Head(ops)) \/ (e[1] # Head(ops).x /\ e[1] \in StillUsed(Tail(ops))) =>
              e[1] \notin Stacks /\ e[1] \in DOMAIN l /\ l[e[1]] \in Values(h, l) /\ Means(h, l[e[1]], e[2])
<1> DEFINE now0 == Head(ops)
<1>1. PICK T : ops \in Seq(T)
  BY DEF Knows, Certified
<1>2. Certified(Literal, ops, c) /\ Named(c)
  BY DEF Knows
<1>3. \E d : Typed(Literal, now0, c, d) /\ Certified(Literal, Tail(ops), d) /\ Named(d)
  <2>1. PICK d : Typed(Literal, now0, c, d) /\ Certified(Literal, Tail(ops), d)
    BY <1>2, CertifiedStep
  <2>2. Named(d)
    BY <1>2, <2>1, TypedNamed DEF Named
  <2> QED
    BY <2>1, <2>2
<1>4. ASSUME NEW e \in c.loc, e[1] \in Uses(now0) \/ (e[1] # now0.x /\ e[1] \in StillUsed(Tail(ops)))
      PROVE  e[1] \in StillUsed(ops)
  <2>1. CASE e[1] \in Uses(now0)
    BY <1>1, <2>1, UsesNow
  <2>2. CASE e[1] # now0.x /\ e[1] \in StillUsed(Tail(ops))
    BY <1>1, <2>2, UsedLater
  <2> QED
    BY <1>4, <2>1, <2>2
<1> QED
  BY <1>3, <1>4 DEF Knows, KnowsLocals

WithLocal(l, x, i) == [y \in DOMAIN l \cup {x} |-> IF y = x THEN i ELSE l[y]]

(* The locals are what they were, but for the one that is assigned.        *)
LEMMA AssignedKnown ==
  ASSUME NEW h, NEW l, Stacks \subseteq DOMAIN l, \A x \in DOMAIN l \ Stacks : l[x] \in Values(h, l),
         NEW x, x \notin Stacks, NEW i, i \in Values(h, l), NEW m, m = WithLocal(l, x, i)
  PROVE  /\ Stacks \subseteq DOMAIN m /\ m["ds"] = l["ds"] /\ m["cs"] = l["cs"]
         /\ \A g : Values(g, m) = Values(g, l)
         /\ \A y \in DOMAIN m \ Stacks : m[y] \in Values(h, m)
         /\ x \in DOMAIN m /\ m[x] = i /\ \A y \in DOMAIN l : y \in DOMAIN m /\ (y # x => m[y] = l[y])
<1>1. m["ds"] = l["ds"] /\ m["cs"] = l["cs"] /\ Stacks \subseteq DOMAIN m
  BY DEF Stacks, WithLocal
<1>2. \A g : Values(g, m) = Values(g, l)
  BY <1>1 DEF Values
<1> QED
  BY <1>1, <1>2 DEF WithLocal

LEMMA NamedLocals ==
  ASSUME NEW c, Named(c), NEW o, o.x = ""
  PROVE  \A e \in c.loc : e[1] # o.x
BY Zenon DEF Named, Names

(* Sane, for other locals that know the same stacks                        *)
LEMMA SaneLocals ==
  ASSUME NEW h, NEW l, NEW r, NEW b, NEW o, Sane(h, l, r, b, o),
         NEW m, Stacks \subseteq DOMAIN m, m["ds"] = l["ds"], m["cs"] = l["cs"],
         \A y \in DOMAIN m \ Stacks : m[y] \in Values(h, l),
         NEW s \in Seq(DOMAIN h), NEW d \in [Symbol -> OrNull(Values(h, l))]
  PROVE  Sane(h, m, s, d, o)
<1>1. Values(h, m) = Values(h, l)
  BY DEF Values
<1> QED
  BY <1>1 DEF Sane, Words, Rooted, Owned

(* Knowing nothing of items and bindings *)
LEMMA KnowsForgetful ==
  ASSUME NEW h, NEW l, NEW r, NEW b, NEW c, NEW ops,
         Certified(Literal, ops, c), Named(c), Forgets(c),
         l["ds"] # NULL, l["cs"] # NULL, KnowsLocals(h, l, c, ops),
         KnowsRegisters(h, l, r, c), Len(r) = Len(c.regs)
  PROVE  Knows(h, l, r, b, c, ops)
<1>1. KnowsItems(h, l, c)
  <2>1. c.top = <<>> /\ <<>> \in Seq(Kinds) /\ Len(<<>>) = 0
    BY DEF Forgets
  <2>2. c.top \in Seq(Kinds) /\ Len(c.top) = 0
    BY <2>1
  <2> QED
    BY <2>2 DEF KnowsItems
<1>2. KnowsBound(h, l, b, c)
  BY DEF Forgets, KnowsBound
<1> QED
  BY <1>1, <1>2 DEF Knows, Forgets

RegistersKnown(h, l, r, c) ==
  r \in Seq(DOMAIN h) /\ KnowsRegisters(h, l, r, c) /\ Len(r) = Len(c.regs)

(* Registers, one more and one less                                        *)
LEMMA RegistersMore ==
  ASSUME NEW h, NEW l, NEW r, NEW c, RegistersKnown(h, l, r, c),
         NEW i, i \in Values(h, l), NEW kind, kind \in Kept, IsA(h, i, kind), NEW d, d.regs = Append(c.regs, kind),
         NEW s, s = Append(r, i)
  PROVE  RegistersKnown(h, l, s, d)
<1>1. c.regs \in Seq(Kept) /\ \A k \in 1 .. Len(c.regs) : r[k] \in Values(h, l) /\ IsA(h, r[k], c.regs[k])
  BY DEF RegistersKnown, KnowsRegisters
<1>2. i \in DOMAIN h
  BY DEF Values
<1>3. /\ s \in Seq(DOMAIN h) /\ Len(s) = Len(r) + 1 /\ Len(r) \in Nat
      /\ s[Len(r) + 1] = i /\ \A k \in 1 .. Len(r) : s[k] = r[k]
  BY <1>2, AppendFacts DEF RegistersKnown
<1>4. /\ d.regs \in Seq(Kept) /\ Len(d.regs) = Len(c.regs) + 1
      /\ d.regs[Len(c.regs) + 1] = kind /\ \A k \in 1 .. Len(c.regs) : d.regs[k] = c.regs[k]
  BY <1>1, AppendFacts
<1>5. ASSUME NEW k \in 1 .. Len(d.regs) PROVE s[k] \in Values(h, l) /\ IsA(h, s[k], d.regs[k])
  <2>1. k = Len(c.regs) + 1 \/ k \in 1 .. Len(c.regs)
    BY <1>3, <1>4 DEF RegistersKnown
  <2>2. CASE k = Len(c.regs) + 1
    BY <2>2, <1>3, <1>4 DEF RegistersKnown
  <2>3. CASE k \in 1 .. Len(c.regs)
    BY <2>3, <1>1, <1>3, <1>4 DEF RegistersKnown
  <2> QED
    BY <2>1, <2>2, <2>3
<1> QED
  BY <1>3, <1>4, <1>5 DEF RegistersKnown, KnowsRegisters

LEMMA RegistersLess ==
  ASSUME NEW h, NEW l, NEW r, NEW c, RegistersKnown(h, l, r, c),
         NEW d, NEW kind, Gives(c, d, kind), NEW s, s = Front(r)
  PROVE  /\ RegistersKnown(h, l, s, d)
         /\ Last(r) \in Values(h, l) /\ IsA(h, Last(r), kind)
<1>1. c.regs \in Seq(Kept) /\ \A k \in 1 .. Len(c.regs) : r[k] \in Values(h, l) /\ IsA(h, r[k], c.regs[k])
  BY DEF RegistersKnown, KnowsRegisters
<1>2. /\ d.regs \in Seq(Kept) /\ Len(d.regs) \in Nat /\ Len(c.regs) = Len(d.regs) + 1
      /\ c.regs[Len(c.regs)] = kind
      /\ \A k \in 1 .. Len(d.regs) : c.regs[k] = d.regs[k] /\ k \in 1 .. Len(c.regs)
  BY GivesFacts
<1>3. /\ s \in Seq(DOMAIN h) /\ Len(s) = Len(r) - 1 /\ Last(r) = r[Len(r)]
      /\ \A k \in 1 .. Len(r) - 1 : s[k] = r[k]
  <2>1. Len(r) >= 1
    BY <1>2 DEF RegistersKnown
  <2> QED
    BY <2>1, LastFacts DEF RegistersKnown
<1>4. Len(c.regs) \in 1 .. Len(c.regs) /\ Len(r) - 1 = Len(d.regs)
  BY <1>2 DEF RegistersKnown
<1>5. ASSUME NEW k \in 1 .. Len(d.regs) PROVE s[k] \in Values(h, l) /\ IsA(h, s[k], d.regs[k])
  BY <1>1, <1>2, <1>3, <1>4 DEF RegistersKnown
<1> QED
  BY <1>1, <1>2, <1>3, <1>4, <1>5 DEF RegistersKnown, KnowsRegisters

-----------------------------------------------------------------------------
(* Operations that do not allocate. *)

(* The context the next operation leads to *)
Leads(c, d) == Typed(Literal, now, c, d) /\ Certified(Literal, Tail(todo), d) /\ Named(d)

(* The local x holds a chunk of this kind. *)
LocalKnown(x, kind) ==
  x \notin Stacks /\ x \in DOMAIN loc /\ loc[x] \in Values(heap, loc) /\ Means(heap, loc[x], kind)

LEMMA ReadyFacts ==
  ASSUME NEW o, NEW c, Ready(o, c), todo # <<>>
  PROVE  /\ \E d : Leads(c, d)
         /\ \A x \in Uses(now) : \A kind : <<x, kind>> \in c.loc => LocalKnown(x, kind)
         /\ \A e \in c.loc : e[1] \in StillUsed(Tail(todo)) /\ (e[1] # now.x \/ e[1] \in Uses(now)) =>
              LocalKnown(e[1], e[2])
         /\ \A e \in c.loc : e[1] \notin Stacks
         /\ RegistersKnown(heap, loc, registers, c)
         /\ Stacks \subseteq DOMAIN loc /\ loc["ds"] # NULL /\ loc["cs"] # NULL
         /\ \A x \in DOMAIN loc \ Stacks : loc[x] \in Values(heap, loc)
         /\ bindings \in [Symbol -> OrNull(Values(heap, loc))]
<1>1. Knows(heap, loc, registers, bindings, c, todo) /\ Sane(heap, loc, registers, bindings, o)
  BY DEF Ready
<1>2. /\ \E d : Typed(Literal, now, c, d) /\ Certified(Literal, Tail(todo), d) /\ Named(d)
      /\ \A e \in c.loc : e[1] \in Uses(now) \/ (e[1] # now.x /\ e[1] \in StillUsed(Tail(todo))) =>
            LocalKnown(e[1], e[2])
  BY <1>1, AtOperation DEF now, LocalKnown
<1>3. ASSUME NEW x \in Uses(now), NEW kind, <<x, kind>> \in c.loc PROVE LocalKnown(x, kind)
  <2>1. <<x, kind>>[1] = x /\ <<x, kind>>[2] = kind
    OBVIOUS
  <2> QED
    BY <1>2, <1>3, <2>1
<1> QED
  BY <1>1, <1>2, <1>3 DEF Leads, Knows, KnowsLocals, Sane, Rooted, RegistersKnown

LEMMA KeepReady ==
  ASSUME NEW o, NEW c, Ready(o, c), Keep
  PROVE  \E q, d : Ready(q, d)' /\ DOMAIN heap' \subseteq DOMAIN heap /\ ~ allocating'
<1>1. todo # <<>> /\ now.op \in {"push_register", "release"}
  BY DEF Keep, In
<1>2. PICK d : Leads(c, d)
  BY <1>1, ReadyFacts
<1>3. /\ \A x \in Uses(now) : \A kind : <<x, kind>> \in c.loc => LocalKnown(x, kind)
      /\ \A e \in c.loc : e[1] \in StillUsed(Tail(todo)) /\ (e[1] # now.x \/ e[1] \in Uses(now)) =>
           LocalKnown(e[1], e[2])
      /\ \A e \in c.loc : e[1] \notin Stacks
  BY <1>1, ReadyFacts
<1>4. /\ now.op = "push_register" => TypedKeep(now, c, d)
      /\ now.op = "release" => TypedRelease(now, c, d)
  BY <1>2, TypedAs DEF Leads
<1>5. now.x = "" /\ d.loc \subseteq c.loc /\ Forgets(d)
  BY <1>1, <1>4 DEF TypedKeep, TypedRelease
<1>6. KnowsLocals(heap, loc, d, Tail(todo))
  <2>1. \A e \in c.loc : e[1] # now.x
    BY <1>5, NamedLocals DEF Ready, Knows
  <2> QED
    BY <1>3, <1>5, <2>1 DEF KnowsLocals, LocalKnown
<1>7. /\ RegistersKnown(heap, loc, registers, c)
      /\ Stacks \subseteq DOMAIN loc /\ loc["ds"] # NULL /\ loc["cs"] # NULL
      /\ \A x \in DOMAIN loc \ Stacks : loc[x] \in Values(heap, loc)
      /\ bindings \in [Symbol -> OrNull(Values(heap, loc))]
  BY <1>1, ReadyFacts
<1> DEFINE s == IF now.op = "release" THEN Front(registers) ELSE Append(registers, P)
<1>8. RegistersKnown(heap, loc, s, d)
  <2>1. CASE now.op = "release"
    <3>1. PICK kind : Gives(c, d, kind)
      BY <1>4, <2>1 DEF TypedRelease
    <3>2. s = Front(registers)
      BY <2>1
    <3> HIDE DEF s
    <3> QED
      BY <1>7, <3>1, <3>2, RegistersLess
  <2>2. CASE now.op = "push_register"
    <3>1. PICK kind \in Kept : Is(c, now.p, kind) /\ d.regs = Append(c.regs, kind)
      BY <1>4, <2>2 DEF TypedKeep, Kept
    <3>2. now.p \in Uses(now)
      BY <2>2 DEF Uses
    <3>3. P \in Values(heap, loc) /\ Means(heap, P, kind)
      BY <1>3, <3>1, <3>2 DEF Is, LocalKnown, P
    <3>4. IsA(heap, P, kind)
      BY <3>1, <3>3 DEF Means, Kept
    <3>5. s = Append(registers, P)
      BY <2>2
    <3> HIDE DEF s
    <3> QED
      BY <1>7, <3>1, <3>3, <3>4, <3>5, RegistersMore
  <2> QED
    BY <1>1, <2>1, <2>2
<1>9. Finish(heap, loc, s, bindings)
  BY DEF Keep
<1> HIDE DEF s
<1>10. Sane(heap, loc, s, bindings, o)
  BY <1>7, <1>8, SaneLocals DEF Ready, RegistersKnown
<1>11. Knows(heap, loc, s, bindings, d, Tail(todo))
  BY <1>2, <1>5, <1>6, <1>7, <1>8, KnowsForgetful DEF RegistersKnown, Leads
<1> QED
  BY <1>9, <1>10, <1>11, FinishReady

LEMMA BindReady ==
  ASSUME NEW o, NEW c, Ready(o, c), BindSymbol
  PROVE  \E q, d : Ready(q, d)' /\ DOMAIN heap' \subseteq DOMAIN heap /\ ~ allocating'
<1>1. todo # <<>> /\ now.op = "bind"
  BY DEF BindSymbol, In
<1>2. PICK d : Leads(c, d)
  BY <1>1, ReadyFacts
<1>3. /\ \A x \in Uses(now) : \A kind : <<x, kind>> \in c.loc => LocalKnown(x, kind)
      /\ \A e \in c.loc : e[1] \in StillUsed(Tail(todo)) /\ (e[1] # now.x \/ e[1] \in Uses(now)) =>
           LocalKnown(e[1], e[2])
      /\ \A e \in c.loc : e[1] \notin Stacks
  BY <1>1, ReadyFacts
<1>4. /\ RegistersKnown(heap, loc, registers, c)
      /\ Stacks \subseteq DOMAIN loc /\ loc["ds"] # NULL /\ loc["cs"] # NULL
      /\ \A x \in DOMAIN loc \ Stacks : loc[x] \in Values(heap, loc)
      /\ bindings \in [Symbol -> OrNull(Values(heap, loc))]
  BY <1>1, ReadyFacts
<1>5. TypedBind(now, c, d)
  BY <1>1, <1>2, TypedAs DEF Leads
<1>6. Uses(now) = {now.p, now.x}
  BY <1>1 DEF Uses
<1>7. P \in Values(heap, loc) /\ Means(heap, P, "symbol")
  BY <1>3, <1>5, <1>6 DEF TypedBind, Is, LocalKnown, P
<1>8. heap[P].type = "symbol"
  BY <1>7 DEF Means, IsA
<1>9. heap[P].a \in Symbol
  BY <1>7, <1>8 DEF Ready, Sane, Words, Values
<1>10. X \in Values(heap, loc)
  <2>1. PICK e \in c.loc : e[1] = now.x
    BY <1>5 DEF TypedBind, Names
  <2>2. e[1] \notin Stacks
    BY <1>3
  <2>3. now.x \in DOMAIN loc
    <3>1. Certified(Literal, todo, c)
      BY DEF Ready, Knows
    <3> DEFINE ops == todo
    <3>2. PICK T : ops \in Seq(T)
      BY <3>1 DEF Certified
    <3>3. Uses(Head(ops)) \subseteq StillUsed(ops)
      BY <1>1, <3>2, UsesNow
    <3>4. KnowsLocals(heap, loc, c, ops)
      BY DEF Ready, Knows
    <3> QED
      BY <1>6, <2>1, <3>3, <3>4 DEF KnowsLocals, now
  <2> QED
    BY <1>4, <2>1, <2>2, <2>3 DEF X
<1> DEFINE d2 == [bindings EXCEPT ![heap[P].a] = X]
<1>11. d2 \in [Symbol -> OrNull(Values(heap, loc))]
  BY <1>4, <1>9, <1>10 DEF OrNull
<1>12. Finish(heap, loc, registers, d2)
  BY DEF BindSymbol
<1> HIDE DEF d2
<1>13. Sane(heap, loc, registers, d2, o)
  BY <1>4, <1>11, SaneLocals DEF Ready, RegistersKnown
<1>14. KnowsLocals(heap, loc, d, Tail(todo))
  BY <1>3, <1>5, <1>6 DEF KnowsLocals, LocalKnown, TypedBind
<1>15. Knows(heap, loc, registers, d2, d, Tail(todo))
  <2>1. RegistersKnown(heap, loc, registers, d) /\ Forgets(d)
    BY <1>4, <1>5 DEF RegistersKnown, KnowsRegisters, TypedBind
  <2> QED
    BY <1>2, <1>4, <1>14, <2>1, KnowsForgetful DEF RegistersKnown, Leads
<1> QED
  BY <1>12, <1>13, <1>15, FinishReady

-----------------------------------------------------------------------------
(* A chunk is written to.                                                  *)

SameTypes(g, h) ==
  /\ DOMAIN g = DOMAIN h
  /\ \A i \in DOMAIN h : g[i].type = h[i].type /\ g[i] = Record(g[i])

LEMMA SameTypesFacts ==
  ASSUME NEW g, NEW h, SameTypes(g, h)
  PROVE  /\ Nodes(g) = Nodes(h) /\ Lists(g) = Lists(h) /\ \A l : Values(g, l) = Values(h, l)
         /\ \A i \in DOMAIN h : \A kind : kind # "list+" /\ Means(h, i, kind) => Means(g, i, kind)
         /\ \A i \in DOMAIN h : \A kind : kind # "list+" /\ IsA(h, i, kind) => IsA(g, i, kind)
BY DEF SameTypes, Nodes, Lists, Values, Means, IsA

Records(h) == \A i \in DOMAIN h : h[i] = Record(h[i])

PutA(h, x, v) == [h EXCEPT ![x].a = v]
PutB(h, x, v) == [h EXCEPT ![x].b = v]

LEMMA WrittenB ==
  ASSUME NEW h, Records(h), NEW x, x \in DOMAIN h, NEW v, NEW g, g = PutB(h, x, v)
  PROVE  /\ SameTypes(g, h) /\ \A i \in DOMAIN h : i # x => g[i] = h[i]
         /\ g[x].a = h[x].a /\ g[x].b = v
<1>1. h[x] = [type |-> h[x].type, a |-> h[x].a, b |-> h[x].b]
  BY DEF Records, Record
<1>2. g[x] = [type |-> h[x].type, a |-> h[x].a, b |-> v]
  <2>1. g[x] = [h[x] EXCEPT !.b = v]
    BY DEF PutB
  <2> QED
    BY <1>1, <2>1
<1>3. DOMAIN g = DOMAIN h /\ \A i \in DOMAIN h : i # x => g[i] = h[i]
  BY DEF PutB
<1>4. g[x].type = h[x].type /\ g[x].a = h[x].a /\ g[x].b = v /\ g[x] = Record(g[x])
  BY <1>2 DEF Record
<1> QED
  BY <1>3, <1>4 DEF SameTypes, Records

LEMMA WrittenA ==
  ASSUME NEW h, Records(h), NEW x, x \in DOMAIN h, NEW v, NEW g, g = PutA(h, x, v)
  PROVE  /\ SameTypes(g, h) /\ \A i \in DOMAIN h : i # x => g[i] = h[i]
         /\ g[x].b = h[x].b /\ g[x].a = v
<1>1. h[x] = [type |-> h[x].type, a |-> h[x].a, b |-> h[x].b]
  BY DEF Records, Record
<1>2. g[x] = [type |-> h[x].type, a |-> v, b |-> h[x].b]
  <2>1. g[x] = [h[x] EXCEPT !.a = v]
    BY DEF PutA
  <2> QED
    BY <1>1, <2>1
<1>3. DOMAIN g = DOMAIN h /\ \A i \in DOMAIN h : i # x => g[i] = h[i]
  BY DEF PutA
<1>4. g[x].type = h[x].type /\ g[x].b = h[x].b /\ g[x].a = v /\ g[x] = Record(g[x])
  BY <1>2 DEF Record
<1> QED
  BY <1>3, <1>4 DEF SameTypes, Records

(* What was not the end of a list leads on as it did. *)
LEMMA EndStays ==
  ASSUME NEW h, NEW l, Words(h, l), NEW k, k \in Lists(h), Ends(h, k),
         NEW g, Nodes(h) \subseteq Nodes(g),
         \A i \in Nodes(h) : h[i].b # NULL => g[i].b = h[i].b,
         g[k].a = h[k].a, g[k].b = h[k].b
  PROVE  Ends(g, k)
<1> SUFFICES ASSUME g[k].a # NULL, NEW S \in SUBSET Nodes(g), g[k].a \in S, Walked(g, S)
             PROVE  g[k].b \in S
  BY DEF Ends
<1> DEFINE T == S \cap Nodes(h)
<1>1. h[k].a \in T /\ T \in SUBSET Nodes(h)
  BY DEF Words, OrNull
<1>2. Walked(h, T)
  BY DEF Walked, Words, OrNull
<1>3. h[k].b \in T
  BY <1>1, <1>2 DEF Ends
<1> QED
  BY <1>3

LEMMA RewindReady ==
  ASSUME NEW o, NEW c, Ready(o, c), Rewinds
  PROVE  \E q, d : Ready(q, d)' /\ DOMAIN heap' \subseteq DOMAIN heap /\ ~ allocating'
<1>1. todo # <<>> /\ now.op = "rewind"
  BY DEF Rewinds, In
<1>2. PICK d : Leads(c, d)
  BY <1>1, ReadyFacts
<1>3. /\ \A x \in Uses(now) : \A kind : <<x, kind>> \in c.loc => LocalKnown(x, kind)
      /\ \A e \in c.loc : e[1] \in StillUsed(Tail(todo)) /\ (e[1] # now.x \/ e[1] \in Uses(now)) =>
           LocalKnown(e[1], e[2])
      /\ \A e \in c.loc : e[1] \notin Stacks
  BY <1>1, ReadyFacts
<1>4. /\ RegistersKnown(heap, loc, registers, c)
      /\ Stacks \subseteq DOMAIN loc /\ loc["ds"] # NULL /\ loc["cs"] # NULL
      /\ \A x \in DOMAIN loc \ Stacks : loc[x] \in Values(heap, loc)
      /\ bindings \in [Symbol -> OrNull(Values(heap, loc))]
  BY <1>1, ReadyFacts
<1>5. TypedRewind(now, c, d)
  BY <1>1, <1>2, TypedAs DEF Leads
<1>6. Uses(now) = {now.p}
  BY <1>1 DEF Uses
<1>7. P \in Values(heap, loc) /\ heap[P].type = "block" /\ P \in DOMAIN heap
  <2>1. LocalKnown(now.p, "block")
    BY <1>3, <1>5, <1>6 DEF TypedRewind, Is
  <2> QED
    BY <2>1 DEF LocalKnown, P, Means, IsA, Values
<1> DEFINE v == heap[heap[P].a].a
           g == [heap EXCEPT ![P].b = v]
<1>8. v \in OrNull(Nodes(heap))
  <2>1. heap[P].a \in Lists(heap)
    BY <1>7 DEF Ready, Sane, Words
  <2> QED
    BY <2>1 DEF Ready, Sane, Words
<1>9. Finish(g, loc, registers, bindings)
  BY DEF Rewinds
<1> HIDE DEF v
<1>10. /\ SameTypes(g, heap) /\ \A i \in DOMAIN heap : i # P => g[i] = heap[i]
       /\ g[P].a = heap[P].a /\ g[P].b = v
  <2>1. Records(heap)
    BY DEF Ready, Sane, Words, Records
  <2>2. g = PutB(heap, P, v)
    BY DEF PutB
  <2> HIDE DEF g
  <2> QED
    BY <1>7, <2>1, <2>2, WrittenB
<1> HIDE DEF g
<1>11. /\ Nodes(g) = Nodes(heap) /\ Lists(g) = Lists(heap) /\ Values(g, loc) = Values(heap, loc)
       /\ \A i \in DOMAIN heap : \A kind : kind # "list+" /\ IsA(heap, i, kind) => IsA(g, i, kind)
       /\ DOMAIN g = DOMAIN heap /\ \A i \in DOMAIN heap : g[i].type = heap[i].type /\ g[i] = Record(g[i])
  BY <1>10, SameTypesFacts DEF SameTypes
<1>12. /\ P \notin Nodes(heap) /\ P \notin Lists(heap)
       /\ \A i \in Nodes(heap) \cup Lists(heap) : i \in DOMAIN heap /\ i # P
  BY <1>7 DEF Nodes, Lists
<1>13. Sane(g, loc, registers, bindings, o)
  <2>1. Words(g, loc)
    <3>1. Words(heap, loc)
      BY DEF Ready, Sane
    <3>2. \A i \in DOMAIN g : g[i].type = "block" =>
             g[i].a \in Lists(g) \cap Values(g, loc) /\ g[i].b \in OrNull(Nodes(g))
      <4> SUFFICES ASSUME NEW i \in DOMAIN g, g[i].type = "block"
                   PROVE  g[i].a \in Lists(g) \cap Values(g, loc) /\ g[i].b \in OrNull(Nodes(g))
        OBVIOUS
      <4>1. heap[i].a \in Lists(heap) \cap Values(heap, loc) /\ heap[i].b \in OrNull(Nodes(heap))
        BY <1>11, <3>1 DEF Words
      <4> QED
        BY <1>8, <1>10, <1>11, <4>1
    <3> QED
      BY <1>7, <1>10, <1>11, <1>12, <3>1, <3>2 DEF Words
  <2>2. Rooted(g, loc, registers, bindings)
    BY <1>11 DEF Ready, Sane, Rooted
  <2>3. Owned(g, loc, o)
    <3>1. Owned(heap, loc, o) /\ Words(heap, loc)
      BY DEF Ready, Sane
    <3>2. \A i \in Nodes(heap) \cup Lists(heap) : g[i] = heap[i]
      BY <1>10, <1>12
    <3>3. \A k \in Lists(heap) : heap[k].a # NULL => heap[k].b \in Nodes(heap)
      BY <3>1 DEF Words, Owned, OrNull
    <3>4. \A n \in Nodes(heap) : heap[n].a \in DOMAIN heap
      BY <3>1 DEF Words, Values
    <3> QED
      BY <1>11, <3>1, <3>2, <3>3, <3>4 DEF Owned, OrNull
  <2>4. AllEnd(g)
    <3>1. Words(heap, loc) /\ \A k \in Lists(heap) : Ends(heap, k)
      BY DEF Ready, Sane, AllEnd
    <3>2. \A i \in Nodes(heap) \cup Lists(heap) : g[i] = heap[i]
      BY <1>10, <1>12
    <3> QED
      BY <1>11, <3>1, <3>2, EndStays DEF AllEnd
  <2> QED
    BY <2>1, <2>2, <2>3, <2>4 DEF Sane
<1>14. KnowsLocals(g, loc, d, Tail(todo))
  <2>1. \A e \in c.loc : e[1] # now.x
    BY <1>5, NamedLocals DEF Ready, Knows, TypedRewind
  <2>2. \A i \in Values(heap, loc) : \A kind : Means(heap, i, kind) => Means(g, i, kind)
    BY <1>7, <1>10, <1>11 DEF Means, IsA, EmptyIn, Values
  <2>3. ASSUME NEW e \in d.loc, e[1] \in StillUsed(Tail(todo)) PROVE LocalKnown(e[1], e[2])
    BY <1>3, <1>5, <2>1, <2>3 DEF TypedRewind
  <2>4. ASSUME NEW e \in d.loc PROVE e[1] \notin Stacks
    BY <1>3, <1>5 DEF TypedRewind
  <2> QED
    BY <1>11, <2>2, <2>3, <2>4 DEF KnowsLocals, LocalKnown
<1>15. RegistersKnown(g, loc, registers, d) /\ Forgets(d)
  <2>1. d.regs = c.regs /\ Forgets(d)
    BY <1>5 DEF TypedRewind
  <2>2. ASSUME NEW k \in 1 .. Len(c.regs) PROVE registers[k] \in Values(heap, loc) /\ IsA(g, registers[k], c.regs[k])
    <3>1. registers[k] \in Values(heap, loc) /\ IsA(heap, registers[k], c.regs[k]) /\ c.regs[k] # "list+"
      BY <1>4 DEF RegistersKnown, KnowsRegisters, Kept
    <3> QED
      BY <1>11, <3>1 DEF Values
  <2> QED
    BY <1>4, <1>11, <2>1, <2>2 DEF RegistersKnown, KnowsRegisters
<1>16. Knows(g, loc, registers, bindings, d, Tail(todo))
  BY <1>2, <1>4, <1>14, <1>15, KnowsForgetful DEF RegistersKnown, Leads
<1>17. \E q : Ready(q, d)' /\ DOMAIN heap' \subseteq DOMAIN g /\ ~ allocating'
  BY <1>9, <1>13, <1>16, FinishReady
<1> QED
  BY <1>11, <1>17

(* A local is assigned a chunk the machine knows.                          *)
LEMMA AssignReady ==
  ASSUME NEW o, NEW c, Ready(o, c), todo # <<>>, NEW d, Leads(c, d),
         NEW g, SameTypes(g, heap), NEW q, Sane(g, loc, registers, bindings, q),
         NEW i, i \in Values(heap, loc), now.x \notin Stacks,
         NEW kind, Means(g, i, kind),
         \A e \in d.loc : e[1] \in StillUsed(Tail(todo)) =>
           e = <<now.x, kind>> \/ (e[1] # now.x /\ LocalKnown(e[1], "any") /\ Means(g, loc[e[1]], e[2])),
         \A e \in d.loc : e[1] \notin Stacks,
         NEW s, RegistersKnown(g, loc, s, d), KnowsItems(g, loc, d), d.bound = {}, d.code = FALSE,
         Finish(g, Assigned(now.x, i), s, bindings)
  PROVE  \E p : Ready(p, d)' /\ DOMAIN heap' \subseteq DOMAIN heap /\ ~ allocating'
<1> DEFINE m == Assigned(now.x, i)
<1>1. /\ Stacks \subseteq DOMAIN loc /\ loc["ds"] # NULL /\ loc["cs"] # NULL
      /\ \A x \in DOMAIN loc \ Stacks : loc[x] \in Values(heap, loc)
      /\ bindings \in [Symbol -> OrNull(Values(heap, loc))]
  BY ReadyFacts
<1>2. \A l : Values(g, l) = Values(heap, l)
  BY SameTypesFacts
<1>3. /\ Stacks \subseteq DOMAIN m /\ m["ds"] = loc["ds"] /\ m["cs"] = loc["cs"]
      /\ \A y \in DOMAIN m \ Stacks : m[y] \in Values(heap, m)
      /\ now.x \in DOMAIN m /\ m[now.x] = i /\ \A y \in DOMAIN loc : y \in DOMAIN m /\ (y # now.x => m[y] = loc[y])
  <2> DEFINE x == now.x
  <2>1. m = WithLocal(loc, x, i)
    BY DEF Assigned, WithLocal
  <2>2. x \notin Stacks
    OBVIOUS
  <2> HIDE DEF m, x
  <2>3. /\ Stacks \subseteq DOMAIN m /\ m["ds"] = loc["ds"] /\ m["cs"] = loc["cs"]
        /\ \A y \in DOMAIN m \ Stacks : m[y] \in Values(heap, m)
        /\ x \in DOMAIN m /\ m[x] = i /\ \A y \in DOMAIN loc : y \in DOMAIN m /\ (y # x => m[y] = loc[y])
    BY <1>1, <2>1, <2>2, AssignedKnown
  <2> QED
    BY <2>3 DEF x
<1> HIDE DEF m
<1>4. \A h : Values(h, m) = Values(h, loc)
  BY <1>3 DEF Values
<1>5. Sane(g, m, s, bindings, q)
  <2>1. s \in Seq(DOMAIN g) /\ bindings \in [Symbol -> OrNull(Values(g, loc))]
    BY <1>1, <1>2 DEF RegistersKnown
  <2>2. \A y \in DOMAIN m \ Stacks : m[y] \in Values(g, loc)
    BY <1>2, <1>3, <1>4
  <2> QED
    BY <1>3, <2>1, <2>2, SaneLocals
<1>6. KnowsLocals(g, m, d, Tail(todo))
  <2> SUFFICES ASSUME NEW e \in d.loc, e[1] \in StillUsed(Tail(todo))
               PROVE  e[1] \in DOMAIN m /\ m[e[1]] \in Values(g, m) /\ Means(g, m[e[1]], e[2])
    BY DEF KnowsLocals
  <2>1. CASE e = <<now.x, kind>>
    <3>1. e[1] = now.x /\ e[2] = kind
      BY <2>1
    <3> QED
      BY <1>2, <1>3, <1>4, <3>1
  <2>2. CASE e[1] # now.x /\ LocalKnown(e[1], "any") /\ Means(g, loc[e[1]], e[2])
    <3>1. e[1] \in DOMAIN loc /\ loc[e[1]] \in Values(heap, loc)
      BY <2>2 DEF LocalKnown
    <3>2. e[1] \in DOMAIN m /\ m[e[1]] = loc[e[1]]
      BY <1>3, <2>2, <3>1
    <3> QED
      BY <1>2, <1>4, <2>2, <3>1, <3>2
  <2> QED
    BY <2>1, <2>2
<1>7. Knows(g, m, s, bindings, d, Tail(todo))
  <2>1. KnowsRegisters(g, m, s, d) /\ Len(s) = Len(d.regs)
    BY <1>4 DEF RegistersKnown, KnowsRegisters
  <2>2. KnowsItems(g, m, d)
    BY <1>3 DEF KnowsItems
  <2>3. KnowsBound(g, m, bindings, d)
    BY DEF KnowsBound
  <2> QED
    BY <1>1, <1>3, <1>6, <2>1, <2>2, <2>3 DEF Knows, Leads
<1>8. Finish(g, m, s, bindings)
  BY DEF m
<1>9. \E p : Ready(p, d)' /\ DOMAIN heap' \subseteq DOMAIN g /\ ~ allocating'
  BY <1>5, <1>7, <1>8, FinishReady
<1> QED
  BY <1>9 DEF SameTypes

LEMMA FetchReady ==
  ASSUME NEW o, NEW c, Ready(o, c), Fetch
  PROVE  \E q, d : Ready(q, d)' /\ DOMAIN heap' \subseteq DOMAIN heap /\ ~ allocating'
<1>1. todo # <<>> /\ now.op \in {"pop_register", "front", "current_data", "code", "dereference", "argument"}
  BY DEF Fetch, In
<1>2. PICK d : Leads(c, d)
  BY <1>1, ReadyFacts
<1>3. /\ \A x \in Uses(now) : \A kind : <<x, kind>> \in c.loc => LocalKnown(x, kind)
      /\ \A e \in c.loc : e[1] \in StillUsed(Tail(todo)) /\ (e[1] # now.x \/ e[1] \in Uses(now)) =>
           LocalKnown(e[1], e[2])
      /\ \A e \in c.loc : e[1] \notin Stacks
      /\ RegistersKnown(heap, loc, registers, c)
      /\ Sane(heap, loc, registers, bindings, o) /\ loc["ds"] # NULL /\ loc["cs"] # NULL
  BY <1>1, ReadyFacts DEF Ready
<1>4. /\ now.op = "pop_register" => TypedPopRegister(now, c, d)
      /\ now.op = "front" => TypedFront(now, c, d)
      /\ now.op = "dereference" => TypedDereference(now, c, d)
      /\ now.op = "code" => TypedCode(now, c, d)
      /\ now.op \notin {"current_data", "argument"}
  BY <1>2, TypedAs DEF Leads
<1> DEFINE chunk == CASE now.op = "pop_register" -> Last(registers)
                      [] now.op = "front"        -> heap[heap[P].a].a
                      [] now.op = "current_data" -> heap[heap[P].b].a
                      [] now.op = "code"         -> heap[P].a
                      [] now.op = "dereference"  -> bindings[now.v]
                      [] now.op = "argument"     -> P
           s == IF now.op = "pop_register" THEN Front(registers) ELSE registers
<1>5. Finish(heap, Assigned(now.x, chunk), s, bindings)
  BY DEF Fetch
<1>6. \E kind : /\ Assigns(now, kind, c, d) /\ chunk \in Values(heap, loc) /\ Means(heap, chunk, kind)
                /\ RegistersKnown(heap, loc, s, d)
  <2>1. CASE now.op = "pop_register"
    <3>1. PICK kind \in Kept : Gives(c, d, kind) /\ Assigns(now, kind, c, d)
      BY <1>4, <2>1 DEF TypedPopRegister, Kept
    <3>2. chunk = Last(registers) /\ s = Front(registers)
      BY <2>1
    <3> HIDE DEF chunk, s
    <3>3. RegistersKnown(heap, loc, s, d) /\ Last(registers) \in Values(heap, loc) /\ IsA(heap, Last(registers), kind)
      BY <1>3, <3>1, <3>2, RegistersLess
    <3> QED
      BY <3>1, <3>2, <3>3 DEF Means, Kept
  <2>2. CASE now.op = "front"
    <3>1. chunk = heap[heap[P].a].a /\ s = registers
      BY <2>2
    <3> HIDE DEF chunk, s
    <3>2. TypedFront(now, c, d)
      BY <1>4, <2>2
    <3>3. RegistersKnown(heap, loc, s, d)
      BY <1>3, <3>1, <3>2 DEF RegistersKnown, KnowsRegisters, TypedFront
    <3>4. CASE now.p = "ds" /\ c.top # <<>> /\ Assigns(now, Head(c.top), c, d)
      <4>1. KnowsItems(heap, loc, c) /\ P = loc["ds"]
        BY <3>4 DEF Ready, Knows, P
      <4>2. Len(c.top) >= 1 /\ Head(c.top) = c.top[1] /\ c.top \in Seq(Kinds) /\ c.top[1] \in Kinds
        BY <3>4, <4>1 DEF KnowsItems
      <4>3. heap[P].a # NULL /\ IsA(heap, chunk, Head(c.top)) /\ P \in Lists(heap)
        BY <1>3, <3>1, <4>1, <4>2 DEF KnowsItems, KnowsItem, Sane, Rooted, OrNull
      <4>4. chunk \in Values(heap, loc)
        BY <1>3, <3>1, <4>3 DEF Sane, Words, OrNull
      <4> QED
        BY <3>3, <3>4, <4>2, <4>3, <4>4 DEF Means, Kinds
    <3>5. CASE now.p = "cs" /\ c.code /\ Assigns(now, "block", c, d)
      <4>1. P = loc["cs"] /\ heap[P].a # NULL /\ P \in Lists(heap) /\ P # NULL
        BY <1>3, <3>5 DEF Ready, Knows, P, Sane, Rooted, OrNull
      <4>2. heap[P].a \in Nodes(heap) /\ o[heap[P].a] = P
        BY <1>3, <4>1 DEF Sane, Words, Owned, OrNull
      <4>3. heap[chunk].type = "block" /\ chunk \in Values(heap, loc)
        BY <1>3, <3>1, <4>1, <4>2 DEF Sane, Words, Owned
      <4> QED
        BY <3>3, <3>5, <4>3 DEF Means, IsA
    <3> QED
      BY <3>2, <3>4, <3>5 DEF TypedFront
  <2>3. CASE now.op = "code"
    <3>1. chunk = heap[P].a /\ s = registers
      BY <2>3
    <3> HIDE DEF chunk, s
    <3>2. TypedCode(now, c, d)
      BY <1>4, <2>3
    <3>3. RegistersKnown(heap, loc, s, d)
      BY <1>3, <3>1, <3>2 DEF RegistersKnown, KnowsRegisters, TypedCode
    <3>4. LocalKnown(now.p, "block")
      <4>1. now.p \in Uses(now)
        BY <2>3 DEF Uses
      <4> QED
        BY <1>3, <3>2, <4>1 DEF TypedCode, Is
    <3>5. P \in DOMAIN heap /\ heap[P].type = "block"
      BY <3>4 DEF LocalKnown, P, Means, IsA, Values
    <3>6. chunk \in Lists(heap) /\ chunk \in Values(heap, loc)
      BY <1>3, <3>1, <3>5 DEF Sane, Words
    <3> QED
      BY <3>2, <3>3, <3>6 DEF TypedCode, Means, Lists
  <2>4. CASE now.op = "dereference"
    <3>1. chunk = bindings[now.v] /\ s = registers
      BY <2>4
    <3> HIDE DEF chunk, s
    <3>2. TypedDereference(now, c, d)
      BY <1>4, <2>4
    <3>3. RegistersKnown(heap, loc, s, d)
      BY <1>3, <3>1, <3>2 DEF RegistersKnown, KnowsRegisters, TypedDereference
    <3>4. PICK kind \in {"any", "block"} : <<now.v, kind>> \in c.bound /\ Assigns(now, kind, c, d)
      BY <3>2 DEF TypedDereference
    <3>5. KnowsBound(heap, loc, bindings, c)
      BY DEF Ready, Knows
    <3>6. chunk \in Values(heap, loc) /\ IsA(heap, chunk, kind)
      <4>1. <<now.v, kind>>[1] = now.v /\ <<now.v, kind>>[2] = kind
        OBVIOUS
      <4> QED
        BY <3>1, <3>4, <3>5, <4>1 DEF KnowsBound
    <3> QED
      BY <3>3, <3>4, <3>6 DEF Means
  <2> QED
    BY <1>1, <1>4, <2>1, <2>2, <2>3, <2>4
<1> HIDE DEF chunk, s
<1>7. PICK kind : /\ Assigns(now, kind, c, d) /\ chunk \in Values(heap, loc) /\ Means(heap, chunk, kind)
                  /\ RegistersKnown(heap, loc, s, d)
  BY <1>6
<1>8. Forgets(d)
  BY <1>1, <1>4 DEF TypedPopRegister, TypedFront, TypedDereference, TypedCode
<1>9. KnowsItems(heap, loc, d) /\ d.bound = {} /\ d.code = FALSE
  <2>1. d.top = <<>> /\ <<>> \in Seq(Kinds) /\ Len(<<>>) = 0
    BY <1>8 DEF Forgets
  <2>2. d.top \in Seq(Kinds) /\ Len(d.top) = 0
    BY <2>1
  <2> QED
    BY <1>8, <2>2 DEF KnowsItems, Forgets
<1>10. now.x \notin Stacks /\ \A e \in d.loc : e = <<now.x, kind>> \/ (e \in c.loc /\ e[1] # now.x)
  BY <1>7 DEF Assigns, OwnLocal
<1>11. ASSUME NEW e \in d.loc, e[1] \in StillUsed(Tail(todo))
       PROVE  e = <<now.x, kind>> \/ (e[1] # now.x /\ LocalKnown(e[1], "any") /\ Means(heap, loc[e[1]], e[2]))
  <2>1. CASE e = <<now.x, kind>>
    BY <2>1
  <2>2. CASE e \in c.loc /\ e[1] # now.x
    <3>1. LocalKnown(e[1], e[2])
      BY <1>3, <1>11, <2>2
    <3> QED
      BY <2>2, <3>1 DEF LocalKnown, Means, IsA
  <2> QED
    BY <1>10, <2>1, <2>2
<1>12. \A e \in d.loc : e[1] \notin Stacks
  BY <1>3, <1>10
<1>13. SameTypes(heap, heap)
  BY <1>3 DEF SameTypes, Sane, Words
<1> QED
  BY <1>1, <1>2, <1>3, <1>5, <1>7, <1>9, <1>10, <1>11, <1>12, <1>13, AssignReady

-----------------------------------------------------------------------------
(* An item is taken off a list. *)

Popped(h, x) ==
  IF h[x].a = h[x].b THEN [h EXCEPT ![x].a = NULL, ![x].b = NULL]
  ELSE [h EXCEPT ![x].a = h[h[x].a].b]

LEMMA PoppedWords ==
  ASSUME NEW h, Records(h), NEW x, x \in DOMAIN h, NEW g, g = Popped(h, x)
  PROVE  /\ SameTypes(g, h) /\ \A i \in DOMAIN h : i # x => g[i] = h[i]
         /\ IF h[x].a = h[x].b THEN g[x].a = NULL /\ g[x].b = NULL
            ELSE g[x].a = h[h[x].a].b /\ g[x].b = h[x].b
<1>1. CASE h[x].a = h[x].b
  <2>1. h[x] = [type |-> h[x].type, a |-> h[x].a, b |-> h[x].b]
    BY DEF Records, Record
  <2>2. g = [h EXCEPT ![x].a = NULL, ![x].b = NULL]
    BY <1>1 DEF Popped
  <2>3. DOMAIN g = DOMAIN h /\ \A i \in DOMAIN h : i # x => g[i] = h[i]
    BY <2>2
  <2>4. g[x] = [[h[x] EXCEPT !.a = NULL] EXCEPT !.b = NULL]
    BY <2>2
  <2>5. g[x] = [type |-> h[x].type, a |-> NULL, b |-> NULL]
    BY <2>1, <2>4
  <2>6. g[x].type = h[x].type /\ g[x].a = NULL /\ g[x].b = NULL /\ g[x] = Record(g[x])
    BY <2>5 DEF Record
  <2> QED
    BY <1>1, <2>3, <2>6 DEF SameTypes, Records
<1>2. CASE h[x].a # h[x].b
  <2> DEFINE v == h[h[x].a].b
  <2>1. g = PutA(h, x, v)
    BY <1>2 DEF Popped, PutA
  <2> HIDE DEF v
  <2>2. /\ SameTypes(g, h) /\ \A i \in DOMAIN h : i # x => g[i] = h[i]
        /\ g[x].b = h[x].b /\ g[x].a = v
    BY <2>1, WrittenA
  <2> QED
    BY <1>2, <2>2 DEF v
<1> QED
  BY <1>1, <1>2

(* The nodes of a list that has become empty belong to none. *)
Unowns(h, o, x) == [i \in DOMAIN h |-> IF o[i] = x THEN NULL ELSE o[i]]

LEMMA PoppedSane ==
  ASSUME NEW h, NEW l, NEW r, NEW b, NEW o, Sane(h, l, r, b, o), NEW x, x \in Lists(h), h[x].a # NULL,
         NEW g, g = Popped(h, x)
  PROVE  /\ \E q : Sane(g, l, r, b, q)
         /\ SameTypes(g, h) /\ \A i \in DOMAIN h : i # x => g[i] = h[i]
         /\ g[x].a = h[h[x].a].b /\ h[x].a \in Nodes(h) /\ h[h[x].a].a \in Values(h, l)
<1> DEFINE first == h[x].a
           last  == h[x].b
           q     == IF first = last THEN Unowns(h, o, x) ELSE o
<1>1. Words(h, l) /\ Rooted(h, l, r, b) /\ Owned(h, l, o)
  BY DEF Sane
<1>2. x \in DOMAIN h /\ Records(h) /\ x \notin Nodes(h) /\ h[x].type = "list"
  BY <1>1 DEF Lists, Nodes, Words, Records
<1>3. /\ SameTypes(g, h) /\ \A i \in DOMAIN h : i # x => g[i] = h[i]
      /\ IF first = last THEN g[x].a = NULL /\ g[x].b = NULL ELSE g[x].a = h[first].b /\ g[x].b = last
  BY <1>2, PoppedWords
<1>4. /\ Nodes(g) = Nodes(h) /\ Lists(g) = Lists(h) /\ Values(g, l) = Values(h, l)
      /\ DOMAIN g = DOMAIN h /\ \A i \in DOMAIN h : g[i].type = h[i].type /\ g[i] = Record(g[i])
  BY <1>3, SameTypesFacts DEF SameTypes
<1>5. /\ first \in Nodes(h) /\ last \in Nodes(h) /\ o[first] = x /\ o[last] = x /\ h[last].b = NULL
      /\ first # NULL /\ x # NULL
  <2>1. last # NULL
    BY <1>1 DEF Owned
  <2>2. x # NULL
    BY <1>1, <1>2 DEF Words, NULL
  <2> QED
    BY <1>1, <2>1, <2>2 DEF Words, Owned, OrNull
<1>6. /\ h[first].a \in Values(h, l) /\ h[first].b \in OrNull(Nodes(h))
      /\ first = last <=> h[first].b = NULL
  <2>1. h[first].b = NULL => first = last
    BY <1>1, <1>5 DEF Owned
  <2> QED
    BY <1>1, <1>5, <2>1 DEF Words
<1>7. g[x].a = h[first].b
  BY <1>3, <1>6, <1>5
<1> HIDE DEF first, last
<1>8. /\ \A n \in Nodes(h) : n \in DOMAIN h /\ g[n] = h[n]
      /\ \A k \in Lists(h) : k # x => k \in DOMAIN h /\ g[k] = h[k]
      /\ \A k \in DOMAIN h : h[k].type \notin {"list"} => g[k] = h[k]
  BY <1>2, <1>3 DEF Nodes, Lists
<1>9. g[x].a \in OrNull(Nodes(h)) /\ g[x].b \in OrNull(Nodes(h))
  BY <1>3, <1>5, <1>6, <1>7 DEF OrNull
<1>10. Words(g, l)
  <2>1. \A k \in Lists(h) : g[k].a \in OrNull(Nodes(h)) /\ g[k].b \in OrNull(Nodes(h))
    BY <1>1, <1>8, <1>9 DEF Words
  <2> QED
    BY <1>1, <1>4, <1>8, <2>1 DEF Words
<1>11. Rooted(g, l, r, b)
  BY <1>1, <1>4 DEF Rooted
<1>12. Owned(g, l, q)
  <2>0. /\ \A n \in Nodes(h) : o[n] \in OrNull(Lists(h))
        /\ \A k \in Lists(h) : h[k].a = NULL <=> h[k].b = NULL
        /\ \A k \in Lists(h) : h[k].a # NULL => o[h[k].a] = k /\ o[h[k].b] = k /\ h[h[k].b].b = NULL
        /\ \A n \in Nodes(h) : o[n] # NULL /\ h[n].b = NULL => n = h[o[n]].b
        /\ \A n \in Nodes(h) : o[n] # NULL /\ h[n].b # NULL => o[h[n].b] = o[n]
        /\ \A n \in Nodes(h) : o[n] # NULL /\ o[n] = l["cs"] => h[h[n].a].type = "block"
    BY <1>1 DEF Owned
  <2>1. /\ \A k \in Lists(h) : h[k].a # NULL => h[k].a \in Nodes(h) /\ h[k].b \in Nodes(h)
        /\ \A n \in Nodes(h) : h[n].a \in DOMAIN h /\ (h[n].b # NULL => h[n].b \in Nodes(h))
    BY <1>1, <2>0 DEF Words, OrNull, Values
  <2>2. CASE first = last
    <3>1. \A n \in Nodes(h) : q[n] = IF o[n] = x THEN NULL ELSE o[n]
      BY <2>2, <1>8 DEF Unowns
    <3> HIDE DEF q
    <3>2. g[x].a = NULL /\ g[x].b = NULL
      BY <1>3, <2>2
    <3>3. \A n \in Nodes(h) : q[n] \in OrNull(Lists(h)) /\ (q[n] # NULL => q[n] = o[n] /\ o[n] # x)
      BY <2>0, <3>1 DEF OrNull
    <3>4. \A k \in Lists(h) : k # x /\ h[k].a # NULL => q[h[k].a] = k /\ q[h[k].b] = k /\ h[h[k].b].b = NULL
      BY <2>0, <2>1, <3>1
    <3>5. \A n \in Nodes(h) : q[n] # NULL =>
            /\ h[n].b = NULL => n = h[q[n]].b
            /\ h[n].b # NULL => q[h[n].b] = q[n]
            /\ q[n] = l["cs"] => h[h[n].a].type = "block"
      BY <2>0, <2>1, <3>1, <3>3
    <3>6. \A n \in Nodes(h) : q[n] # NULL => q[n] \in Lists(h) /\ g[q[n]] = h[q[n]]
      BY <1>8, <3>3 DEF OrNull
    <3>7. \A k \in Lists(h) : k # x /\ h[k].a # NULL => g[h[k].b] = h[h[k].b]
      BY <1>8, <2>1
    <3> QED
      BY <1>4, <1>8, <2>0, <2>1, <3>2, <3>3, <3>4, <3>5, <3>6, <3>7 DEF Owned
  <2>3. CASE first # last
    <3>1. q = o
      BY <2>3
    <3> HIDE DEF q
    <3>2. g[x].a = h[first].b /\ g[x].b = last /\ h[first].b # NULL /\ h[x].b = last /\ last # NULL
      BY <1>3, <1>6, <2>3, <1>5, <1>1, <2>0 DEF first, last
    <3>3. o[g[x].a] = x /\ o[g[x].b] = x /\ g[g[x].b].b = NULL
      BY <1>5, <1>8, <2>0, <3>2
    <3>4. \A k \in Lists(h) : k # x /\ h[k].a # NULL => g[h[k].b] = h[h[k].b]
      BY <1>8, <2>1
    <3>5. \A n \in Nodes(h) : o[n] # NULL => o[n] \in Lists(h) /\ g[o[n]].b = h[o[n]].b
      BY <1>8, <2>0, <3>2 DEF OrNull
    <3> QED
      BY <1>4, <1>8, <2>0, <2>1, <3>1, <3>2, <3>3, <3>4, <3>5 DEF Owned
  <2> QED
    BY <2>2, <2>3
<1>13. AllEnd(g)
  <2> SUFFICES ASSUME NEW k \in Lists(h) PROVE Ends(g, k)
    BY <1>4 DEF AllEnd
  <2>1. Ends(h, k) /\ Ends(h, x)
    BY DEF Sane, AllEnd
  <2>2. CASE k # x
    BY <1>1, <1>4, <1>8, <2>1, <2>2, EndStays
  <2>3. CASE k = x
    <3> SUFFICES ASSUME g[x].a # NULL, NEW S \in SUBSET Nodes(g), g[x].a \in S, Walked(g, S)
                 PROVE  g[x].b \in S
      BY <2>3 DEF Ends
    <3>1. first # last /\ g[x].b = last /\ h[x].a = first /\ h[x].b = last
      BY <1>3 DEF first, last
    <3> DEFINE T == S \cup {first}
    <3>2. T \in SUBSET Nodes(h) /\ first \in T
      BY <1>4, <1>5
    <3>3. Walked(h, T)
      BY <1>4, <1>7, <1>8 DEF Walked
    <3>4. last \in T
      BY <1>5, <2>1, <3>1, <3>2, <3>3 DEF Ends
    <3> QED
      BY <3>1, <3>4
  <2> QED
    BY <2>2, <2>3
<1>14. Sane(g, l, r, b, q)
  BY <1>10, <1>11, <1>12, <1>13 DEF Sane
<1> HIDE DEF q
<1> QED
  BY <1>3, <1>5, <1>6, <1>7, <1>14 DEF first

(* The registers know the same chunks in a heap of the same types.         *)
LEMMA RegistersSame ==
  ASSUME NEW h, NEW l, NEW r, NEW c, RegistersKnown(h, l, r, c), NEW g, SameTypes(g, h)
  PROVE  RegistersKnown(g, l, r, c)
<1>1. /\ Values(g, l) = Values(h, l) /\ DOMAIN g = DOMAIN h
      /\ \A i \in DOMAIN h : \A kind : kind # "list+" /\ IsA(h, i, kind) => IsA(g, i, kind)
  BY SameTypesFacts DEF SameTypes
<1>2. ASSUME NEW k \in 1 .. Len(c.regs) PROVE r[k] \in Values(h, l) /\ IsA(g, r[k], c.regs[k])
  <2>1. r[k] \in Values(h, l) /\ IsA(h, r[k], c.regs[k]) /\ c.regs[k] # "list+"
    BY DEF RegistersKnown, KnowsRegisters, Kept
  <2> QED
    BY <1>1, <2>1 DEF Values
<1> QED
  BY <1>1, <1>2 DEF RegistersKnown, KnowsRegisters

LEMMA PoppedHere == Popped(heap, P) = IF heap[P].a = heap[P].b
                                      THEN [heap EXCEPT ![P].a = NULL, ![P].b = NULL]
                                      ELSE [heap EXCEPT ![P].a = heap[heap[P].a].b]
BY DEF Popped

LEMMA DropReady ==
  ASSUME NEW o, NEW c, Ready(o, c), Pop, now.op = "pop_front"
  PROVE  \E q, d : Ready(q, d)' /\ DOMAIN heap' \subseteq DOMAIN heap /\ ~ allocating'
<1>1. todo # <<>>
  BY DEF Pop, In
<1>2. PICK d : Leads(c, d)
  BY <1>1, ReadyFacts
<1>3. /\ RegistersKnown(heap, loc, registers, c)
      /\ Sane(heap, loc, registers, bindings, o) /\ loc["ds"] # NULL /\ loc["cs"] # NULL
  BY <1>1, ReadyFacts DEF Ready
<1>4. TypedDrop(now, c, d)
  BY <1>2, TypedAs DEF Leads
<1>5. P \in Lists(heap)
  BY <1>3, <1>4 DEF TypedDrop, Sane, Rooted, Stacks, OrNull, P
<1> DEFINE g == IF heap[P].a = NULL THEN heap ELSE Popped(heap, P)
<1>6. Finish(g, loc, registers, bindings)
  BY PoppedHere DEF Pop
<1>7. (\E q : Sane(g, loc, registers, bindings, q)) /\ SameTypes(g, heap)
  <2>1. CASE heap[P].a = NULL
    BY <1>3, <2>1 DEF SameTypes, Sane, Words
  <2>2. CASE heap[P].a # NULL
    <3>1. g = Popped(heap, P)
      BY <2>2
    <3> HIDE DEF g
    <3> QED
      BY <1>3, <1>5, <2>2, <3>1, PoppedSane
  <2> QED
    BY <2>1, <2>2
<1> HIDE DEF g
<1>8. PICK q : Sane(g, loc, registers, bindings, q)
  BY <1>7
<1>9. RegistersKnown(g, loc, registers, d)
  <2>1. RegistersKnown(heap, loc, registers, d)
    BY <1>3, <1>4 DEF RegistersKnown, KnowsRegisters, TypedDrop
  <2> QED
    BY <1>7, <2>1, RegistersSame
<1>10. KnowsLocals(g, loc, d, Tail(todo)) /\ Forgets(d)
  BY <1>4 DEF KnowsLocals, TypedDrop
<1>11. Knows(g, loc, registers, bindings, d, Tail(todo))
  BY <1>2, <1>3, <1>9, <1>10, KnowsForgetful DEF RegistersKnown, Leads
<1>12. \E p : Ready(p, d)' /\ DOMAIN heap' \subseteq DOMAIN g /\ ~ allocating'
  BY <1>6, <1>8, <1>11, FinishReady
<1> QED
  BY <1>7, <1>12 DEF SameTypes

(* The list that is popped is not empty. *)
LEMMA PopNonEmpty ==
  ASSUME NEW o, NEW c, Ready(o, c), todo # <<>>, now.op = "pop_to_register", NEW d, TypedPop(now, c, d)
  PROVE  P \in Lists(heap) /\ heap[P].a # NULL
<1>1. CASE now.p = "ds" /\ c.top # <<>>
  <2>1. P = loc["ds"] /\ loc["ds"] # NULL /\ loc["ds"] \in OrNull(Lists(heap)) /\ KnowsItems(heap, loc, c)
    BY <1>1 DEF P, Ready, Knows, Sane, Rooted
  <2>2. Len(c.top) >= 1
    BY <1>1, <2>1 DEF KnowsItems
  <2> QED
    BY <2>1, <2>2 DEF KnowsItems, KnowsItem, OrNull
<1>2. CASE Is(c, now.p, "list+")
  <2>1. now.p \in Uses(now)
    BY DEF Uses
  <2>2. LocalKnown(now.p, "list+")
    BY <1>2, <2>1, ReadyFacts DEF Is
  <2>3. P \in Lists(heap) /\ ~ (heap[P].a = NULL /\ heap[P].b = NULL)
    BY <2>2 DEF LocalKnown, P, Means, IsA, EmptyIn, Lists, Values
  <2> QED
    BY <2>3 DEF Ready, Sane, Owned
<1> QED
  BY <1>1, <1>2 DEF TypedPop

LEMMA PopReady ==
  ASSUME NEW o, NEW c, Ready(o, c), Pop, now.op # "pop_front"
  PROVE  \E q, d : Ready(q, d)' /\ DOMAIN heap' \subseteq DOMAIN heap /\ ~ allocating'
<1>1. todo # <<>> /\ now.op = "pop_to_register"
  BY DEF Pop, In
<1>2. PICK d : Leads(c, d)
  BY <1>1, ReadyFacts
<1>3. /\ \A x \in Uses(now) : \A kind : <<x, kind>> \in c.loc => LocalKnown(x, kind)
      /\ \A e \in c.loc : e[1] \in StillUsed(Tail(todo)) /\ (e[1] # now.x \/ e[1] \in Uses(now)) =>
           LocalKnown(e[1], e[2])
      /\ \A e \in c.loc : e[1] \notin Stacks
      /\ RegistersKnown(heap, loc, registers, c)
      /\ Sane(heap, loc, registers, bindings, o) /\ loc["ds"] # NULL /\ loc["cs"] # NULL
  BY <1>1, ReadyFacts DEF Ready
<1>4. TypedPop(now, c, d)
  BY <1>1, <1>2, TypedAs DEF Leads
<1>5. P \in Lists(heap) /\ heap[P].a # NULL
  BY <1>1, <1>4, PopNonEmpty
<1> DEFINE first == heap[P].a
           i     == heap[first].a
           g     == Popped(heap, P)
           s     == Append(registers, i)
<1>6. Finish(g, Assigned(now.x, i), s, bindings)
  BY <1>1, <1>5, PoppedHere DEF Pop
<1>7. /\ \E q : Sane(g, loc, registers, bindings, q)
      /\ SameTypes(g, heap) /\ \A k \in DOMAIN heap : k # P => g[k] = heap[k]
      /\ g[P].a = heap[first].b /\ first \in Nodes(heap) /\ i \in Values(heap, loc)
  <2> HIDE DEF g
  <2>1. g = Popped(heap, P)
    BY DEF g
  <2> QED
    BY <1>3, <1>5, <2>1, PoppedSane
<1> HIDE DEF g, s
<1>8. PICK q : Sane(g, loc, registers, bindings, q)
  BY <1>7
<1>9. RegistersKnown(g, loc, s, d)
  <2>1. s = Append(registers, i) /\ d.regs = Append(c.regs, "any") /\ "any" \in Kept /\ IsA(heap, i, "any")
    BY <1>4 DEF s, TypedPop, Kept, IsA
  <2> HIDE DEF i
  <2>2. RegistersKnown(heap, loc, s, d)
    BY <1>3, <1>7, <2>1, RegistersMore
  <2> QED
    BY <1>7, <2>2, RegistersSame
<1>10. d.bound = {} /\ d.code = FALSE /\ c.weak = {} /\ now.x \notin Stacks
  BY <1>4 DEF TypedPop, Assigns, OwnLocal
<1>11. ASSUME NEW j \in Values(heap, loc), j # P, NEW kind, Means(heap, j, kind) PROVE Means(g, j, kind)
  BY <1>7, <1>11, PartMeans DEF Values
<1>12. CASE now.p = "ds" /\ c.top # <<>> /\ d.top = Tail(c.top) /\ Assigns(now, Head(c.top), c, d)
  <2> DEFINE kind == Head(c.top)
             rest == heap[first].b
             third == heap[rest].b
  <2>1. P = loc["ds"] /\ P \notin Values(heap, loc)
    BY <1>12 DEF P, Values
  <2>2. KnowsItems(heap, loc, c)
    BY DEF Ready, Knows
  <2>3. /\ c.top \in Seq(Kinds) /\ Len(c.top) \in 1 .. 3 /\ kind = c.top[1] /\ kind \in Kinds
        /\ d.top \in Seq(Kinds) /\ Len(d.top) = Len(c.top) - 1
        /\ \A k \in 1 .. Len(d.top) : d.top[k] = c.top[k + 1]
    <3>1. c.top \in Seq(Kinds) /\ Len(c.top) \in 0 .. 3
      BY <2>2 DEF KnowsItems
    <3>2. /\ Len(c.top) \in Nat /\ Len(c.top) >= 1 /\ Head(c.top) = c.top[1]
          /\ Tail(c.top) \in Seq(Kinds) /\ Len(Tail(c.top)) = Len(c.top) - 1
          /\ \A k \in 1 .. Len(Tail(c.top)) : Tail(c.top)[k] = c.top[k + 1]
      BY <1>12, <3>1, TailFacts
    <3>3. c.top[1] \in Kinds
      BY <3>1, <3>2
    <3>4. d.top = Tail(c.top)
      BY <1>12
    <3> QED
      BY <3>1, <3>2, <3>3, <3>4
  <2>4. /\ KnowsItem(heap, first, kind)
        /\ Len(c.top) >= 2 => KnowsItem(heap, rest, c.top[2])
        /\ Len(c.top) >= 3 => KnowsItem(heap, third, c.top[3])
    BY <2>1, <2>2, <2>3 DEF KnowsItems
  <2>5. Means(heap, i, kind)
    BY <2>3, <2>4 DEF KnowsItem, Means, Kinds
  <2>6. Means(g, i, kind)
    BY <1>7, <1>11, <2>1, <2>5
  <2>7. KnowsItems(g, loc, d)
    <3>1. Len(d.top) >= 1 => KnowsItem(g, rest, d.top[1])
      <4> SUFFICES ASSUME Len(d.top) >= 1 PROVE KnowsItem(g, rest, d.top[1])
        OBVIOUS
      <4>1. KnowsItem(heap, rest, c.top[2]) /\ d.top[1] = c.top[2]
        BY <2>3, <2>4
      <4>2. rest \in Nodes(heap)
        BY <1>3, <1>7, <4>1 DEF KnowsItem, Sane, Words, OrNull
      <4>3. heap[rest].a \in Values(heap, loc) /\ g[rest] = heap[rest]
        BY <1>3, <1>5, <1>7, <4>2 DEF Sane, Words, Nodes, Lists
      <4>4. g[heap[rest].a] = heap[heap[rest].a]
        BY <1>7, <2>1, <4>3 DEF Values
      <4> QED
        BY <4>1, <4>3, <4>4 DEF KnowsItem, IsA, EmptyIn
    <3>2. Len(d.top) >= 2 => KnowsItem(g, g[rest].b, d.top[2])
      <4> SUFFICES ASSUME Len(d.top) >= 2 PROVE KnowsItem(g, g[rest].b, d.top[2])
        OBVIOUS
      <4>1. KnowsItem(heap, rest, c.top[2]) /\ KnowsItem(heap, third, c.top[3]) /\ d.top[2] = c.top[3]
        BY <2>3, <2>4
      <4>2. rest \in Nodes(heap)
        BY <1>3, <1>7, <4>1 DEF KnowsItem, Sane, Words, OrNull
      <4>3. third \in Nodes(heap) /\ g[rest] = heap[rest]
        BY <1>3, <1>5, <1>7, <4>1, <4>2 DEF KnowsItem, Sane, Words, OrNull, Nodes, Lists
      <4>4. heap[third].a \in Values(heap, loc) /\ g[third] = heap[third]
        BY <1>3, <1>5, <1>7, <4>3 DEF Sane, Words, Nodes, Lists
      <4>5. g[heap[third].a] = heap[heap[third].a]
        BY <1>7, <2>1, <4>4 DEF Values
      <4> QED
        BY <4>1, <4>3, <4>4, <4>5 DEF KnowsItem, IsA, EmptyIn
    <3> QED
      BY <1>7, <2>1, <2>3, <3>1, <3>2 DEF KnowsItems
  <2>8. \A e \in d.loc : e = <<now.x, kind>> \/ (e \in c.loc /\ e[1] # now.x)
    BY <1>12 DEF Assigns
  <2> HIDE DEF kind, i
  <2>9. ASSUME NEW e \in d.loc, e[1] \in StillUsed(Tail(todo))
        PROVE  e = <<now.x, kind>> \/ (e[1] # now.x /\ LocalKnown(e[1], "any") /\ Means(g, loc[e[1]], e[2]))
    <3>1. CASE e = <<now.x, kind>>
      BY <3>1
    <3>2. CASE e \in c.loc /\ e[1] # now.x
      <4>1. LocalKnown(e[1], e[2])
        BY <1>3, <2>9, <3>2
      <4> QED
        BY <1>11, <2>1, <3>2, <4>1 DEF LocalKnown, Means, IsA
    <3> QED
      BY <2>8, <3>1, <3>2
  <2>10. \A e \in d.loc : e[1] \notin Stacks
    BY <1>3, <1>10, <2>8
  <2> QED
    BY <1>1, <1>2, <1>6, <1>7, <1>8, <1>9, <1>10, <2>6, <2>7, <2>9, <2>10, AssignReady
<1>13. CASE Is(c, now.p, "list+") /\ d.top = <<>> /\ \A e \in d.loc : e \in {<<now.x, "any">>, <<now.p, "list">>}
  <2>1. Means(g, i, "any")
    BY DEF Means, IsA
  <2>2. KnowsItems(g, loc, d)
    <3>1. d.top \in Seq(Kinds) /\ Len(d.top) = 0
      BY <1>13
    <3> QED
      BY <3>1 DEF KnowsItems
  <2>3. LocalKnown(now.p, "list+") /\ now.x # now.p
    <3>1. now.p \in Uses(now)
      BY <1>1 DEF Uses
    <3> QED
      BY <1>3, <1>4, <1>13, <3>1 DEF Is, TypedPop
  <2>4. LocalKnown(now.p, "any") /\ Means(g, loc[now.p], "list")
    <3>1. g[P].type = "list"
      BY <1>5, <1>7 DEF SameTypes, Lists
    <3> QED
      BY <2>3, <3>1 DEF LocalKnown, Means, IsA, P
  <2> HIDE DEF i
  <2>5. ASSUME NEW e \in d.loc, e[1] \in StillUsed(Tail(todo))
        PROVE  e = <<now.x, "any">> \/ (e[1] # now.x /\ LocalKnown(e[1], "any") /\ Means(g, loc[e[1]], e[2]))
    <3>1. CASE e = <<now.p, "list">>
      <4>1. e[1] = now.p /\ e[2] = "list"
        BY <3>1
      <4> QED
        BY <2>3, <2>4, <4>1
    <3> QED
      BY <1>13, <3>1
  <2>6. \A e \in d.loc : e[1] \notin Stacks
    <3> SUFFICES ASSUME NEW e \in d.loc PROVE e[1] \notin Stacks
      OBVIOUS
    <3>1. e[1] = now.x \/ e[1] = now.p
      BY <1>13
    <3> QED
      BY <1>10, <2>3, <3>1 DEF LocalKnown
  <2> QED
    BY <1>1, <1>2, <1>6, <1>7, <1>8, <1>9, <1>10, <2>1, <2>2, <2>5, <2>6, AssignReady
<1> QED
  BY <1>4, <1>12, <1>13 DEF TypedPop

-----------------------------------------------------------------------------
(* An operation asks for a chunk. *)

(* What goes into the registers is known. *)
LEMMA HeldKnown ==
  ASSUME NEW o, NEW c, Ready(o, c), todo # <<>>, now.op \in Allocates
  PROVE  /\ now.op = "new_block" => P \in Lists(heap) \cap Values(heap, loc)
         /\ now.op \in Pushes =>
              /\ P \in Lists(heap) /\ X \in Values(heap, loc)
              /\ IF now.p \in Stacks THEN P = loc[now.p] ELSE P \in Values(heap, loc)
              /\ now.p = "cs" => heap[X].type = "block"
<1>1. PICK d : Leads(c, d)
  BY ReadyFacts
<1>2. /\ \A x \in Uses(now) : \A kind : <<x, kind>> \in c.loc => LocalKnown(x, kind)
      /\ \A e \in c.loc : e[1] \notin Stacks
      /\ Sane(heap, loc, registers, bindings, o) /\ loc["ds"] # NULL /\ loc["cs"] # NULL
  BY ReadyFacts DEF Ready
<1>3. ASSUME now.op = "new_block" PROVE P \in Lists(heap) \cap Values(heap, loc)
  <2>1. TypedNewBlock(Literal, now, c, d)
    BY <1>1, <1>3, TypedAs DEF Leads
  <2>2. <<now.p, "code">> \in c.loc \/ <<now.p, "list">> \in c.loc
    BY <2>1 DEF TypedNewBlock
  <2>3. now.p \in Uses(now)
    BY <1>3 DEF Uses
  <2>4. LocalKnown(now.p, "code") \/ LocalKnown(now.p, "list")
    BY <1>2, <2>2, <2>3
  <2> QED
    BY <2>4 DEF LocalKnown, Means, IsA, P, Lists, Values
<1>4. ASSUME now.op \in Pushes
      PROVE  /\ P \in Lists(heap) /\ X \in Values(heap, loc)
             /\ IF now.p \in Stacks THEN P = loc[now.p] ELSE P \in Values(heap, loc)
             /\ now.p = "cs" => heap[X].type = "block"
  <2>1. TypedPush(now, c, d)
    BY <1>1, <1>4, TypedAs DEF Leads
  <2>2. Uses(now) = {now.p, now.x}
    BY <1>4 DEF Uses, Pushes
  <2>3. PICK e \in c.loc : e[1] = now.x
    BY <2>1 DEF TypedPush, Names
  <2>4. e[1] \in StillUsed(todo) /\ KnowsLocals(heap, loc, c, todo)
    <3> DEFINE ops == todo
    <3>1. Knows(heap, loc, registers, bindings, c, ops)
      BY DEF Ready
    <3>2. PICK T : ops \in Seq(T)
      BY <3>1 DEF Knows, Certified
    <3>3. Uses(Head(ops)) \subseteq StillUsed(ops)
      BY <3>2, UsesNow
    <3> QED
      BY <2>2, <2>3, <3>1, <3>3 DEF Knows, now
  <2>5. X \in Values(heap, loc)
    BY <2>3, <2>4 DEF KnowsLocals, X
  <2>6. CASE now.p \in Stacks
    <3>1. P = loc[now.p] /\ P \in Lists(heap)
      BY <1>2, <2>6 DEF P, Sane, Rooted, OrNull, Stacks
    <3>2. now.p = "cs" => Is(c, now.x, "block")
      BY <1>2, <2>1, <2>6 DEF TypedPush, Is
    <3>3. now.p = "cs" => heap[X].type = "block"
      BY <1>2, <2>2, <3>2 DEF Is, LocalKnown, Means, IsA, X
    <3> QED
      BY <2>5, <2>6, <3>1, <3>3
  <2>7. CASE now.p \notin Stacks
    <3>1. Is(c, now.p, "list")
      BY <2>1, <2>7 DEF TypedPush, Stacks
    <3>2. LocalKnown(now.p, "list")
      BY <1>2, <2>2, <3>1 DEF Is
    <3> QED
      BY <2>5, <2>7, <3>2 DEF LocalKnown, Means, IsA, P, Lists, Values, Stacks
  <2> QED
    BY <2>6, <2>7
<1> QED
  BY <1>3, <1>4

(* Nothing but ds and cs is needed any more. *)
LEMMA HoldLocals ==
  ASSUME NEW o, NEW c, Ready(o, c), todo # <<>>, now.op \in Allocates
  PROVE  StillUsed(Tail(todo)) \subseteq Stacks \cup Result
<1>1. PICK d : Leads(c, d)
  BY ReadyFacts
<1>2. StillUsed(Tail(todo)) \subseteq Names(d) \cup Stacks
  BY <1>1, StillUsedKnown DEF Leads
<1>3. Names(d) \subseteq Result
  <2> SUFFICES ASSUME NEW e \in d.loc PROVE e[1] \in Result
    BY DEF Names
  <2>1. CASE now.op = "new"
    <3>1. TypedNew(Literal, now, c, d)
      BY <1>1, <2>1, TypedAs DEF Leads
    <3> QED
      BY <2>1, <3>1 DEF TypedNew, Result
  <2>2. CASE now.op = "new_block"
    <3>1. TypedNewBlock(Literal, now, c, d)
      BY <1>1, <2>2, TypedAs DEF Leads
    <3> QED
      BY <2>2, <3>1 DEF TypedNewBlock, Result
  <2>3. CASE now.op \in Pushes
    <3>1. TypedPush(now, c, d)
      BY <1>1, <2>3, TypedAs DEF Leads
    <3> QED
      BY <2>3, <3>1 DEF TypedPush, Result, Pushes
  <2> QED
    BY <2>1, <2>2, <2>3 DEF Allocates, Pushes
<1> QED
  BY <1>2, <1>3

HeldValues == [k \in DOMAIN Held(now) |-> loc[Held(now)[k]]]

LEMMA HeldValuesFacts ==
  ASSUME NEW o, NEW c, Ready(o, c), todo # <<>>, now.op \in Allocates
  PROVE  /\ HeldValues \in Seq(DOMAIN heap) /\ Len(HeldValues) = Len(Held(now)) /\ Len(Held(now)) \in Nat
         /\ now.op = "new" => Len(Held(now)) = 0
         /\ now.op = "new_block" => Len(Held(now)) = 1 /\ HeldValues[1] = P
         /\ now.op \in Pushes => Len(Held(now)) = 2 /\ HeldValues[1] = P /\ HeldValues[2] = X
<1>1. CASE now.op = "new"
  <2>1. Held(now) = <<>> /\ Len(Held(now)) = 0 /\ now.op # "new_block" /\ now.op \notin Pushes
    BY <1>1, HeldLength DEF Pushes
  <2>2. HeldValues = <<>>
    BY <2>1 DEF HeldValues
  <2> QED
    BY <1>1, <2>1, <2>2
<1>2. CASE now.op = "new_block"
  <2> DEFINE x == now.p
  <2>1. Held(now) = <<x>> /\ Len(Held(now)) = 1 /\ now.op # "new" /\ now.op \notin Pushes
    BY <1>2, HeldLength DEF Pushes
  <2>2. P = loc[x] /\ P \in DOMAIN heap
    BY <1>2, HeldKnown DEF P, Lists
  <2> HIDE DEF x
  <2>3. HeldValues = <<loc[x]>>
    BY <2>1 DEF HeldValues
  <2> QED
    BY <1>2, <2>1, <2>2, <2>3
<1>3. CASE now.op \in Pushes
  <2> DEFINE x == now.p
             y == now.x
  <2>1. Held(now) = <<x, y>> /\ Len(Held(now)) = 2 /\ now.op # "new" /\ now.op # "new_block"
    BY <1>3, HeldLength DEF Pushes
  <2>2. P = loc[x] /\ P \in DOMAIN heap /\ X = loc[y] /\ X \in DOMAIN heap
    BY <1>3, HeldKnown DEF P, X, Lists, Values
  <2> HIDE DEF x, y
  <2>3. HeldValues = <<loc[x], loc[y]>>
    BY <2>1 DEF HeldValues
  <2> QED
    BY <1>3, <2>1, <2>2, <2>3
<1> QED
  BY <1>1, <1>2, <1>3 DEF Allocates, Pushes

LEMMA HoldWaits ==
  ASSUME NEW o, NEW c, Ready(o, c), Hold
  PROVE  /\ Sane(heap, loc', registers', bindings, o)
         /\ Waits(heap, loc', registers', c, todo)
<1>1. todo # <<>> /\ now.op \in Allocates
  BY DEF Hold, In
<1>2. /\ \A e \in c.loc : e[1] \notin Stacks
      /\ RegistersKnown(heap, loc, registers, c)
      /\ Sane(heap, loc, registers, bindings, o) /\ loc["ds"] # NULL /\ loc["cs"] # NULL
      /\ Stacks \subseteq DOMAIN loc
      /\ bindings \in [Symbol -> OrNull(Values(heap, loc))]
      /\ Certified(Literal, todo, c) /\ Named(c)
  BY <1>1, ReadyFacts DEF Ready, Knows
<1> PICK m, s : m = loc' /\ s = registers'
  OBVIOUS
<1>3. DOMAIN m = Stacks /\ m["ds"] = loc["ds"] /\ m["cs"] = loc["cs"]
  <2>1. m = [x \in ((DOMAIN loc \ Result) \cup {"cs", "ds"}) \cap ({"cs", "ds"} \cup StillUsed(Tail(todo))) |-> loc[x]]
    BY DEF Hold, Locals
  <2>2. ((DOMAIN loc \ Result) \cup {"cs", "ds"}) \cap ({"cs", "ds"} \cup StillUsed(Tail(todo))) = Stacks
    BY <1>1, HoldLocals DEF Stacks
  <2> QED
    BY <2>1, <2>2 DEF Stacks
<1>4. /\ HeldValues \in Seq(DOMAIN heap) /\ Len(HeldValues) = Len(Held(now)) /\ Len(Held(now)) \in Nat
      /\ now.op = "new" => Len(Held(now)) = 0
      /\ now.op = "new_block" => Len(Held(now)) = 1 /\ HeldValues[1] = P
      /\ now.op \in Pushes => Len(Held(now)) = 2 /\ HeldValues[1] = P /\ HeldValues[2] = X
  BY <1>1, HeldValuesFacts
<1> DEFINE n == Len(c.regs)
           len == Len(Held(now))
<1>5. n = Len(registers) /\ n \in Nat /\ registers \in Seq(DOMAIN heap)
  BY <1>2 DEF RegistersKnown
<1>6. s = registers \o HeldValues
  BY DEF Hold, HeldValues
<1>7. /\ s \in Seq(DOMAIN heap) /\ Len(s) = n + len
      /\ \A k \in 1 .. n : s[k] = registers[k]
      /\ \A k \in 1 .. len : s[n + k] = HeldValues[k]
  <2> DEFINE t == HeldValues
  <2>1. t \in Seq(DOMAIN heap) /\ s = registers \o t /\ Len(t) = len
    BY <1>4, <1>6
  <2> HIDE DEF t, n, len
  <2>2. /\ s \in Seq(DOMAIN heap) /\ Len(s) = Len(registers) + Len(t)
        /\ \A k \in 1 .. Len(registers) : s[k] = registers[k]
    <3>1. /\ registers \o t \in Seq(DOMAIN heap) /\ Len(registers \o t) = Len(registers) + Len(t)
          /\ \A k \in 1 .. Len(registers) : (registers \o t)[k] = registers[k]
      BY <1>5, <2>1, JoinFacts
    <3> QED
      BY <2>1, <3>1
  <2>3. \A k \in 1 .. Len(t) : s[Len(registers) + k] = t[k]
    BY <1>5, <2>1
  <2> QED
    BY <1>5, <2>1, <2>2, <2>3 DEF t
<1>8. Values(heap, m) = Values(heap, loc)
  BY <1>3 DEF Values
<1>9. Sane(heap, m, s, bindings, o)
  BY <1>2, <1>3, <1>7, SaneLocals
<1>10. KnowsRegisters(heap, m, s, c)
  BY <1>2, <1>7, <1>8 DEF RegistersKnown, KnowsRegisters
<1> HIDE DEF n, len
<1>11. Holds(heap, m, s, n, now)
  <2>1. Len(s) = n + Len(Held(now))
    BY <1>7 DEF len
  <2>2. ASSUME now.op = "new_block" PROVE s[n + 1] \in Lists(heap) \cap Values(heap, m)
    <3>1. s[n + 1] = P
      BY <1>4, <1>7, <2>2 DEF len
    <3> QED
      BY <1>1, <1>8, <2>2, <3>1, HeldKnown
  <2>3. ASSUME now.op \in Pushes
        PROVE  /\ s[n + 1] \in Lists(heap) /\ s[n + 2] \in Values(heap, m)
               /\ IF now.p \in Stacks THEN s[n + 1] = m[now.p] ELSE s[n + 1] \in Values(heap, m)
               /\ now.p = "cs" => heap[s[n + 2]].type = "block"
    <3>1. s[n + 1] = P /\ s[n + 2] = X
      BY <1>4, <1>7, <2>3 DEF len
    <3>2. /\ P \in Lists(heap) /\ X \in Values(heap, loc)
          /\ IF now.p \in Stacks THEN P = loc[now.p] ELSE P \in Values(heap, loc)
          /\ now.p = "cs" => heap[X].type = "block"
      BY <1>1, <2>3, HeldKnown
    <3> QED
      BY <1>3, <1>8, <3>1, <3>2 DEF Stacks
  <2> QED
    BY <2>1, <2>2, <2>3 DEF Holds
<1>12. Waits(heap, m, s, c, todo)
  BY <1>1, <1>2, <1>3, <1>10, <1>11 DEF Waits, now, n
<1> QED
  BY <1>9, <1>12

-----------------------------------------------------------------------------
(* A chunk comes into the heap. *)

Joins(g, h, n, chunk) ==
  /\ n \notin DOMAIN h /\ n \in Nat
  /\ DOMAIN g = DOMAIN h \cup {n} /\ g[n] = chunk /\ \A i \in DOMAIN h : g[i] = h[i]

(* o, but for chunk n: it belongs to x *)
Belongs(h, o, n, x) == [i \in DOMAIN h |-> IF i = n THEN x ELSE o[i]]

(* A chunk that may come *)
Fitting(h, l, chunk) ==
  /\ chunk = Record(chunk) /\ chunk.type \in Types
  /\ chunk.type = "node"  => chunk.a \in Values(h, l) /\ chunk.b \in OrNull(Nodes(h))
  /\ chunk.type = "list"  => chunk.a = NULL /\ chunk.b = NULL
  /\ chunk.type = "block" => chunk.a \in Lists(h) \cap Values(h, l) /\ chunk.b \in OrNull(Nodes(h))
  /\ chunk.type \in {"symbol", "escaped"} => chunk.a \in Symbol

LEMMA JoinsFacts ==
  ASSUME NEW h, NEW l, NEW r, NEW b, NEW o, Sane(h, l, r, b, o),
         NEW n, NEW chunk, NEW g, Joins(g, h, n, chunk)
  PROVE  /\ n \notin Nodes(h) /\ n \notin Lists(h) /\ n \notin Values(h, l)
         /\ n # NULL /\ n # l["ds"] /\ n # l["cs"]
         /\ Nodes(h) \subseteq Nodes(g) /\ Lists(h) \subseteq Lists(g) /\ Values(h, l) \subseteq Values(g, l)
         /\ Nodes(g) = IF chunk.type = "node" THEN Nodes(h) \cup {n} ELSE Nodes(h)
         /\ Lists(g) = IF chunk.type = "list" THEN Lists(h) \cup {n} ELSE Lists(h)
         /\ Values(g, l) = IF chunk.type = "node" THEN Values(h, l) ELSE Values(h, l) \cup {n}
<1>1. l["ds"] \in OrNull(Lists(h)) /\ l["cs"] \in OrNull(Lists(h))
  BY DEF Sane, Rooted
<1>2. n # NULL
  BY DEF Joins, NULL
<1>3. n # l["ds"] /\ n # l["cs"]
  BY <1>1, <1>2 DEF OrNull, Joins, Lists
<1> QED
  BY <1>2, <1>3 DEF Joins, Nodes, Lists, Values

LEMMA AddedSane ==
  ASSUME NEW h, NEW l, NEW r, NEW b, NEW o, Sane(h, l, r, b, o),
         NEW n, NEW chunk, Fitting(h, l, chunk), NEW g, Joins(g, h, n, chunk),
         NEW q, q = Belongs(g, o, n, NULL)
  PROVE  Sane(g, l, r, b, q)
<1>1. /\ n \notin Nodes(h) /\ n \notin Lists(h) /\ n \notin Values(h, l)
      /\ n # NULL /\ n # l["ds"] /\ n # l["cs"]
      /\ Nodes(h) \subseteq Nodes(g) /\ Lists(h) \subseteq Lists(g) /\ Values(h, l) \subseteq Values(g, l)
      /\ Nodes(g) = IF chunk.type = "node" THEN Nodes(h) \cup {n} ELSE Nodes(h)
      /\ Lists(g) = IF chunk.type = "list" THEN Lists(h) \cup {n} ELSE Lists(h)
      /\ Values(g, l) = IF chunk.type = "node" THEN Values(h, l) ELSE Values(h, l) \cup {n}
  BY JoinsFacts
<1>2. Words(h, l) /\ Rooted(h, l, r, b) /\ Owned(h, l, o)
  BY DEF Sane
<1>3. /\ DOMAIN g = DOMAIN h \cup {n} /\ g[n] = chunk /\ \A i \in DOMAIN h : g[i] = h[i]
      /\ n \notin DOMAIN h /\ n \in Nat
  BY DEF Joins
<1>4. OrNull(Nodes(h)) \subseteq OrNull(Nodes(g)) /\ OrNull(Lists(h)) \subseteq OrNull(Lists(g))
      /\ OrNull(Values(h, l)) \subseteq OrNull(Values(g, l))
  BY <1>1 DEF OrNull
<1>5. Words(g, l)
  <2>1. IsFiniteSet(DOMAIN g) /\ DOMAIN g \subseteq Nat
    BY <1>2, <1>3, FS_AddElement DEF Words
  <2>2. ASSUME NEW i \in DOMAIN g PROVE i = n \/ (i \in DOMAIN h /\ g[i] = h[i])
    BY <1>3
  <2>3. \A i \in DOMAIN g : g[i] = Record(g[i]) /\ g[i].type \in Types
    BY <1>2, <1>3, <2>2 DEF Words, Fitting
  <2>4. \A i \in Nodes(g) : g[i].a \in Values(g, l) /\ g[i].b \in OrNull(Nodes(g))
    <3> SUFFICES ASSUME NEW i \in Nodes(g) PROVE g[i].a \in Values(g, l) /\ g[i].b \in OrNull(Nodes(g))
      OBVIOUS
    <3>1. CASE i = n
      BY <1>1, <1>3, <1>4, <3>1 DEF Fitting, Nodes
    <3>2. CASE i # n
      <4>1. i \in Nodes(h) /\ g[i] = h[i]
        BY <2>2, <3>2 DEF Nodes
      <4> QED
        BY <1>1, <1>2, <1>4, <4>1 DEF Words
    <3> QED
      BY <3>1, <3>2
  <2>5. \A i \in Lists(g) : g[i].a \in OrNull(Nodes(g)) /\ g[i].b \in OrNull(Nodes(g))
    <3> SUFFICES ASSUME NEW i \in Lists(g) PROVE g[i].a \in OrNull(Nodes(g)) /\ g[i].b \in OrNull(Nodes(g))
      OBVIOUS
    <3>1. CASE i = n
      BY <1>3, <3>1 DEF Fitting, Lists, OrNull
    <3>2. CASE i # n
      <4>1. i \in Lists(h) /\ g[i] = h[i]
        BY <2>2, <3>2 DEF Lists
      <4> QED
        BY <1>2, <1>4, <4>1 DEF Words
    <3> QED
      BY <3>1, <3>2
  <2>6. \A i \in DOMAIN g : g[i].type = "block" =>
          g[i].a \in Lists(g) \cap Values(g, l) /\ g[i].b \in OrNull(Nodes(g))
    <3> SUFFICES ASSUME NEW i \in DOMAIN g, g[i].type = "block"
                 PROVE  g[i].a \in Lists(g) \cap Values(g, l) /\ g[i].b \in OrNull(Nodes(g))
      OBVIOUS
    <3>1. CASE i = n
      BY <1>1, <1>3, <1>4, <3>1 DEF Fitting
    <3>2. CASE i # n
      <4>1. h[i].a \in Lists(h) \cap Values(h, l) /\ h[i].b \in OrNull(Nodes(h)) /\ g[i] = h[i]
        BY <1>2, <2>2, <3>2 DEF Words
      <4> QED
        BY <1>1, <1>4, <4>1
    <3> QED
      BY <3>1, <3>2
  <2>7. \A i \in DOMAIN g : g[i].type \in {"symbol", "escaped"} => g[i].a \in Symbol
    BY <1>2, <1>3, <2>2 DEF Words, Fitting
  <2> QED
    BY <2>1, <2>3, <2>4, <2>5, <2>6, <2>7 DEF Words
<1>6. Rooted(g, l, r, b)
  <2>1. b \in [Symbol -> OrNull(Values(g, l))]
    BY <1>2, <1>4 DEF Rooted
  <2>2. r \in Seq(DOMAIN g)
    BY <1>2, <1>3 DEF Rooted
  <2> QED
    BY <1>1, <1>2, <1>4, <2>1, <2>2 DEF Rooted
<1>7. Owned(g, l, q)
  <2>0. /\ \A k \in Nodes(h) : o[k] \in OrNull(Lists(h))
        /\ \A k \in Lists(h) : h[k].a = NULL <=> h[k].b = NULL
        /\ \A k \in Lists(h) : h[k].a # NULL => o[h[k].a] = k /\ o[h[k].b] = k /\ h[h[k].b].b = NULL
        /\ \A k \in Nodes(h) : o[k] # NULL /\ h[k].b = NULL => k = h[o[k]].b
        /\ \A k \in Nodes(h) : o[k] # NULL /\ h[k].b # NULL => o[h[k].b] = o[k]
        /\ \A k \in Nodes(h) : o[k] # NULL /\ o[k] = l["cs"] => h[h[k].a].type = "block"
    BY <1>2 DEF Owned
  <2>1. /\ \A k \in Lists(h) : h[k].a # NULL => h[k].a \in Nodes(h) /\ h[k].b \in Nodes(h)
        /\ \A k \in Nodes(h) : h[k].a \in DOMAIN h /\ (h[k].b # NULL => h[k].b \in Nodes(h))
    BY <1>2, <2>0 DEF Words, OrNull, Values
  <2>2. /\ \A k \in Nodes(h) : q[k] = o[k] /\ g[k] = h[k] /\ k \in DOMAIN h
        /\ \A k \in Lists(h) : g[k] = h[k]
        /\ n \in DOMAIN g /\ q[n] = NULL
        /\ \A k \in DOMAIN h : g[k] = h[k]
    BY <1>1, <1>3 DEF Nodes, Lists, Belongs
  <2>3. ASSUME NEW k \in Lists(g)
        PROVE  k \in Lists(h) \/ (g[k].a = NULL /\ g[k].b = NULL)
    BY <1>1, <1>3, <2>3 DEF Fitting
  <2>4. ASSUME NEW k \in Nodes(g), q[k] # NULL PROVE k \in Nodes(h) /\ o[k] # NULL /\ o[k] \in Lists(h)
    BY <1>1, <2>0, <2>2, <2>4 DEF OrNull
  <2>5. \A k \in Nodes(g) : q[k] \in OrNull(Lists(g))
    BY <1>1, <2>2, <2>4 DEF OrNull
  <2>6. \A k \in Lists(g) : g[k].a = NULL <=> g[k].b = NULL
    BY <2>0, <2>2, <2>3
  <2>7. \A k \in Lists(g) : g[k].a # NULL => q[g[k].a] = k /\ q[g[k].b] = k /\ g[g[k].b].b = NULL
    BY <2>0, <2>1, <2>2, <2>3
  <2>8. \A k \in Nodes(g) : q[k] # NULL /\ g[k].b = NULL => k = g[q[k]].b
    BY <2>0, <2>2, <2>4
  <2>9. \A k \in Nodes(g) : q[k] # NULL /\ g[k].b # NULL => q[g[k].b] = q[k]
    BY <2>0, <2>1, <2>2, <2>4
  <2>10. \A k \in Nodes(g) : q[k] # NULL /\ q[k] = l["cs"] => g[g[k].a].type = "block"
    BY <2>0, <2>1, <2>2, <2>4
  <2> QED
    BY <2>5, <2>6, <2>7, <2>8, <2>9, <2>10 DEF Owned
<1>8. AllEnd(g)
  <2> SUFFICES ASSUME NEW k \in Lists(g) PROVE Ends(g, k)
    BY DEF AllEnd
  <2>1. CASE k \in Lists(h)
    <3>1. Ends(h, k) /\ g[k] = h[k] /\ \A i \in Nodes(h) : g[i] = h[i]
      BY <1>3, <2>1 DEF Sane, AllEnd, Lists, Nodes
    <3> QED
      BY <1>1, <1>2, <2>1, <3>1, EndStays
  <2>2. CASE k \notin Lists(h)
    BY <1>1, <1>3, <2>2 DEF Ends, Fitting
  <2> QED
    BY <2>1, <2>2
<1> QED
  BY <1>5, <1>6, <1>7, <1>8 DEF Sane

(* A node that belongs to no list becomes the first one of list x. *)
LEMMA FrontSane ==
  ASSUME NEW h, NEW l, NEW r, NEW b, NEW o, Sane(h, l, r, b, o),
         NEW n, n \in Nodes(h), o[n] = NULL, NEW x, x \in Lists(h), h[n].b = h[x].a,
         x = l["cs"] => h[h[n].a].type = "block",
         NEW g, SameTypes(g, h), \A i \in DOMAIN h : i # x => g[i] = h[i],
         g[x].a = n, g[x].b = IF h[x].b = NULL THEN n ELSE h[x].b,
         NEW q, q = Belongs(h, o, n, x)
  PROVE  Sane(g, l, r, b, q)
<1>1. Words(h, l) /\ Rooted(h, l, r, b) /\ Owned(h, l, o)
  BY DEF Sane
<1>2. /\ Nodes(g) = Nodes(h) /\ Lists(g) = Lists(h) /\ Values(g, l) = Values(h, l)
      /\ DOMAIN g = DOMAIN h /\ \A i \in DOMAIN h : g[i].type = h[i].type /\ g[i] = Record(g[i])
  BY SameTypesFacts DEF SameTypes
<1>3. /\ \A k \in Nodes(h) : k # x /\ k \in DOMAIN h /\ g[k] = h[k]
      /\ \A k \in Lists(h) : k # x => g[k] = h[k]
      /\ \A k \in DOMAIN h : h[k].type # "list" => g[k] = h[k]
      /\ x \in DOMAIN h
  BY DEF Nodes, Lists
<1>4. NULL \notin DOMAIN h /\ x # NULL /\ n # NULL
  BY <1>1, <1>3 DEF Words, NULL, Nodes
<1>5. g[x].a \in OrNull(Nodes(h)) /\ g[x].b \in OrNull(Nodes(h))
  BY <1>1 DEF Words, OrNull
<1>6. Words(g, l)
  <2>1. \A k \in Lists(h) : g[k].a \in OrNull(Nodes(h)) /\ g[k].b \in OrNull(Nodes(h))
    BY <1>1, <1>3, <1>5 DEF Words
  <2> QED
    BY <1>1, <1>2, <1>3, <2>1 DEF Words
<1>7. Rooted(g, l, r, b)
  BY <1>1, <1>2 DEF Rooted
<1>8. Owned(g, l, q)
  <2>0. /\ \A k \in Nodes(h) : o[k] \in OrNull(Lists(h))
        /\ \A k \in Lists(h) : h[k].a = NULL <=> h[k].b = NULL
        /\ \A k \in Lists(h) : h[k].a # NULL => o[h[k].a] = k /\ o[h[k].b] = k /\ h[h[k].b].b = NULL
        /\ \A k \in Nodes(h) : o[k] # NULL /\ h[k].b = NULL => k = h[o[k]].b
        /\ \A k \in Nodes(h) : o[k] # NULL /\ h[k].b # NULL => o[h[k].b] = o[k]
        /\ \A k \in Nodes(h) : o[k] # NULL /\ o[k] = l["cs"] => h[h[k].a].type = "block"
    BY <1>1 DEF Owned
  <2>1. /\ \A k \in Lists(h) : h[k].a # NULL => h[k].a \in Nodes(h) /\ h[k].b \in Nodes(h)
        /\ \A k \in Nodes(h) : h[k].a \in DOMAIN h /\ (h[k].b # NULL => h[k].b \in Nodes(h))
        /\ \A k \in Lists(h) : k # NULL
    BY <1>1, <1>4, <2>0 DEF Words, OrNull, Values, Lists
  <2>2. q[n] = x /\ \A k \in Nodes(h) : k # n => q[k] = o[k]
    BY <1>3 DEF Nodes, Belongs
  <2>3. \A k \in Nodes(h) : q[k] \in OrNull(Lists(h))
    BY <2>0, <2>2 DEF OrNull
  <2>4. \A k \in Lists(h) : g[k].a = NULL <=> g[k].b = NULL
    BY <1>3, <1>4, <2>0
  <2>5. ASSUME NEW k \in Lists(h), g[k].a # NULL
        PROVE  q[g[k].a] = k /\ q[g[k].b] = k /\ g[g[k].b].b = NULL
    <3>1. CASE k = x
      <4>1. CASE h[x].b = NULL
        BY <1>3, <2>0, <2>2, <3>1, <4>1
      <4>2. CASE h[x].b # NULL
        <5>1. h[x].b \in Nodes(h) /\ o[h[x].b] = x /\ h[h[x].b].b = NULL
          BY <2>0, <2>1, <4>2
        <5> QED
          BY <1>3, <1>4, <2>2, <3>1, <4>2, <5>1
      <4> QED
        BY <4>1, <4>2
    <3>2. CASE k # x
      <4>1. g[k] = h[k] /\ h[k].a \in Nodes(h) /\ h[k].b \in Nodes(h) /\ k # NULL
        BY <1>3, <2>1, <2>5, <3>2
      <4> QED
        BY <1>3, <2>0, <2>2, <2>5, <4>1
    <3> QED
      BY <3>1, <3>2
  <2>6. ASSUME NEW k \in Nodes(h), q[k] # NULL
        PROVE  /\ g[k].b = NULL => k = g[q[k]].b
               /\ g[k].b # NULL => q[g[k].b] = q[k]
               /\ q[k] = l["cs"] => g[g[k].a].type = "block"
    <3>0. g[k] = h[k] /\ h[k].a \in DOMAIN h /\ g[h[k].a].type = h[h[k].a].type
      BY <1>2, <1>3, <2>1
    <3>1. CASE k = n
      <4>1. h[n].b = NULL => h[x].b = NULL /\ g[x].b = n
        BY <2>0
      <4>2. h[n].b # NULL => h[n].b # n /\ h[n].b \in Nodes(h) /\ o[h[n].b] = x
        BY <1>4, <2>0, <2>1
      <4> QED
        BY <2>2, <3>0, <3>1, <4>1, <4>2
    <3>2. CASE k # n
      <4>1. q[k] = o[k] /\ o[k] # NULL /\ o[k] \in Lists(h)
        BY <2>0, <2>2, <2>6, <3>2 DEF OrNull
      <4>2. h[k].b = NULL => k = g[o[k]].b
        <5>1. SUFFICES ASSUME h[k].b = NULL PROVE k = g[o[k]].b
          OBVIOUS
        <5>2. k = h[o[k]].b /\ k # NULL
          BY <1>4, <2>0, <4>1, <5>1 DEF Nodes
        <5> QED
          BY <1>3, <4>1, <5>2
      <4>3. h[k].b # NULL => q[h[k].b] = o[k]
        <5>1. SUFFICES ASSUME h[k].b # NULL PROVE q[h[k].b] = o[k]
          OBVIOUS
        <5>2. h[k].b \in Nodes(h) /\ o[h[k].b] = o[k]
          BY <2>0, <2>1, <4>1, <5>1
        <5>3. h[k].b # n
          BY <4>1, <5>2
        <5> QED
          BY <2>2, <5>2, <5>3
      <4> QED
        BY <2>0, <3>0, <4>1, <4>2, <4>3
    <3> QED
      BY <3>1, <3>2
  <2> QED
    BY <1>2, <2>3, <2>4, <2>5, <2>6 DEF Owned
<1>9. AllEnd(g)
  <2> SUFFICES ASSUME NEW k \in Lists(h) PROVE Ends(g, k)
    BY <1>2 DEF AllEnd
  <2>1. Ends(h, k) /\ Ends(h, x)
    BY DEF Sane, AllEnd
  <2>2. CASE k # x
    BY <1>1, <1>2, <1>3, <2>1, <2>2, EndStays
  <2>3. CASE k = x
    <3> SUFFICES ASSUME NEW S \in SUBSET Nodes(g), n \in S, Walked(g, S) PROVE g[x].b \in S
      BY <2>3 DEF Ends
    <3>1. CASE h[x].b # NULL
      <4>1. h[x].a # NULL /\ h[n].b = h[x].a
        BY <1>1, <3>1 DEF Owned
      <4>2. Walked(h, S) /\ S \in SUBSET Nodes(h) /\ h[x].a \in S
        BY <1>2, <1>3, <4>1 DEF Walked
      <4>3. h[x].b \in S
        BY <2>1, <4>1, <4>2 DEF Ends
      <4> QED
        BY <3>1, <4>3
    <3> QED
      BY <3>1
  <2> QED
    BY <2>2, <2>3
<1> QED
  BY <1>6, <1>7, <1>8, <1>9 DEF Sane

(* ... the last one *)
LEMMA BackSane ==
  ASSUME NEW h, NEW l, NEW r, NEW b, NEW o, Sane(h, l, r, b, o),
         NEW n, n \in Nodes(h), o[n] = NULL, NEW x, x \in Lists(h), h[n].b = NULL,
         x = l["cs"] => h[h[n].a].type = "block",
         NEW g, SameTypes(g, h), \A i \in DOMAIN h : i # x /\ (h[x].a # NULL => i # h[x].b) => g[i] = h[i],
         g[x].b = n, g[x].a = IF h[x].a = NULL THEN n ELSE h[x].a,
         h[x].a # NULL => g[h[x].b].a = h[h[x].b].a /\ g[h[x].b].b = n,
         NEW q, q = Belongs(h, o, n, x)
  PROVE  Sane(g, l, r, b, q)
<1> DEFINE last == h[x].b
<1>1. Words(h, l) /\ Rooted(h, l, r, b) /\ Owned(h, l, o)
  BY DEF Sane
<1>2. /\ Nodes(g) = Nodes(h) /\ Lists(g) = Lists(h) /\ Values(g, l) = Values(h, l)
      /\ DOMAIN g = DOMAIN h /\ \A i \in DOMAIN h : g[i].type = h[i].type /\ g[i] = Record(g[i])
  BY SameTypesFacts DEF SameTypes
<1>3. NULL \notin DOMAIN h /\ x # NULL /\ n # NULL /\ x \in DOMAIN h
  BY <1>1 DEF Words, NULL, Nodes, Lists
<1>4. h[x].a # NULL => last \in Nodes(h) /\ last # n /\ last # x /\ o[last] = x /\ h[last].b = NULL /\ last # NULL
  <2>1. h[x].a # NULL => last # NULL /\ o[last] = x /\ h[last].b = NULL
    BY <1>1 DEF Owned
  <2>2. last \in OrNull(Nodes(h))
    BY <1>1 DEF Words
  <2>3. x \notin Nodes(h)
    BY DEF Nodes, Lists
  <2> QED
    BY <1>3, <2>1, <2>2, <2>3 DEF OrNull
<1>5. /\ \A k \in Nodes(h) : k # x /\ k \in DOMAIN h /\ g[k].a = h[k].a /\ (g[k] = h[k] \/ (h[x].a # NULL /\ k = last))
      /\ \A k \in Lists(h) : k # x => g[k] = h[k]
      /\ \A k \in DOMAIN h : h[k].type \notin {"list", "node"} => g[k] = h[k]
  <2>1. h[x].a # NULL => last \in Nodes(h)
    BY <1>4
  <2> QED
    BY <2>1 DEF Nodes, Lists
<1> HIDE DEF last
<1>6. g[x].a \in OrNull(Nodes(h)) /\ g[x].b \in OrNull(Nodes(h))
  BY <1>1 DEF Words, OrNull
<1>7. Words(g, l)
  <2>1. \A k \in Lists(h) : g[k].a \in OrNull(Nodes(h)) /\ g[k].b \in OrNull(Nodes(h))
    BY <1>1, <1>5, <1>6 DEF Words
  <2>2. \A k \in Nodes(h) : g[k].a \in Values(h, l) /\ g[k].b \in OrNull(Nodes(h))
    <3> SUFFICES ASSUME NEW k \in Nodes(h) PROVE g[k].a \in Values(h, l) /\ g[k].b \in OrNull(Nodes(h))
      OBVIOUS
    <3>1. h[k].a \in Values(h, l) /\ h[k].b \in OrNull(Nodes(h)) /\ g[k].a = h[k].a
      BY <1>1, <1>5 DEF Words
    <3>2. CASE g[k] = h[k]
      BY <3>1, <3>2
    <3>3. CASE h[x].a # NULL /\ k = last
      BY <3>1, <3>3 DEF OrNull, last
    <3> QED
      BY <1>5, <3>2, <3>3
  <2>3. \A i \in DOMAIN h : h[i].type \in {"block", "symbol", "escaped"} => g[i] = h[i]
    BY <1>5
  <2> QED
    BY <1>1, <1>2, <2>1, <2>2, <2>3 DEF Words
<1>8. Rooted(g, l, r, b)
  BY <1>1, <1>2 DEF Rooted
<1>9. Owned(g, l, q)
  <2>0. /\ \A k \in Nodes(h) : o[k] \in OrNull(Lists(h))
        /\ \A k \in Lists(h) : h[k].a = NULL <=> h[k].b = NULL
        /\ \A k \in Lists(h) : h[k].a # NULL => o[h[k].a] = k /\ o[h[k].b] = k /\ h[h[k].b].b = NULL
        /\ \A k \in Nodes(h) : o[k] # NULL /\ h[k].b = NULL => k = h[o[k]].b
        /\ \A k \in Nodes(h) : o[k] # NULL /\ h[k].b # NULL => o[h[k].b] = o[k]
        /\ \A k \in Nodes(h) : o[k] # NULL /\ o[k] = l["cs"] => h[h[k].a].type = "block"
    BY <1>1 DEF Owned
  <2>1. /\ \A k \in Lists(h) : h[k].a # NULL => h[k].a \in Nodes(h) /\ h[k].b \in Nodes(h)
        /\ \A k \in Nodes(h) : h[k].a \in DOMAIN h /\ (h[k].b # NULL => h[k].b \in Nodes(h))
        /\ \A k \in Lists(h) : k # NULL
    BY <1>1, <1>3, <2>0 DEF Words, OrNull, Values, Lists
  <2>2. q[n] = x /\ \A k \in Nodes(h) : k # n => q[k] = o[k]
    BY <1>5 DEF Nodes, Belongs
  <2>3. \A k \in Nodes(h) : q[k] \in OrNull(Lists(h))
    BY <2>0, <2>2 DEF OrNull
  <2>4. \A k \in Lists(h) : g[k].a = NULL <=> g[k].b = NULL
    BY <1>3, <1>5, <2>0
  <2>5. g[n] = h[n] /\ g[n].b = NULL
    BY <1>4, <1>5
  <2>6. ASSUME NEW k \in Lists(h), g[k].a # NULL
        PROVE  q[g[k].a] = k /\ q[g[k].b] = k /\ g[g[k].b].b = NULL
    <3>1. CASE k = x
      <4>1. q[g[x].a] = x
        <5>1. CASE h[x].a = NULL
          BY <2>2, <5>1
        <5>2. CASE h[x].a # NULL
          <6>1. h[x].a \in Nodes(h) /\ o[h[x].a] = x /\ g[x].a = h[x].a
            BY <2>0, <2>1, <5>2
          <6> QED
            BY <1>3, <2>2, <6>1
        <5> QED
          BY <5>1, <5>2
      <4> QED
        BY <2>2, <2>5, <3>1, <4>1
    <3>2. CASE k # x
      <4>1. g[k] = h[k] /\ h[k].a \in Nodes(h) /\ h[k].b \in Nodes(h) /\ k # NULL
        BY <1>5, <2>1, <2>6, <3>2
      <4>2. o[h[k].a] = k /\ o[h[k].b] = k /\ h[h[k].b].b = NULL
        BY <2>0, <2>6, <4>1
      <4>3. g[h[k].b] = h[h[k].b]
        BY <1>4, <1>5, <3>2, <4>1, <4>2
      <4> QED
        BY <2>2, <4>1, <4>2, <4>3
    <3> QED
      BY <3>1, <3>2
  <2>7. ASSUME NEW k \in Nodes(h), q[k] # NULL
        PROVE  /\ g[k].b = NULL => k = g[q[k]].b
               /\ g[k].b # NULL => q[g[k].b] = q[k]
               /\ q[k] = l["cs"] => g[g[k].a].type = "block"
    <3>0. g[k].a = h[k].a /\ h[k].a \in DOMAIN h /\ g[h[k].a].type = h[h[k].a].type
      BY <1>2, <1>5, <2>1
    <3>1. CASE k = n
      BY <2>2, <2>5, <3>0, <3>1
    <3>2. CASE k # n /\ h[x].a # NULL /\ k = last
      <4>1. q[k] = x /\ g[k].b = n /\ o[k] = x
        BY <1>4, <2>2, <3>2 DEF last
      <4> QED
        BY <1>3, <2>0, <2>2, <3>0, <4>1
    <3>3. CASE k # n /\ ~ (h[x].a # NULL /\ k = last)
      <4>0. g[k] = h[k]
        BY <1>5, <3>3
      <4>1. q[k] = o[k] /\ o[k] # NULL /\ o[k] \in Lists(h)
        BY <2>0, <2>2, <2>7, <3>3 DEF OrNull
      <4>2. h[k].b = NULL => k = g[o[k]].b
        <5>1. SUFFICES ASSUME h[k].b = NULL PROVE k = g[o[k]].b
          OBVIOUS
        <5>2. k = h[o[k]].b /\ k # NULL
          BY <1>3, <2>0, <4>1, <5>1 DEF Nodes
        <5>3. o[k] # x
          BY <2>0, <3>3, <5>2 DEF last
        <5> QED
          BY <1>5, <4>1, <5>2, <5>3
      <4>3. h[k].b # NULL => q[h[k].b] = o[k]
        <5>1. SUFFICES ASSUME h[k].b # NULL PROVE q[h[k].b] = o[k]
          OBVIOUS
        <5>2. h[k].b \in Nodes(h) /\ o[h[k].b] = o[k]
          BY <2>0, <2>1, <4>1, <5>1
        <5>3. h[k].b # n
          BY <4>1, <5>2
        <5> QED
          BY <2>2, <5>2, <5>3
      <4> QED
        BY <2>0, <3>0, <4>0, <4>1, <4>2, <4>3
    <3> QED
      BY <3>1, <3>2, <3>3
  <2> QED
    BY <1>2, <2>3, <2>4, <2>6, <2>7 DEF Owned
<1>10. AllEnd(g)
  <2> SUFFICES ASSUME NEW k \in Lists(h) PROVE Ends(g, k)
    BY <1>2 DEF AllEnd
  <2>1. Ends(h, k) /\ Ends(h, x)
    BY DEF Sane, AllEnd
  <2>2. \A i \in Nodes(h) : h[i].b # NULL => g[i].b = h[i].b
    BY <1>4, <1>5
  <2>3. CASE k # x
    BY <1>1, <1>2, <1>5, <2>1, <2>2, <2>3, EndStays
  <2>4. CASE k = x
    <3> SUFFICES ASSUME NEW S \in SUBSET Nodes(g), g[x].a \in S, Walked(g, S) PROVE n \in S
      BY <2>4 DEF Ends
    <3>1. CASE h[x].a # NULL
      <4>1. Walked(h, S) /\ S \in SUBSET Nodes(h) /\ h[x].a \in S
        BY <1>2, <2>2, <3>1 DEF Walked
      <4>2. last \in S
        BY <2>1, <3>1, <4>1 DEF Ends, last
      <4> QED
        BY <1>3, <3>1, <4>2 DEF Walked, last
    <3> QED
      BY <3>1
  <2> QED
    BY <2>3, <2>4
<1> QED
  BY <1>7, <1>8, <1>9, <1>10 DEF Sane

-----------------------------------------------------------------------------
(* The chunk is there, and the operation goes on. *)

(* The registers are known in a heap with more chunks. *)
LEMMA RegistersGrow ==
  ASSUME NEW h, NEW l, NEW r, NEW c, RegistersKnown(h, l, r, c), NEW g,
         DOMAIN h \subseteq DOMAIN g, \A i \in DOMAIN h : g[i].type = h[i].type,
         NEW d, d.regs = c.regs,
         Values(h, l) \subseteq Values(g, l)
  PROVE  RegistersKnown(g, l, r, d)
<1>1. r \in Seq(DOMAIN g)
  BY DEF RegistersKnown
<1>2. ASSUME NEW k \in 1 .. Len(c.regs) PROVE r[k] \in Values(g, l) /\ IsA(g, r[k], c.regs[k])
  <2>1. r[k] \in Values(h, l) /\ IsA(h, r[k], c.regs[k]) /\ c.regs[k] \in Kept
    BY DEF RegistersKnown, KnowsRegisters
  <2>2. g[r[k]].type = h[r[k]].type
    BY <2>1 DEF Values
  <2> QED
    BY <2>1, <2>2 DEF IsA, Kept
<1> QED
  BY <1>1, <1>2 DEF RegistersKnown, KnowsRegisters

LEMMA WaitingFacts ==
  ASSUME NEW o, NEW c, Sane(heap, loc, registers, bindings, o), Waits(heap, loc, registers, c, todo)
  PROVE  /\ todo # <<>> /\ now.op \in Allocates /\ \E d : Leads(c, d)
         /\ RegistersKnown(heap, loc, Released, c)
         /\ DOMAIN loc = Stacks /\ loc["ds"] # NULL /\ loc["cs"] # NULL
         /\ now.op = "new_block" => HeldAt(1) \in Lists(heap) \cap Values(heap, loc)
         /\ now.op \in Pushes =>
              /\ HeldAt(1) \in Lists(heap) /\ HeldAt(2) \in Values(heap, loc)
              /\ IF now.p \in Stacks THEN HeldAt(1) = loc[now.p] ELSE HeldAt(1) \in Values(heap, loc)
              /\ now.p = "cs" => heap[HeldAt(2)].type = "block"
<1> DEFINE n == Len(c.regs)
           len == Len(Held(now))
<1>1. /\ todo # <<>> /\ now.op \in Allocates /\ Certified(Literal, todo, c) /\ Named(c)
      /\ DOMAIN loc = Stacks /\ loc["ds"] # NULL /\ loc["cs"] # NULL
      /\ KnowsRegisters(heap, loc, registers, c) /\ Holds(heap, loc, registers, n, now)
  BY DEF Waits, now
<1>2. \E d : Leads(c, d)
  <2> DEFINE ops == todo
             now0 == Head(ops)
  <2>1. Certified(Literal, ops, c) /\ ops # <<>>
    BY <1>1
  <2>2. PICK d : Typed(Literal, now0, c, d) /\ Certified(Literal, Tail(ops), d)
    BY <2>1, CertifiedStep
  <2>3. Named(d)
    BY <1>1, <2>2, TypedNamed DEF Named
  <2> QED
    BY <2>2, <2>3 DEF Leads, now
<1>3. /\ registers \in Seq(DOMAIN heap) /\ c.regs \in Seq(Kept) /\ n \in Nat
      /\ len \in Nat /\ Len(registers) = n + len
  <2>1. registers \in Seq(DOMAIN heap) /\ c.regs \in Seq(Kept)
    BY <1>1 DEF Sane, Rooted, KnowsRegisters
  <2>2. n \in Nat
    BY <2>1
  <2>3. len \in Nat
    <3> DEFINE op == now
    <3>1. len = Len(Held(op)) /\ op.op \in Allocates
      BY <1>1
    <3> HIDE DEF len, op
    <3>2. len = 0 \/ len = 1 \/ len = 2
      BY <3>1, HeldLength
    <3> QED
      BY <3>2
  <2> QED
    BY <1>1, <2>1, <2>2, <2>3 DEF Holds
<1> HIDE DEF len
<1>4. /\ Released \in Seq(DOMAIN heap) /\ Len(Released) = n
      /\ \A k \in 1 .. n : Released[k] = registers[k]
  <2>1. Released = SubSeq(registers, 1, n)
    <3>1. Len(registers) - len = n
      BY <1>3
    <3> QED
      BY <3>1 DEF Released, len
  <2>2. n <= Len(registers)
    BY <1>3
  <2> HIDE DEF n
  <2> QED
    BY <1>3, <2>1, <2>2, CutFacts
<1>5. RegistersKnown(heap, loc, Released, c)
  BY <1>1, <1>4 DEF RegistersKnown, KnowsRegisters
<1>6. HeldAt(1) = registers[n + 1] /\ HeldAt(2) = registers[n + 2]
  BY <1>4 DEF HeldAt
<1> QED
  BY <1>1, <1>2, <1>5, <1>6 DEF Holds

LEMMA FilledReady ==
  ASSUME NEW c, NEW d, Leads(c, d), Forgets(d), DOMAIN loc = Stacks, loc["ds"] # NULL, loc["cs"] # NULL,
         NEW g, NEW q, Sane(g, loc, registers, bindings, q), RegistersKnown(g, loc, Released, d),
         NEW m, Finish(g, m, Released, bindings),
         \/ m = loc /\ d.loc = {}
         \/ \E x, i : /\ m = Assigned(x, i) /\ x \notin Stacks /\ i \in Values(g, loc)
                      /\ \A e \in d.loc : e[1] = x /\ Means(g, i, e[2])
  PROVE  \E p : Ready(p, d)' /\ DOMAIN heap' \subseteq DOMAIN g /\ ~ allocating'
<1>1. /\ Stacks \subseteq DOMAIN m /\ m["ds"] = loc["ds"] /\ m["cs"] = loc["cs"]
      /\ \A y \in DOMAIN m \ Stacks : m[y] \in Values(g, loc)
      /\ \A e \in d.loc : e[1] \notin Stacks /\ e[1] \in DOMAIN m /\ m[e[1]] \in Values(g, loc)
                          /\ Means(g, m[e[1]], e[2])
  <2>1. CASE m = loc /\ d.loc = {}
    BY <2>1
  <2>2. CASE \E x, i : /\ m = Assigned(x, i) /\ x \notin Stacks /\ i \in Values(g, loc)
                       /\ \A e \in d.loc : e[1] = x /\ Means(g, i, e[2])
    <3>1. PICK x, i : /\ m = Assigned(x, i) /\ x \notin Stacks /\ i \in Values(g, loc)
                      /\ \A e \in d.loc : e[1] = x /\ Means(g, i, e[2])
      BY <2>2
    <3>2. m = WithLocal(loc, x, i)
      BY <3>1 DEF Assigned, WithLocal
    <3>3. /\ Stacks \subseteq DOMAIN loc /\ \A y \in DOMAIN loc \ Stacks : loc[y] \in Values(g, loc)
      OBVIOUS
    <3>4. /\ Stacks \subseteq DOMAIN m /\ m["ds"] = loc["ds"] /\ m["cs"] = loc["cs"]
          /\ \A h : Values(h, m) = Values(h, loc)
          /\ \A y \in DOMAIN m \ Stacks : m[y] \in Values(g, m)
          /\ x \in DOMAIN m /\ m[x] = i
      BY <3>1, <3>2, <3>3, AssignedKnown
    <3> QED
      BY <3>1, <3>4
  <2> QED
    BY <2>1, <2>2
<1>2. Values(g, m) = Values(g, loc)
  BY <1>1 DEF Values
<1>3. bindings \in [Symbol -> OrNull(Values(g, loc))] /\ Released \in Seq(DOMAIN g)
  BY DEF Sane, Rooted, RegistersKnown
<1>4. Sane(g, m, Released, bindings, q)
  BY <1>1, <1>3, SaneLocals
<1>5. KnowsLocals(g, m, d, Tail(todo))
  BY <1>1, <1>2 DEF KnowsLocals
<1>6. KnowsRegisters(g, m, Released, d) /\ Len(Released) = Len(d.regs)
  BY <1>2 DEF RegistersKnown, KnowsRegisters
<1>7. m["ds"] # NULL /\ m["cs"] # NULL /\ Certified(Literal, Tail(todo), d) /\ Named(d)
  BY <1>1 DEF Leads
<1>8. Knows(g, m, Released, bindings, d, Tail(todo))
  BY <1>5, <1>6, <1>7, KnowsForgetful
<1> QED
  BY <1>4, <1>8, FinishReady

LEMMA InFront ==
  ASSUME NEW h, NEW n, n \in Nat, n \notin DOMAIN h, NEW chunk, NEW g, g = With(h, n, chunk)
  PROVE  Joins(g, h, n, chunk)
  BY DEF Joins, With

(* sinavm_new_list and its like *)
LEMMA NewReady ==
  ASSUME NEW o, NEW c, Sane(heap, loc, registers, bindings, o), Waits(heap, loc, registers, c, todo),
         NEW n, n \in Nat, n \notin DOMAIN heap, NewChunk(n)
  PROVE  \E q, d : Ready(q, d)' /\ DOMAIN heap' \subseteq DOMAIN heap \cup {n} /\ ~ allocating'
<1> DEFINE chunk == [type |-> now.p, a |-> IF now.p = "list" THEN NULL ELSE now.v, b |-> NULL]
           g == With(heap, n, chunk)
           q == Belongs(g, o, n, NULL)
<1>1. /\ todo # <<>> /\ \E d : Leads(c, d)
      /\ RegistersKnown(heap, loc, Released, c)
      /\ DOMAIN loc = Stacks /\ loc["ds"] # NULL /\ loc["cs"] # NULL
  BY WaitingFacts
<1>2. PICK d : Leads(c, d)
  BY <1>1
<1>3. TypedNew(Literal, now, c, d)
  <2>1. now.op = "new"
    BY DEF NewChunk, Waiting
  <2> QED
    BY <1>2, <2>1, TypedAs DEF Leads
<1>4. Joins(g, heap, n, chunk)
  <2> HIDE DEF chunk
  <2> QED
    BY InFront
<1>5. Fitting(heap, loc, chunk)
  BY <1>3 DEF Fitting, TypedNew, Record, Types, Literal
<1>6. Finish(g, Assigned(now.x, n), Released, bindings)
  BY DEF NewChunk
<1>7. chunk.type = now.p
  OBVIOUS
<1> HIDE DEF g, chunk
<1>8. Sane(g, loc, registers, bindings, q)
  BY <1>4, <1>5, AddedSane
<1> HIDE DEF q
<1>9. DOMAIN g = DOMAIN heap \cup {n} /\ g[n] = chunk /\ \A i \in DOMAIN heap : g[i] = heap[i]
  BY <1>4 DEF Joins
<1>10. Values(heap, loc) \subseteq Values(g, loc) /\ n \in Values(g, loc)
  <2>1. chunk.type # "node"
    BY <1>3, <1>7 DEF TypedNew
  <2> QED
    BY <2>1, <1>4, JoinsFacts
<1>11. RegistersKnown(g, loc, Released, d)
  <2>1. d.regs = c.regs
    BY <1>3 DEF TypedNew
  <2>2. DOMAIN heap \subseteq DOMAIN g /\ \A i \in DOMAIN heap : g[i].type = heap[i].type
    BY <1>9
  <2> QED
    BY <1>1, <1>10, <2>1, <2>2, RegistersGrow
<1>12. \A e \in d.loc : e[1] = now.x /\ Means(g, n, e[2])
  <2> SUFFICES ASSUME NEW e \in d.loc PROVE e[1] = now.x /\ Means(g, n, e[2])
    OBVIOUS
  <2>1. e = <<now.x, now.p>> /\ now.p \in {"list", "integer", "symbol", "escaped"}
    BY <1>3 DEF TypedNew
  <2>2. g[n].type = now.p
    BY <1>7, <1>9
  <2> QED
    BY <2>1, <2>2 DEF Means, IsA
<1>13. Forgets(d) /\ now.x \notin Stacks
  BY <1>3 DEF TypedNew, OwnLocal
<1>14. \E p : Ready(p, d)' /\ DOMAIN heap' \subseteq DOMAIN g /\ ~ allocating'
  <2> DEFINE m == Assigned(now.x, n)
             x == now.x
  <2>1. /\ m = Assigned(x, n) /\ x \notin Stacks /\ n \in Values(g, loc)
        /\ \A e \in d.loc : e[1] = x /\ Means(g, n, e[2])
    BY <1>10, <1>12, <1>13
  <2>2. Finish(g, m, Released, bindings)
    BY <1>6
  <2> HIDE DEF m, x
  <2> QED
    BY <1>1, <1>2, <1>8, <1>11, <1>13, <2>1, <2>2, FilledReady
<1> QED
  BY <1>9, <1>14

(* sinavm_new_block *)
LEMMA NewBlockReady ==
  ASSUME NEW o, NEW c, Sane(heap, loc, registers, bindings, o), Waits(heap, loc, registers, c, todo),
         NEW n, n \in Nat, n \notin DOMAIN heap, NewBlockChunk(n)
  PROVE  \E q, d : Ready(q, d)' /\ DOMAIN heap' \subseteq DOMAIN heap \cup {n} /\ ~ allocating'
<1> DEFINE code == HeldAt(1)
           chunk == [type |-> "block", a |-> code, b |-> heap[code].a]
           g == With(heap, n, chunk)
           q == Belongs(g, o, n, NULL)
<1>1. /\ todo # <<>> /\ \E d : Leads(c, d)
      /\ RegistersKnown(heap, loc, Released, c)
      /\ DOMAIN loc = Stacks /\ loc["ds"] # NULL /\ loc["cs"] # NULL
      /\ now.op = "new_block" => code \in Lists(heap) \cap Values(heap, loc)
  BY WaitingFacts
<1>2. PICK d : Leads(c, d)
  BY <1>1
<1>3. TypedNewBlock(Literal, now, c, d) /\ code \in Lists(heap) \cap Values(heap, loc)
  <2>1. now.op = "new_block"
    BY DEF NewBlockChunk, Waiting
  <2> QED
    BY <1>1, <1>2, <2>1, TypedAs DEF Leads
<1>4. Joins(g, heap, n, chunk)
  <2> HIDE DEF chunk
  <2> QED
    BY InFront
<1>5. Finish(g, Assigned(now.x, n), Released, bindings)
  BY DEF NewBlockChunk
<1> HIDE DEF code
<1>6. Fitting(heap, loc, chunk)
  <2>1. heap[code].a \in OrNull(Nodes(heap))
    BY <1>3 DEF Sane, Words
  <2> QED
    BY <1>3, <2>1 DEF Fitting, Record, Types
<1>7. chunk.type = "block"
  OBVIOUS
<1> HIDE DEF g, chunk
<1>8. Sane(g, loc, registers, bindings, q)
  BY <1>4, <1>6, AddedSane
<1> HIDE DEF q
<1>9. DOMAIN g = DOMAIN heap \cup {n} /\ g[n] = chunk /\ \A i \in DOMAIN heap : g[i] = heap[i]
  BY <1>4 DEF Joins
<1>10. Values(heap, loc) \subseteq Values(g, loc) /\ n \in Values(g, loc)
  BY <1>4, <1>7, JoinsFacts
<1>11. RegistersKnown(g, loc, Released, d)
  <2>1. d.regs = c.regs
    BY <1>3 DEF TypedNewBlock
  <2>2. DOMAIN heap \subseteq DOMAIN g /\ \A i \in DOMAIN heap : g[i].type = heap[i].type
    BY <1>9
  <2> QED
    BY <1>1, <1>10, <2>1, <2>2, RegistersGrow
<1>12. \A e \in d.loc : e[1] = now.x /\ Means(g, n, e[2])
  <2> SUFFICES ASSUME NEW e \in d.loc PROVE e[1] = now.x /\ Means(g, n, e[2])
    OBVIOUS
  <2>1. e = <<now.x, "block">>
    BY <1>3 DEF TypedNewBlock
  <2>2. g[n].type = "block"
    BY <1>7, <1>9
  <2> QED
    BY <2>1, <2>2 DEF Means, IsA
<1>13. Forgets(d) /\ now.x \notin Stacks
  BY <1>3 DEF TypedNewBlock, OwnLocal
<1>14. \E p : Ready(p, d)' /\ DOMAIN heap' \subseteq DOMAIN g /\ ~ allocating'
  <2> DEFINE m == Assigned(now.x, n)
             x == now.x
  <2>1. /\ m = Assigned(x, n) /\ x \notin Stacks /\ n \in Values(g, loc)
        /\ \A e \in d.loc : e[1] = x /\ Means(g, n, e[2])
    BY <1>10, <1>12, <1>13
  <2>2. Finish(g, m, Released, bindings)
    BY <1>5
  <2> HIDE DEF m, x
  <2> QED
    BY <1>1, <1>2, <1>8, <1>11, <1>13, <2>1, <2>2, FilledReady
<1> QED
  BY <1>9, <1>14

(* A list has been pushed to: what is known then. *)
LEMMA PushedReady ==
  ASSUME NEW o, NEW c, Sane(heap, loc, registers, bindings, o), Waits(heap, loc, registers, c, todo),
         now.op \in Pushes,
         NEW g, NEW q, Sane(g, loc, registers, bindings, q),
         DOMAIN heap \subseteq DOMAIN g, \A i \in DOMAIN heap : g[i].type = heap[i].type,
         NEW m, m = IF now.v = 1 THEN Assigned(now.p, HeldAt(1)) ELSE loc,
         Finish(g, m, Released, bindings)
  PROVE  \E p, d : Ready(p, d)' /\ DOMAIN heap' \subseteq DOMAIN g /\ ~ allocating'
<1> DEFINE list == HeldAt(1)
<1>1. /\ todo # <<>> /\ \E d : Leads(c, d)
      /\ RegistersKnown(heap, loc, Released, c)
      /\ DOMAIN loc = Stacks /\ loc["ds"] # NULL /\ loc["cs"] # NULL
      /\ list \in Lists(heap) /\ (now.p \notin Stacks => list \in Values(heap, loc))
  BY WaitingFacts
<1>2. PICK d : Leads(c, d)
  BY <1>1
<1>3. TypedPush(now, c, d)
  BY <1>2, TypedAs DEF Leads
<1> HIDE DEF list
<1>4. Values(heap, loc) \subseteq Values(g, loc)
  BY DEF Values
<1>5. RegistersKnown(g, loc, Released, d)
  <2>1. d.regs = c.regs
    BY <1>3 DEF TypedPush
  <2> QED
    BY <1>1, <1>4, <2>1, RegistersGrow
<1>6. Forgets(d)
  BY <1>3 DEF TypedPush
<1>7. \A e \in d.loc : e[1] = now.p /\ e[2] = "list" /\ now.v = 1
  BY <1>3 DEF TypedPush
<1>8. \/ m = loc /\ d.loc = {}
      \/ \E x, i : /\ m = Assigned(x, i) /\ x \notin Stacks /\ i \in Values(g, loc)
                   /\ \A e \in d.loc : e[1] = x /\ Means(g, i, e[2])
  <2>1. CASE now.v = 1
    <3> DEFINE x == now.p
    <3>1. x \notin Stacks
      BY <1>3, <2>1 DEF TypedPush
    <3>2. list \in Values(g, loc) /\ g[list].type = "list"
      BY <1>1, <1>4, <3>1 DEF Lists
    <3>3. m = Assigned(x, list)
      BY <2>1 DEF list
    <3>4. \A e \in d.loc : e[1] = x /\ Means(g, list, e[2])
      BY <1>7, <3>2 DEF Means, IsA
    <3> HIDE DEF x
    <3> QED
      BY <3>1, <3>2, <3>3, <3>4
  <2>2. CASE now.v # 1
    BY <1>7, <2>2
  <2> QED
    BY <2>1, <2>2
<1> QED
  BY <1>1, <1>2, <1>5, <1>6, <1>8, FilledReady

(* The heap with the new node, before a list refers to it *)
LEMMA NodeJoins ==
  ASSUME NEW o, NEW c, Sane(heap, loc, registers, bindings, o), Waits(heap, loc, registers, c, todo),
         now.op \in Pushes, NEW n, n \in Nat, n \notin DOMAIN heap,
         NEW b, b \in OrNull(Nodes(heap)), NEW node, node = [type |-> "node", a |-> HeldAt(2), b |-> b],
         NEW g, g = With(heap, n, node)
  PROVE  /\ Sane(g, loc, registers, bindings, Belongs(g, o, n, NULL))
         /\ HeldAt(1) \in Lists(g) /\ HeldAt(1) \in Lists(heap) /\ n \in Nodes(g) /\ HeldAt(1) # n
         /\ Belongs(g, o, n, NULL)[n] = NULL
         /\ HeldAt(1) = loc["cs"] => g[g[n].a].type = "block"
         /\ DOMAIN g = DOMAIN heap \cup {n} /\ g[n] = node /\ \A i \in DOMAIN heap : g[i] = heap[i]
         /\ Records(g) /\ loc["ds"] # NULL /\ loc["cs"] # NULL
<1> DEFINE list == HeldAt(1)
           item == HeldAt(2)
<1>1. /\ list \in Lists(heap) /\ item \in Values(heap, loc)
      /\ IF now.p \in Stacks THEN list = loc[now.p] ELSE list \in Values(heap, loc)
      /\ now.p = "cs" => heap[item].type = "block"
      /\ loc["ds"] # NULL /\ loc["cs"] # NULL
  BY WaitingFacts
<1>2. list = loc["cs"] => heap[item].type = "block"
  <2>1. loc["ds"] = loc["cs"] => loc["ds"] = NULL
    BY DEF Sane, Rooted
  <2> QED
    BY <1>1, <2>1 DEF Stacks, Values
<1>3. node = [type |-> "node", a |-> item, b |-> b]
  OBVIOUS
<1> HIDE DEF list, item
<1>4. Joins(g, heap, n, node)
  BY InFront
<1>5. Fitting(heap, loc, node)
  BY <1>1, <1>3 DEF Fitting, Record, Types
<1>6. Sane(g, loc, registers, bindings, Belongs(g, o, n, NULL))
  BY <1>4, <1>5, AddedSane
<1>7. DOMAIN g = DOMAIN heap \cup {n} /\ g[n] = node /\ \A i \in DOMAIN heap : g[i] = heap[i]
  BY <1>4 DEF Joins
<1>8. list \in Lists(g) /\ n \in Nodes(g) /\ list # n /\ item \in DOMAIN heap
  BY <1>1, <1>3, <1>7 DEF Lists, Nodes, Values
<1>9. list = loc["cs"] => g[g[n].a].type = "block"
  BY <1>2, <1>3, <1>7, <1>8
<1>10. Belongs(g, o, n, NULL)[n] = NULL
  BY <1>7 DEF Belongs
<1>11. Records(g)
  BY <1>6 DEF Records, Sane, Words
<1> QED
  BY <1>1, <1>6, <1>7, <1>8, <1>9, <1>10, <1>11 DEF list

(* sinavm_push_front *)
LEMMA FrontReady ==
  ASSUME NEW o, NEW c, Sane(heap, loc, registers, bindings, o), Waits(heap, loc, registers, c, todo),
         NEW n, n \in Nat, n \notin DOMAIN heap, LinkFront(n)
  PROVE  \E q, d : Ready(q, d)' /\ DOMAIN heap' \subseteq DOMAIN heap \cup {n} /\ ~ allocating'
<1> DEFINE list == HeldAt(1)
           node == [type |-> "node", a |-> HeldAt(2), b |-> heap[list].a]
           m == IF now.v = 1 THEN Assigned(now.p, HeldAt(1)) ELSE loc
           g == With(heap, n, node)
           h == [heap EXCEPT ![list].a = n, ![list].b = IF @ = NULL THEN n ELSE @]
           k == With(h, n, node)
           q == Belongs(g, o, n, NULL)
           p == Belongs(g, q, n, list)
<1>1. now.op = "push_front" /\ now.op \in Pushes
  BY DEF LinkFront, Waiting, Pushes
<1>2. Finish(k, m, Released, bindings)
  BY DEF LinkFront, Linked
<1>3. list \in Lists(heap)
  BY <1>1, WaitingFacts
<1>4. heap[list].a \in OrNull(Nodes(heap))
  BY <1>3 DEF Sane, Words
<1>5. /\ Sane(g, loc, registers, bindings, q)
      /\ list \in Lists(g) /\ n \in Nodes(g) /\ list # n /\ q[n] = NULL
      /\ list = loc["cs"] => g[g[n].a].type = "block"
      /\ DOMAIN g = DOMAIN heap \cup {n} /\ g[n] = node /\ \A i \in DOMAIN heap : g[i] = heap[i]
      /\ Records(g)
  <2> DEFINE b == heap[list].a
  <2>1. b \in OrNull(Nodes(heap)) /\ node = [type |-> "node", a |-> HeldAt(2), b |-> b]
    BY <1>4
  <2> HIDE DEF b, node
  <2> QED
    BY <1>1, <2>1, NodeJoins
<1>6. node.b = heap[list].a /\ node = Record(node)
  BY DEF Record
<1>7. Records(heap) /\ list \in DOMAIN heap
  BY <1>3 DEF Records, Lists, Sane, Words
<1>8. /\ DOMAIN k = DOMAIN g /\ k[n] = node
      /\ \A i \in DOMAIN heap : i # list => k[i] = heap[i]
      /\ k[list] = Record(k[list]) /\ k[list].type = heap[list].type
      /\ k[list].a = n /\ k[list].b = IF heap[list].b = NULL THEN n ELSE heap[list].b
  <2> HIDE DEF node, list
  <2>1. DOMAIN h = DOMAIN heap /\ \A i \in DOMAIN heap : i # list => h[i] = heap[i]
    OBVIOUS
  <2>2. /\ h[list] = Record(h[list]) /\ h[list].type = heap[list].type
        /\ h[list].a = n /\ h[list].b = IF heap[list].b = NULL THEN n ELSE heap[list].b
    <3>1. heap[list] = [type |-> heap[list].type, a |-> heap[list].a, b |-> heap[list].b]
      BY <1>7 DEF Records, Record
    <3>2. h[list] = [type |-> heap[list].type, a |-> n, b |-> IF heap[list].b = NULL THEN n ELSE heap[list].b]
      BY <1>7, <3>1
    <3> QED
      <4> DEFINE y == h[list]
      <4>1. y = [type |-> heap[list].type, a |-> n, b |-> IF heap[list].b = NULL THEN n ELSE heap[list].b]
        BY <3>2
      <4> HIDE DEF y, h
      <4>2. /\ y = Record(y) /\ y.type = heap[list].type
            /\ y.a = n /\ y.b = IF heap[list].b = NULL THEN n ELSE heap[list].b
        BY <4>1 DEF Record
      <4> QED
        BY <4>2 DEF y
  <2> HIDE DEF h
  <2>3. \A i \in DOMAIN heap : k[i] = h[i]
    BY <2>1 DEF With
  <2>4. DOMAIN k = DOMAIN g /\ k[n] = node
    BY <1>5, <2>1 DEF With
  <2> QED
    BY <1>7, <2>1, <2>2, <2>3, <2>4
<1> HIDE DEF node, k, g, m, q
<1>9. SameTypes(k, g) /\ \A i \in DOMAIN g : i # list => k[i] = g[i]
  BY <1>5, <1>6, <1>7, <1>8 DEF SameTypes, Records
<1>10. k[list].a = n /\ k[list].b = IF g[list].b = NULL THEN n ELSE g[list].b
  BY <1>5, <1>7, <1>8
<1>11. g[n].b = g[list].a
  BY <1>5, <1>6, <1>7
<1> HIDE DEF list
<1>12. Sane(k, loc, registers, bindings, p)
  BY <1>5, <1>9, <1>10, <1>11, FrontSane
<1>13. DOMAIN heap \subseteq DOMAIN k /\ \A i \in DOMAIN heap : k[i].type = heap[i].type
  BY <1>5, <1>8
<1> HIDE DEF p
<1>14. \E y, d : Ready(y, d)' /\ DOMAIN heap' \subseteq DOMAIN k /\ ~ allocating'
  BY <1>1, <1>2, <1>12, <1>13, PushedReady DEF m
<1> QED
  BY <1>5, <1>8, <1>14

(* sinavm_push_back *)
LEMMA BackReady ==
  ASSUME NEW o, NEW c, Sane(heap, loc, registers, bindings, o), Waits(heap, loc, registers, c, todo),
         NEW n, n \in Nat, n \notin DOMAIN heap, LinkBack(n)
  PROVE  \E q, d : Ready(q, d)' /\ DOMAIN heap' \subseteq DOMAIN heap \cup {n} /\ ~ allocating'
<1> DEFINE list == HeldAt(1)
           node == [type |-> "node", a |-> HeldAt(2), b |-> NULL]
           m == IF now.v = 1 THEN Assigned(now.p, HeldAt(1)) ELSE loc
           g == With(heap, n, node)
           h == IF heap[list].a = NULL
                THEN [heap EXCEPT ![list].a = n, ![list].b = n]
                ELSE [heap EXCEPT ![heap[list].b].b = n, ![list].b = n]
           k == With(h, n, node)
           q == Belongs(g, o, n, NULL)
           p == Belongs(g, q, n, list)
           last == heap[list].b
<1>1. now.op = "push_back" /\ now.op \in Pushes
  BY DEF LinkBack, Waiting, Pushes
<1>2. Finish(k, m, Released, bindings)
  BY DEF LinkBack, Linked
<1>3. list \in Lists(heap)
  BY <1>1, WaitingFacts
<1>4. heap[list].a # NULL => last \in Nodes(heap) /\ last \in DOMAIN heap /\ last # list /\ last # n
  BY <1>3 DEF Sane, Words, Owned, OrNull, Nodes, Lists
<1>5. /\ Sane(g, loc, registers, bindings, q)
      /\ list \in Lists(g) /\ n \in Nodes(g) /\ list # n /\ q[n] = NULL
      /\ list = loc["cs"] => g[g[n].a].type = "block"
      /\ DOMAIN g = DOMAIN heap \cup {n} /\ g[n] = node /\ \A i \in DOMAIN heap : g[i] = heap[i]
      /\ Records(g)
  <2>1. PICK b : b = NULL
    OBVIOUS
  <2>2. b \in OrNull(Nodes(heap)) /\ node = [type |-> "node", a |-> HeldAt(2), b |-> b]
    BY <2>1 DEF OrNull
  <2>3. PICK nn : nn = node
    OBVIOUS
  <2>4. nn = [type |-> "node", a |-> HeldAt(2), b |-> b]
    BY ONLY <2>2, <2>3
  <2>5. PICK gg : gg = g
    OBVIOUS
  <2>6. gg = With(heap, n, nn)
    BY ONLY <2>3, <2>5
  <2>7. b \in OrNull(Nodes(heap))
    BY ONLY <2>2
  <2> HIDE DEF node, g, list
  <2>8. /\ Sane(heap, loc, registers, bindings, o) /\ Waits(heap, loc, registers, c, todo)
        /\ now.op \in Pushes /\ n \in Nat /\ n \notin DOMAIN heap
    BY <1>1
  <2>9. /\ Sane(gg, loc, registers, bindings, Belongs(gg, o, n, NULL))
        /\ HeldAt(1) \in Lists(gg) /\ HeldAt(1) \in Lists(heap) /\ n \in Nodes(gg) /\ HeldAt(1) # n
        /\ Belongs(gg, o, n, NULL)[n] = NULL
        /\ HeldAt(1) = loc["cs"] => gg[gg[n].a].type = "block"
        /\ DOMAIN gg = DOMAIN heap \cup {n} /\ gg[n] = nn /\ \A i \in DOMAIN heap : gg[i] = heap[i]
        /\ Records(gg)
    BY ONLY <2>4, <2>6, <2>7, <2>8, NodeJoins
  <2> QED
    BY <2>3, <2>5, <2>9 DEF list
<1>6. node.b = NULL /\ node = Record(node)
  BY DEF Record
<1>7. Records(heap) /\ list \in DOMAIN heap
  BY <1>3 DEF Records, Lists, Sane, Words
<1>8. /\ DOMAIN k = DOMAIN g /\ k[n] = node
      /\ \A i \in DOMAIN heap : i # list /\ (heap[list].a # NULL => i # last) => k[i] = heap[i]
      /\ k[list] = Record(k[list]) /\ k[list].type = heap[list].type
      /\ k[list].b = n /\ k[list].a = IF heap[list].a = NULL THEN n ELSE heap[list].a
      /\ heap[list].a # NULL => /\ k[last] = Record(k[last]) /\ k[last].type = heap[last].type
                                /\ k[last].a = heap[last].a /\ k[last].b = n
  <2> HIDE DEF node, list
  <2> DEFINE onto(y, a, b) == y = [type |-> heap[list].type, a |-> a, b |-> b]
  <2>1. /\ DOMAIN h = DOMAIN heap
        /\ \A i \in DOMAIN heap : i # list /\ (heap[list].a # NULL => i # last) => h[i] = heap[i]
    <3>1. CASE heap[list].a = NULL
      BY <3>1
    <3>2. CASE heap[list].a # NULL
      BY <3>2
    <3> QED
      BY <3>1, <3>2
  <2>2. h[list] = [type |-> heap[list].type, a |-> IF heap[list].a = NULL THEN n ELSE heap[list].a, b |-> n]
    <3>1. heap[list] = [type |-> heap[list].type, a |-> heap[list].a, b |-> heap[list].b]
      BY <1>7 DEF Records, Record
    <3>2. CASE heap[list].a = NULL
      BY <1>7, <3>1, <3>2
    <3>3. CASE heap[list].a # NULL
      <4> DEFINE f == [heap EXCEPT ![last].b = n]
      <4>1. f[list] = heap[list] /\ DOMAIN f = DOMAIN heap
        BY <1>4, <1>7, <3>3
      <4>2. h = [f EXCEPT ![list].b = n]
        BY <3>3
      <4> HIDE DEF f, h
      <4> QED
        BY <1>7, <3>1, <3>3, <4>1, <4>2
    <3> QED
      BY <3>2, <3>3
  <2>3. ASSUME heap[list].a # NULL
        PROVE  h[last] = [type |-> heap[last].type, a |-> heap[last].a, b |-> n]
    <3>1. heap[last] = [type |-> heap[last].type, a |-> heap[last].a, b |-> heap[last].b]
      BY <1>4, <1>7, <2>3 DEF Records, Record
    <3> DEFINE f == [heap EXCEPT ![last].b = n]
    <3>2. f[last] = [type |-> heap[last].type, a |-> heap[last].a, b |-> n] /\ DOMAIN f = DOMAIN heap
      BY <1>4, <2>3, <3>1
    <3>3. h = [f EXCEPT ![list].b = n]
      BY <2>3
    <3> HIDE DEF f, h
    <3> QED
      BY <1>4, <1>7, <2>3, <3>2, <3>3
  <2> HIDE DEF h
  <2>4. \A i \in DOMAIN heap : k[i] = h[i]
    BY <2>1 DEF With
  <2>5. DOMAIN k = DOMAIN g /\ k[n] = node
    BY <1>5, <2>1 DEF With
  <2>6. /\ k[list] = Record(k[list]) /\ k[list].type = heap[list].type
        /\ k[list].b = n /\ k[list].a = IF heap[list].a = NULL THEN n ELSE heap[list].a
    <3> DEFINE y == k[list]
    <3>1. y = [type |-> heap[list].type, a |-> IF heap[list].a = NULL THEN n ELSE heap[list].a, b |-> n]
      BY <1>7, <2>2, <2>4
    <3> HIDE DEF y, k
    <3>2. /\ y = Record(y) /\ y.type = heap[list].type
          /\ y.b = n /\ y.a = IF heap[list].a = NULL THEN n ELSE heap[list].a
      BY <3>1 DEF Record
    <3> QED
      BY <3>2 DEF y
  <2>7. ASSUME heap[list].a # NULL
        PROVE  /\ k[last] = Record(k[last]) /\ k[last].type = heap[last].type
               /\ k[last].a = heap[last].a /\ k[last].b = n
    <3> DEFINE y == k[last]
    <3>1. y = [type |-> heap[last].type, a |-> heap[last].a, b |-> n]
      BY <1>4, <2>3, <2>4, <2>7
    <3> HIDE DEF y, k
    <3>2. y = Record(y) /\ y.type = heap[last].type /\ y.a = heap[last].a /\ y.b = n
      BY <3>1 DEF Record
    <3> QED
      BY <3>2 DEF y
  <2> HIDE DEF k
  <2> QED
    BY <2>1, <2>4, <2>5, <2>6, <2>7
<1> HIDE DEF node, k, g, m, q, last
<1>9. SameTypes(k, g) /\ \A i \in DOMAIN g : i # list /\ (g[list].a # NULL => i # g[list].b) => k[i] = g[i]
  <2>1. g[list].a = heap[list].a /\ g[list].b = last
    BY <1>5, <1>7 DEF last
  <2>2. \A i \in DOMAIN g : i # list /\ (g[list].a # NULL => i # last) => k[i] = g[i]
    BY <1>5, <1>8, <2>1
  <2>3. \A i \in DOMAIN g : k[i].type = g[i].type /\ k[i] = Record(k[i])
    BY <1>4, <1>5, <1>6, <1>7, <1>8 DEF Records
  <2> QED
    BY <1>8, <2>1, <2>2, <2>3 DEF SameTypes
<1>10. /\ k[list].b = n /\ k[list].a = IF g[list].a = NULL THEN n ELSE g[list].a
       /\ g[list].a # NULL => k[g[list].b].a = g[g[list].b].a /\ k[g[list].b].b = n
  BY <1>4, <1>5, <1>7, <1>8 DEF last
<1>11. g[n].b = NULL
  BY <1>5, <1>6
<1> HIDE DEF list
<1>12. Sane(k, loc, registers, bindings, p)
  BY <1>5, <1>9, <1>10, <1>11, BackSane
<1>13. DOMAIN heap \subseteq DOMAIN k /\ \A i \in DOMAIN heap : k[i].type = heap[i].type
  <2>1. \A i \in DOMAIN heap : k[i].type = g[i].type
    BY <1>5, <1>9 DEF SameTypes
  <2> QED
    BY <1>5, <1>8, <2>1
<1> HIDE DEF p
<1>14. \E y, d : Ready(y, d)' /\ DOMAIN heap' \subseteq DOMAIN k /\ ~ allocating'
  BY <1>1, <1>2, <1>12, <1>13, PushedReady DEF m
<1> QED
  BY <1>5, <1>8, <1>14

(* Whatever it was that waited for the chunk *)
LEMMA FillsReady ==
  ASSUME NEW o, NEW c, Sane(heap, loc, registers, bindings, o), Waits(heap, loc, registers, c, todo),
         NEW n, n \in Nat, n \notin DOMAIN heap, Fills(n)
  PROVE  \E q, d : Ready(q, d)' /\ DOMAIN heap' \subseteq DOMAIN heap \cup {n} /\ ~ allocating'
<1>1. CASE NewChunk(n)
  BY <1>1, NewReady
<1>2. CASE NewBlockChunk(n)
  BY <1>2, NewBlockReady
<1>3. CASE LinkFront(n)
  BY <1>3, FrontReady
<1>4. CASE LinkBack(n)
  BY <1>4, BackReady
<1> QED
  BY <1>1, <1>2, <1>3, <1>4 DEF Fills

(* Whatever it is that does not need a chunk *)
LEMMA OperationReady ==
  ASSUME NEW o, NEW c, Ready(o, c), Pop \/ Fetch \/ Keep \/ BindSymbol \/ Rewinds
  PROVE  \E q, d : Ready(q, d)' /\ DOMAIN heap' \subseteq DOMAIN heap /\ ~ allocating'
<1>1. CASE Pop
  BY <1>1, DropReady, PopReady
<1>2. CASE Fetch
  BY <1>2, FetchReady
<1>3. CASE Keep
  BY <1>3, KeepReady
<1>4. CASE BindSymbol
  BY <1>4, BindReady
<1>5. CASE Rewinds
  BY <1>5, RewindReady
<1> QED
  BY <1>1, <1>2, <1>3, <1>4, <1>5

-----------------------------------------------------------------------------
(* The program calls. *)

(* What the interpreter has checked is known. *)
LEMMA FitsKnown ==
  ASSUME NEW h, NEW l, NEW name, FitsIn(h, l.ds, 0, name),
         Expects(name) \in Seq(Kinds), Len(Expects(name)) \in 0 .. 3
  PROVE  KnowsItems(h, l, Context({}, <<>>, Expects(name)))
<1> DEFINE t == Expects(name)
           item(k) == NodeOf(h, l.ds, k)
           item1 == h[l.ds].a
           item2 == h[item1].b
           item3 == h[item2].b
<1>1. \A k \in DOMAIN t : item(k) # NULL /\ IsA(h, h[item(k)].a, t[k])
  <2>1. \A k \in DOMAIN t : 0 + k = k
    OBVIOUS
  <2> QED
    BY <2>1 DEF FitsIn
<1>2. DOMAIN t = 1 .. Len(t)
  OBVIOUS
<1>3. Len(t) >= 1 => KnowsItem(h, item1, t[1])
  BY <1>1, <1>2, NodeOf1 DEF KnowsItem
<1>4. Len(t) >= 2 => KnowsItem(h, item2, t[2])
  BY <1>1, <1>2, <1>3, NodeOf2 DEF KnowsItem
<1>5. Len(t) >= 3 => KnowsItem(h, item3, t[3])
  BY <1>1, <1>2, <1>3, <1>4, NodeOf3, SMTT(30) DEF KnowsItem
<1>6. Context({}, <<>>, t).top = t
  BY DEF Context
<1> QED
  BY <1>3, <1>4, <1>5, <1>6 DEF KnowsItems

(* A program that starts on no locals and no registers *)
Fresh(c) == c.loc = {} /\ c.regs = <<>>

LEMMA FreshKnows ==
  ASSUME NEW h, NEW l, NEW b, NEW d, NEW ops, Certified(Literal, ops, d), Fresh(d),
         l["ds"] # NULL, l["cs"] # NULL,
         KnowsItems(h, l, d), KnowsBound(h, l, b, d), d.code => h[l["cs"]].a # NULL
  PROVE  Knows(h, l, <<>>, b, d, ops)
<1>1. Named(d)
  BY DEF Fresh, Named, Names
<1>2. KnowsLocals(h, l, d, ops)
  BY DEF Fresh, KnowsLocals
<1>3. KnowsRegisters(h, l, <<>>, d) /\ Len(<<>>) = Len(d.regs)
  BY DEF Fresh, KnowsRegisters
<1> QED
  BY <1>1, <1>2, <1>3 DEF Knows

(* The context a builtin, an escaped symbol or a bound symbol starts in *)
LEMMA StatementKnown ==
  ASSUME NEW o, NEW c, Ready(o, c), NEW name, name \in Calls, NEW ops, ops \in Statements(name)
  PROVE  \E d : /\ Certified(Literal, ops, d) /\ Fresh(d)
                /\ KnowsItems(heap, loc, d) /\ KnowsBound(heap, loc, bindings, d)
                /\ d.code => heap[loc["cs"]].a # NULL
<1>1. ASSUME NEW s \in Symbol, ops = escaped_symbol(s)
      PROVE  \E d : /\ Certified(Literal, ops, d) /\ Fresh(d)
                    /\ KnowsItems(heap, loc, d) /\ KnowsBound(heap, loc, bindings, d)
                    /\ d.code => heap[loc["cs"]].a # NULL
  <2> DEFINE d == Context({}, <<>>, <<>>)
  <2>1. Certified(Literal, ops, d)
    BY <1>1, EscapedTyped DEF Literal
  <2>2. Fresh(d) /\ d.top = <<>> /\ d.bound = {} /\ ~ d.code
    BY DEF Context, Fresh
  <2> HIDE DEF d
  <2>3. KnowsItems(heap, loc, d) /\ KnowsBound(heap, loc, bindings, d)
    BY <2>2 DEF KnowsItems, KnowsBound
  <2> QED
    BY <2>1, <2>2, <2>3
<1>2. CASE name = "escaped-symbol"
  BY <1>1, <1>2 DEF Statements
<1>3. CASE name = "symbol"
  <2>1. PICK s \in Symbol : ops \in BoundIn(heap, bindings, MeantIn(heap, bindings, s))
    BY <1>3 DEF Statements
  <2> DEFINE m == MeantIn(heap, bindings, s)
  <2>2. bindings \in [Symbol -> OrNull(Values(heap, loc))] /\ Words(heap, loc)
    BY DEF Ready, Sane, Rooted
  <2>3. m \in Symbol
    <3>1. DOMAIN bindings = Symbol /\ \A t \in Symbol : bindings[t] # NULL /\ heap[bindings[t]].type = "symbol"
                                     => heap[bindings[t]].a \in Symbol
      BY <2>2 DEF Words, Values, OrNull
    <3> QED
      BY <3>1, MeantIsSymbol, SymbolAssumption
  <2>4. ops \in BoundIn(heap, bindings, m)
    BY <2>1
  <2> HIDE DEF m
  <2> DEFINE i == bindings[m]
  <2>5. i # NULL /\ heap[i].type # "symbol"
        /\ ops = CASE heap[i].type = "block"   -> symbol_block(m)
                   [] heap[i].type = "escaped" -> escaped_symbol(heap[i].a)
                   [] OTHER                    -> symbol_data(m)
    BY <2>4 DEF BoundIn
  <2>6. i \in Values(heap, loc) /\ (heap[i].type = "escaped" => heap[i].a \in Symbol)
    BY <2>2, <2>3, <2>5 DEF Words, Values, OrNull
  <2>7. ASSUME NEW kind \in {"any", "block"}, IsA(heap, i, kind),
               Certified(Literal, ops, Binding(m, kind))
        PROVE  \E d : /\ Certified(Literal, ops, d) /\ Fresh(d)
                      /\ KnowsItems(heap, loc, d) /\ KnowsBound(heap, loc, bindings, d)
                      /\ d.code => heap[loc["cs"]].a # NULL
    <3> DEFINE d == Binding(m, kind)
    <3>1. Fresh(d) /\ d.top = <<>> /\ d.bound = {<<m, kind>>} /\ ~ d.code
      BY DEF Binding, Fresh
    <3>2. Certified(Literal, ops, d)
      BY <2>7
    <3> HIDE DEF d
    <3>3. KnowsItems(heap, loc, d) /\ KnowsBound(heap, loc, bindings, d)
      BY <2>3, <2>6, <2>7, <3>1 DEF KnowsItems, KnowsBound
    <3> QED
      BY <3>1, <3>2, <3>3
  <2>8. CASE heap[i].type = "escaped"
    <3>1. heap[i].a \in Symbol /\ ops = escaped_symbol(heap[i].a)
      BY <2>5, <2>6, <2>8
    <3> QED
      BY <1>1, <3>1
  <2>9. CASE heap[i].type = "block"
    <3>1. IsA(heap, i, "block") /\ Certified(Literal, ops, Binding(m, "block"))
      BY <2>5, <2>9, SymbolBlockTyped DEF IsA
    <3> QED
      BY <2>7, <3>1
  <2>10. CASE heap[i].type \notin {"escaped", "block"}
    <3>1. IsA(heap, i, "any") /\ Certified(Literal, ops, Binding(m, "any"))
      BY <2>5, <2>10, SymbolDataTyped DEF IsA
    <3> QED
      BY <2>7, <3>1
  <2> QED
    BY <2>8, <2>9, <2>10
<1>4. CASE name \notin {"escaped-symbol", "symbol"}
  <2>1. /\ ops = Program(name) /\ FitsIn(heap, loc.ds, 0, name)
        /\ name \in {"break", "loop"} => ~ EmptyIn(heap, loc.cs)
    BY <1>4 DEF Statements
  <2>2. name \in (BuiltinFunctions \ {"if"}) \cup {"if-not", "if-block"}
    BY <1>4, CallsAssumption
  <2> DEFINE d == Start(name)
  <2>3. Certified(Literal, ops, d)
    BY <2>1, <2>2, BuiltinsFit
  <2>4. CASE name \in {"break", "loop"}
    <3>1. Fresh(d) /\ d.top = <<>> /\ d.bound = {}
      BY <2>4 DEF Start, InBlock, Fresh
    <3> HIDE DEF d
    <3>2. KnowsItems(heap, loc, d) /\ KnowsBound(heap, loc, bindings, d)
      BY <3>1 DEF KnowsItems, KnowsBound
    <3>3. heap[loc["cs"]].a # NULL
      <4>1. loc["cs"] \in Lists(heap)
        BY DEF Ready, Knows, Sane, Rooted, OrNull
      <4>2. heap[loc["cs"]].a = NULL <=> heap[loc["cs"]].b = NULL
        BY <4>1 DEF Ready, Sane, Owned
      <4> QED
        BY <2>1, <2>4, <4>2 DEF EmptyIn
    <3> QED
      BY <2>3, <3>1, <3>2, <3>3
  <2>5. CASE name \notin {"break", "loop"}
    <3>1. Expects(name) \in Seq(Kinds) /\ Len(Expects(name)) \in 0 .. 3
      BY ExpectsShort
    <3>2. d = Context({}, <<>>, Expects(name))
      BY <2>5 DEF Start
    <3>3. KnowsItems(heap, loc, d)
      BY <2>1, <3>1, <3>2, FitsKnown
    <3>4. Fresh(d) /\ d.bound = {} /\ ~ d.code
      BY <3>2 DEF Context, Fresh
    <3> HIDE DEF d
    <3> QED
      BY <2>3, <3>3, <3>4 DEF KnowsBound
  <2> QED
    BY <2>4, <2>5
<1> QED
  BY <1>2, <1>3, <1>4

LEMMA CallReady ==
  ASSUME NEW o, NEW c, Ready(o, c), Call
  PROVE  (\E d : Ready(o, d)') /\ UNCHANGED <<heap, allocating>>
<1>1. /\ todo = <<>> /\ UNCHANGED <<heap, loc, registers, bindings, allocating>>
      /\ \E name \in Calls : todo' \in Statements(name)
  BY DEF Call, CallOf, Idle
<1>2. registers = <<>>
  <2>1. c.regs = <<>>
    BY <1>1, CertifiedEnd DEF Ready, Knows
  <2>2. registers \in Seq(DOMAIN heap) /\ Len(registers) = 0
    BY <2>1 DEF Ready, Knows, Sane, Rooted
  <2> QED
    BY <2>2
<1>3. PICK ops : ops = todo'
  OBVIOUS
<1>4. PICK d : /\ Certified(Literal, ops, d) /\ Fresh(d)
               /\ KnowsItems(heap, loc, d) /\ KnowsBound(heap, loc, bindings, d)
               /\ d.code => heap[loc["cs"]].a # NULL
  BY <1>1, <1>3, StatementKnown
<1>5. Knows(heap, loc, registers, bindings, d, ops)
  BY <1>2, <1>4, FreshKnows DEF Ready, Knows
<1> QED
  BY <1>1, <1>3, <1>5 DEF Ready

-----------------------------------------------------------------------------
(* sinavm_initialize makes the stacks. *)

(* The first half of FinishReady *)
LEMMA FinishSane ==
  ASSUME NEW h, NEW l, NEW r, NEW b, Finish(h, l, r, b), NEW o, Sane(h, l, r, b, o)
  PROVE  \E q : Sane(heap, loc, registers, bindings, q)' /\ DOMAIN heap' \subseteq DOMAIN h
<1> DEFINE m == Locals(l, Tail(todo))
<1>1. /\ loc' = m /\ registers' = r /\ bindings' = b /\ heap' = Reachable(h, m, r, b)
  BY DEF Finish
<1>2. Sane(h, m, r, b, o)
  BY LocalsFewer
<1> HIDE DEF m
<1> PICK g : g = heap'
  OBVIOUS
<1>3. Part(g, h, m, r, b)
  BY <1>1, <1>2, ReachablePart
<1>4. PICK q : Sane(g, m, r, b, q)
  BY <1>2, <1>3, PartSane
<1>5. DOMAIN g \subseteq DOMAIN h
  BY <1>3 DEF Part
<1> QED
  BY <1>1, <1>4, <1>5

EmptyList == [type |-> "list", a |-> NULL, b |-> NULL]

(* A stack that was not there yet *)
LEMMA StackSane ==
  ASSUME NEW h, NEW l, NEW r, NEW b, NEW o, Sane(h, l, r, b, o),
         NEW x, x \in Stacks, l[x] = NULL,
         NEW n, NEW g, Joins(g, h, n, EmptyList), NEW m, m = WithLocal(l, x, n)
  PROVE  /\ \E q : Sane(g, m, r, b, q)
         /\ m[x] = n /\ n # NULL /\ DOMAIN m = DOMAIN l /\ \A y \in Stacks : y # x => m[y] = l[y]
<1> DEFINE q == Belongs(g, o, n, NULL)
<1>1. EmptyList = Record(EmptyList) /\ EmptyList.type = "list" /\ EmptyList.a = NULL /\ EmptyList.b = NULL
  BY DEF EmptyList, Record
<1> HIDE DEF EmptyList
<1>2. Fitting(h, l, EmptyList)
  BY <1>1 DEF Fitting, Types
<1>3. Sane(g, l, r, b, q)
  BY <1>2, AddedSane
<1>4. DOMAIN g = DOMAIN h \cup {n} /\ g[n] = EmptyList /\ \A i \in DOMAIN h : g[i] = h[i]
  BY DEF Joins
<1>5. /\ n \notin DOMAIN h /\ n # NULL
      /\ Nodes(g) = Nodes(h) /\ Lists(g) = Lists(h) \cup {n} /\ Values(h, l) \subseteq DOMAIN h
  BY <1>1, JoinsFacts DEF Joins, Values
<1>6. /\ Stacks \subseteq DOMAIN l /\ m[x] = n /\ DOMAIN m = DOMAIN l
      /\ \A y \in DOMAIN l : y # x => m[y] = l[y]
  BY DEF WithLocal, Sane, Rooted
<1>7. Words(h, l) /\ NULL \notin DOMAIN h /\ l["ds"] \in OrNull(Lists(h)) /\ l["cs"] \in OrNull(Lists(h))
  BY DEF Sane, Words, Rooted, NULL
<1>8. Values(h, l) \subseteq Values(g, m)
  BY <1>4, <1>5, <1>6, <1>7 DEF Values, Stacks
<1> HIDE DEF q
<1>9. Words(g, m)
  <2>1. IsFiniteSet(DOMAIN g) /\ DOMAIN g \subseteq Nat
    BY <1>3 DEF Sane, Words
  <2>2. \A i \in DOMAIN g : g[i] = Record(g[i]) /\ g[i].type \in Types
    BY <1>3 DEF Sane, Words
  <2>3. \A i \in Nodes(g) : g[i].a \in Values(g, m) /\ g[i].b \in OrNull(Nodes(g))
    <3> TAKE i \in Nodes(g)
    <3>1. i \in Nodes(h) /\ g[i] = h[i]
      BY <1>4, <1>5 DEF Nodes
    <3> QED
      BY <1>5, <1>7, <1>8, <3>1 DEF Words
  <2>4. \A i \in Lists(g) : g[i].a \in OrNull(Nodes(g)) /\ g[i].b \in OrNull(Nodes(g))
    BY <1>3 DEF Sane, Words
  <2>5. \A i \in DOMAIN g : g[i].type = "block" =>
          g[i].a \in Lists(g) \cap Values(g, m) /\ g[i].b \in OrNull(Nodes(g))
    <3> TAKE i \in DOMAIN g
    <3> HAVE g[i].type = "block"
    <3>1. i \in DOMAIN h /\ g[i] = h[i]
      BY <1>1, <1>4
    <3>2. h[i].a \in Lists(h) \cap Values(h, l) /\ h[i].b \in OrNull(Nodes(h))
      BY <1>7, <3>1 DEF Words
    <3> QED
      BY <1>5, <1>8, <3>1, <3>2
  <2>6. \A i \in DOMAIN g : g[i].type \in {"symbol", "escaped"} => g[i].a \in Symbol
    BY <1>3 DEF Sane, Words
  <2> QED
    BY <2>1, <2>2, <2>3, <2>4, <2>5, <2>6 DEF Words
<1>10. Rooted(g, m, r, b)
  <2>1. Stacks \subseteq DOMAIN m
    BY <1>6
  <2>2. m["ds"] \in OrNull(Lists(g)) /\ m["cs"] \in OrNull(Lists(g))
    BY <1>5, <1>6, <1>7 DEF Stacks, OrNull
  <2>3. m["ds"] = m["cs"] => m["ds"] = NULL
    BY <1>5, <1>6, <1>7 DEF Stacks, OrNull, Lists
  <2>4. \A y \in DOMAIN m \ Stacks : m[y] \in Values(g, m)
    BY <1>6, <1>8 DEF Sane, Rooted
  <2>5. b \in [Symbol -> OrNull(Values(g, m))]
    <3>1. b \in [Symbol -> OrNull(Values(h, l))]
      BY DEF Sane, Rooted
    <3>2. OrNull(Values(h, l)) \subseteq OrNull(Values(g, m))
      BY <1>8 DEF OrNull
    <3> QED
      BY <3>1, <3>2
  <2>6. r \in Seq(DOMAIN g)
    BY <1>3 DEF Sane, Rooted
  <2> QED
    BY <2>1, <2>2, <2>3, <2>4, <2>5, <2>6 DEF Rooted
<1>11. Owned(g, m, q)
  <2>1. \A k \in Nodes(g) : q[k] # n
    <3> TAKE k \in Nodes(g)
    <3>1. k \in Nodes(h) /\ k \in DOMAIN g /\ k # n
      BY <1>4, <1>5 DEF Nodes
    <3>2. q[k] = o[k] /\ o[k] \in OrNull(Lists(h))
      BY <3>1 DEF q, Belongs, Sane, Owned
    <3> QED
      BY <1>5, <3>2 DEF OrNull, Lists
  <2>2. \A k \in Nodes(g) : q[k] # NULL /\ q[k] = m["cs"] => g[g[k].a].type = "block"
    <3>1. \A k \in Nodes(g) : q[k] # NULL /\ q[k] = l["cs"] => g[g[k].a].type = "block"
      BY <1>3 DEF Sane, Owned
    <3> QED
      BY <1>6, <2>1, <3>1 DEF Stacks
  <2>3. /\ \A k \in Nodes(g) : q[k] \in OrNull(Lists(g))
        /\ \A k \in Lists(g) : g[k].a = NULL <=> g[k].b = NULL
        /\ \A k \in Lists(g) : g[k].a # NULL => q[g[k].a] = k /\ q[g[k].b] = k /\ g[g[k].b].b = NULL
        /\ \A k \in Nodes(g) : q[k] # NULL /\ g[k].b = NULL => k = g[q[k]].b
        /\ \A k \in Nodes(g) : q[k] # NULL /\ g[k].b # NULL => q[g[k].b] = q[k]
    BY <1>3 DEF Sane, Owned
  <2> QED
    BY <2>2, <2>3 DEF Owned
<1>12. AllEnd(g)
  BY <1>3 DEF Sane
<1> QED
  BY <1>5, <1>6, <1>9, <1>10, <1>11, <1>12 DEF Sane

LEMMA BootFacts ==
  ASSUME SetupFits
  PROVE  /\ Boot # <<>> /\ Head(Boot) = New("list", "cs", 0)
         /\ Tail(Boot) # <<>> /\ Head(Tail(Boot)) = New("list", "ds", 0)
         /\ Tail(Tail(Boot)) = Setup
<1>1. PICK T : Setup \in Seq(T)
  BY DEF SetupFits, Certified
<1>2. PICK o, p : o = New("list", "cs", 0) /\ p = New("list", "ds", 0)
  OBVIOUS
<1> DEFINE S == T \cup {o, p}
<1>3. Setup \in Seq(S) /\ Boot = <<o, p>> \o Setup
  BY <1>1, <1>2 DEF Boot
<1>4. o \in S /\ p \in S
  OBVIOUS
<1> HIDE DEF S
<1>5. <<o, p>> \in Seq(S) /\ Len(<<o, p>>) = 2
  BY <1>4
<1>6. /\ Boot \in Seq(S) /\ Len(Boot) = 2 + Len(Setup) /\ Boot[1] = o /\ Boot[2] = p
      /\ \A k \in 1 .. Len(Setup) : Boot[k + 2] = Setup[k]
  BY <1>3, <1>5
<1> HIDE DEF Boot
<1>7. /\ Boot # <<>> /\ Head(Boot) = o /\ Tail(Boot) \in Seq(S) /\ Len(Tail(Boot)) = 1 + Len(Setup)
      /\ \A k \in 1 .. Len(Tail(Boot)) : Tail(Boot)[k] = Boot[k + 1]
  <2>1. Len(Setup) \in Nat /\ Len(Boot) >= 2
    BY <1>3, <1>6
  <2>2. Boot # <<>>
    BY <1>6, <2>1
  <2> QED
    BY <1>6, <2>1, <2>2, TailFacts
<1>8. Tail(Boot) # <<>> /\ Head(Tail(Boot)) = p
  <2>1. Len(Setup) \in Nat
    BY <1>3
  <2>2. Tail(Boot) # <<>>
    <3> DEFINE t == Tail(Boot)
    <3>1. t \in Seq(S) /\ Len(t) = 1 + Len(Setup)
      BY <1>7
    <3> HIDE DEF t
    <3>2. t # <<>>
      BY <2>1, <3>1
    <3> QED
      BY <3>2 DEF t
  <2>3. Tail(Boot)[1] = p
    BY <1>6, <1>7, <2>1
  <2> QED
    BY <1>7, <2>2, <2>3, TailFacts
<1>9. Tail(Tail(Boot)) = Setup
  <2> DEFINE t == Tail(Boot)
  <2>1. Len(Setup) \in Nat /\ t \in Seq(S) /\ t # <<>> /\ Len(t) = 1 + Len(Setup)
    BY <1>3, <1>7, <1>8
  <2>2. \A k \in 1 .. Len(Setup) : t[k + 1] = Setup[k]
    <3> TAKE k \in 1 .. Len(Setup)
    <3>1. k + 1 \in 1 .. Len(t) /\ (k + 1) + 1 = k + 2
      BY <2>1
    <3>2. t[k + 1] = Boot[(k + 1) + 1]
      BY <1>7, <3>1
    <3> QED
      BY <1>6, <3>1, <3>2
  <2> HIDE DEF t
  <2>3. Tail(t) \in Seq(S) /\ Len(Tail(t)) = Len(Setup) /\ \A k \in 1 .. Len(Setup) : Tail(t)[k] = Setup[k]
    BY <2>1, <2>2, TailFacts
  <2>4. Tail(t) = Setup
    BY <1>3, <2>3
  <2> QED
    BY <2>4 DEF t
<1> QED
  BY <1>2, <1>7, <1>8, <1>9

(* Of the operations only Hold can be next. *)
LEMMA BootNew ==
  ASSUME SetupFits, Booting(loc, registers, todo)
  PROVE  /\ todo # <<>> /\ now.op = "new" /\ now.p = "list" /\ now.v = 0 /\ now.x \in Stacks
         /\ loc[now.x] = NULL /\ NewType = "list" /\ Held(now) = <<>> /\ Len(Held(now)) = 0
         /\ Result = {now.x}
<1>1. todo # <<>> /\ now = New("list", now.x, 0) /\ now.x \in Stacks /\ loc[now.x] = NULL
  <2>1. CASE todo = Boot /\ loc["cs"] = NULL
    <3>1. now = New("list", "cs", 0) /\ todo # <<>>
      BY <2>1, BootFacts DEF now
    <3>2. now.x = "cs"
      BY <3>1 DEF New
    <3> QED
      BY <2>1, <3>1, <3>2 DEF Stacks
  <2>2. CASE todo = Tail(Boot) /\ loc["cs"] # NULL
    <3>1. now = New("list", "ds", 0) /\ todo # <<>>
      BY <2>2, BootFacts DEF now
    <3>2. now.x = "ds" /\ loc["ds"] = NULL
      BY <3>1 DEF New, Booting
    <3> QED
      BY <3>1, <3>2 DEF Stacks
  <2> QED
    BY <2>1, <2>2 DEF Booting
<1>2. PICK o, x : now = o /\ o = New("list", x, 0)
  BY <1>1
<1>3. o.op = "new" /\ o.p = "list" /\ o.v = 0
  BY <1>2 DEF New
<1>4. Held(o) = <<>> /\ Len(Held(o)) = 0
  BY <1>3, HeldLength
<1>5. NewType = "list" /\ Result = {now.x}
  BY <1>2, <1>3 DEF NewType, Result
<1> QED
  BY <1>1, <1>2, <1>3, <1>4, <1>5

LEMMA BootHolds ==
  ASSUME SetupFits, NEW o, Sane(heap, loc, registers, bindings, o), Booting(loc, registers, todo), Hold
  PROVE  Sane(heap, loc', registers', bindings, o) /\ Booting(loc', registers', todo)
<1>1. /\ DOMAIN loc = Stacks /\ registers = <<>> /\ loc["ds"] = NULL
      /\ \/ todo = Boot /\ loc["cs"] = NULL
         \/ todo = Tail(Boot) /\ loc["cs"] # NULL
  BY DEF Booting
<1>2. Len(Held(now)) = 0 /\ Held(now) = <<>>
  BY BootNew
<1>3. registers' = <<>>
  <2>1. registers' = registers \o HeldValues
    BY DEF Hold, HeldValues
  <2>2. HeldValues = <<>>
    BY <1>2 DEF HeldValues
  <2> QED
    BY <1>1, <2>1, <2>2
<1>4. DOMAIN loc' = Stacks /\ \A x \in Stacks : loc'[x] = loc[x]
  <2> DEFINE l == [x \in (DOMAIN loc \ Result) \cup {"cs", "ds"} |-> loc[x]]
  <2>1. loc' = Locals(l, Tail(todo))
    BY DEF Hold
  <2>2. DOMAIN l = Stacks /\ \A x \in Stacks : l[x] = loc[x]
    BY <1>1 DEF Stacks
  <2> HIDE DEF l
  <2> QED
    BY <2>1, <2>2 DEF Locals, Stacks
<1>5. Booting(loc', registers', todo)
  BY <1>1, <1>3, <1>4 DEF Booting, Stacks
<1> PICK m : m = loc'
  OBVIOUS
<1>6. Sane(heap, m, <<>>, bindings, o)
  <2>1. Stacks \subseteq DOMAIN m /\ m["ds"] = loc["ds"] /\ m["cs"] = loc["cs"]
        /\ \A y \in DOMAIN m \ Stacks : m[y] \in Values(heap, loc)
    BY <1>4 DEF Stacks
  <2>2. <<>> \in Seq(DOMAIN heap) /\ bindings \in [Symbol -> OrNull(Values(heap, loc))]
    BY DEF Sane, Rooted
  <2> QED
    BY <2>1, <2>2, SaneLocals
<1> QED
  BY <1>3, <1>5, <1>6

LEMMA BootFilled ==
  ASSUME SetupFits, NEW o, Sane(heap, loc, registers, bindings, o), Booting(loc, registers, todo),
         NEW n, n \in Nat, n \notin DOMAIN heap, Fills(n)
  PROVE  \E q : /\ Sane(heap, loc, registers, bindings, q)'
                /\ Booting(loc, registers, todo)' \/ \E d : Ready(q, d)'
                /\ DOMAIN heap' \subseteq DOMAIN heap \cup {n} /\ ~ allocating'
<1> DEFINE x == now.x
           g == With(heap, n, EmptyList)
           m == Assigned(x, n)
<1>1. /\ DOMAIN loc = Stacks /\ registers = <<>> /\ loc["ds"] = NULL
      /\ \/ todo = Boot /\ loc["cs"] = NULL
         \/ todo = Tail(Boot) /\ loc["cs"] # NULL
  BY DEF Booting
<1>2. now.op = "new" /\ now.p = "list" /\ x \in Stacks /\ loc[x] = NULL /\ Len(Held(now)) = 0
  BY BootNew
<1>3. Released = <<>>
  <2>1. Len(registers) - Len(Held(now)) = 0
    BY <1>1, <1>2
  <2> QED
    BY <1>1, <2>1 DEF Released
<1>4. Finish(g, m, <<>>, bindings)
  <2>1. NewChunk(n)
    BY <1>2 DEF Fills, NewBlockChunk, LinkFront, LinkBack, Waiting
  <2> QED
    BY <1>2, <1>3, <2>1 DEF NewChunk, EmptyList
<1>5. m = WithLocal(loc, x, n)
  BY DEF Assigned, WithLocal
<1>6. Joins(g, heap, n, EmptyList)
  BY InFront
<1> HIDE DEF g, m, x
<1>7. Sane(heap, loc, <<>>, bindings, o)
  BY <1>1
<1>8. PICK q : Sane(g, m, <<>>, bindings, q)
  BY <1>2, <1>5, <1>6, <1>7, StackSane
<1>9. m[x] = n /\ n # NULL /\ DOMAIN m = Stacks /\ \A y \in Stacks : y # x => m[y] = loc[y]
  BY <1>1, <1>2, <1>5, <1>6, <1>7, StackSane
<1>10. DOMAIN g = DOMAIN heap \cup {n}
  BY <1>6 DEF Joins
<1>11. CASE todo = Boot /\ loc["cs"] = NULL
  <2>1. x = "cs" /\ todo' = Tail(Boot)
    BY <1>4, <1>11, BootFacts DEF Finish, x, now, New
  <2>2. PICK p : Sane(heap, loc, registers, bindings, p)' /\ DOMAIN heap' \subseteq DOMAIN g
    BY <1>4, <1>8, FinishSane
  <2>3. loc' = Locals(m, Tail(todo)) /\ registers' = <<>> /\ ~ allocating'
    BY <1>4 DEF Finish
  <2>4. DOMAIN loc' = Stacks /\ loc'["cs"] = n /\ loc'["ds"] = NULL
    BY <1>1, <1>9, <2>1, <2>3 DEF Locals, Stacks
  <2>5. Booting(loc', registers', todo')
    BY <1>9, <2>1, <2>3, <2>4 DEF Booting
  <2> QED
    BY <1>10, <2>2, <2>3, <2>5
<1>12. CASE todo = Tail(Boot) /\ loc["cs"] # NULL
  <2> DEFINE d == Context({}, <<>>, <<>>)
  <2>1. x = "ds" /\ Tail(todo) = Setup
    BY <1>12, BootFacts DEF x, now, New
  <2>2. Certified(Literal, Tail(todo), d)
    BY <2>1 DEF SetupFits
  <2>3. Fresh(d) /\ d.top = <<>> /\ d.bound = {} /\ ~ d.code
    BY DEF Context, Fresh
  <2> HIDE DEF d
  <2>4. m["ds"] # NULL /\ m["cs"] # NULL
    BY <1>9, <1>12, <2>1 DEF Stacks
  <2>5. KnowsItems(g, m, d) /\ KnowsBound(g, m, bindings, d)
    BY <2>3 DEF KnowsItems, KnowsBound
  <2>6. Knows(g, m, <<>>, bindings, d, Tail(todo))
    BY <2>2, <2>3, <2>4, <2>5, FreshKnows
  <2>7. \E p : Ready(p, d)' /\ DOMAIN heap' \subseteq DOMAIN g /\ ~ allocating'
    BY <1>4, <1>8, <2>6, FinishReady
  <2> QED
    BY <1>10, <2>7 DEF Ready
<1> QED
  BY <1>1, <1>11, <1>12

-----------------------------------------------------------------------------
(* The roots, one after the other.                                         *)

(* What `bound` is for the bindings b *)
BoundOf(b) == SetToSeq({s \in Symbol : b[s] # NULL})

LEMMA BoundFacts ==
  ASSUME NEW b
  PROVE  /\ BoundOf(b) \in Seq(Symbol) /\ Len(BoundOf(b)) \in Nat
         /\ \A j, k \in 1 .. Len(BoundOf(b)) : BoundOf(b)[j] = BoundOf(b)[k] => j = k
         /\ \A k \in 1 .. Len(BoundOf(b)) : b[BoundOf(b)[k]] # NULL
         /\ \A s \in Symbol : b[s] # NULL => \E k \in 1 .. Len(BoundOf(b)) : BoundOf(b)[k] = s
<1> DEFINE S == {s \in Symbol : b[s] # NULL}
           n == Cardinality(S)
           B == BoundOf(b)
<1>1. IsFiniteSet(S)
  BY SymbolAssumption, FS_Subset
<1>2. n \in Nat /\ ExistsBijection(1 .. n, S)
  BY <1>1, FS_CardinalityType
<1>3. \E f \in [1 .. n -> S] : IsInjective(f)
  BY <1>2 DEF ExistsBijection, Bijection, Injection
<1>4. B \in [1 .. n -> S] /\ IsInjective(B)
  <2>1. B = CHOOSE f \in [1 .. n -> S] : IsInjective(f)
    BY DEF BoundOf, SetToSeq
  <2> HIDE DEF B
  <2> QED
    BY <1>3, <2>1
<1>5. B \in Surjection(1 .. n, S)
  <2>1. Cardinality(1 .. n) = n /\ IsFiniteSet(1 .. n)
    BY <1>2, FS_Interval
  <2>2. B \in Injection(1 .. n, S)
    BY <1>4 DEF Injection
  <2> HIDE DEF B, S
  <2> QED
    BY <1>1, <2>1, <2>2, FS_Injection DEF n
<1> HIDE DEF B
<1>6. B \in Seq(Symbol) /\ Len(B) = n /\ DOMAIN B = 1 .. n
  <2>1. B \in [1 .. n -> Symbol]
    BY <1>4
  <2> HIDE DEF n
  <2> QED
    BY <1>2, <2>1
<1>7. \A j, k \in 1 .. n : B[j] = B[k] => j = k
  BY <1>4, <1>6 DEF IsInjective
<1>8. \A k \in 1 .. n : b[B[k]] # NULL
  BY <1>4
<1>9. \A s \in Symbol : b[s] # NULL => \E k \in 1 .. n : B[k] = s
  BY <1>5 DEF Surjection
<1> QED
  BY <1>2, <1>6, <1>7, <1>8, <1>9 DEF B

LEMMA BoundSame ==
  ASSUME NEW b, NEW d, \A s \in Symbol : d[s] = NULL <=> b[s] = NULL
  PROVE  BoundOf(d) = BoundOf(b)
<1>1. {s \in Symbol : d[s] # NULL} = {s \in Symbol : b[s] # NULL}
  OBVIOUS
<1> QED
  BY <1>1 DEF BoundOf

(* u is two sequences, one behind the other *)
Joined(u, s, t) == u = s \o t

LEMMA JoinedFacts ==
  ASSUME NEW T, NEW s, s \in Seq(T), NEW t, t \in Seq(T), NEW u, Joined(u, s, t)
  PROVE  /\ u \in Seq(T) /\ Len(u) = Len(s) + Len(t)
         /\ \A k \in 1 .. Len(s) : u[k] = s[k]
         /\ \A k \in 1 .. Len(t) : u[Len(s) + k] = t[k]
<1> USE DEF Joined
<1>1. u \in Seq(T) /\ Len(u) = Len(s) + Len(t)
  OBVIOUS
<1>2. Len(s) \in Nat /\ Len(t) \in Nat
  OBVIOUS
<1>3. \A k \in 1 .. Len(s) + Len(t) : (s \o t)[k] = IF k <= Len(s) THEN s[k] ELSE t[k - Len(s)]
  OBVIOUS
<1>4. ASSUME NEW k \in 1 .. Len(s) PROVE u[k] = s[k]
  BY <1>2, <1>3
<1>5. ASSUME NEW k \in 1 .. Len(t) PROVE u[Len(s) + k] = t[k]
  <2>1. Len(s) + k \in 1 .. Len(s) + Len(t) /\ ~ Len(s) + k <= Len(s) /\ (Len(s) + k) - Len(s) = k
    BY <1>2
  <2> QED
    BY <1>3, <2>1
<1> QED
  BY <1>1, <1>4, <1>5

ThreeIn(w, s, t, u) == w = s \o t \o u

LEMMA ThreeJoined ==
  ASSUME NEW T, NEW s, s \in Seq(T), NEW t, t \in Seq(T), NEW u, u \in Seq(T),
         NEW w, ThreeIn(w, s, t, u)
  PROVE  /\ Len(w) = Len(s) + Len(t) + Len(u)
         /\ \A k \in 1 .. Len(s) : w[k] = s[k]
         /\ \A k \in 1 .. Len(t) : w[Len(s) + k] = t[k]
         /\ \A k \in 1 .. Len(u) : w[Len(s) + Len(t) + k] = u[k]
<1>1. PICK v : Joined(v, s, t)
  BY DEF Joined
<1>2. Joined(w, v, u)
  BY <1>1 DEF Joined, ThreeIn
<1>3. /\ v \in Seq(T) /\ Len(v) = Len(s) + Len(t)
      /\ \A k \in 1 .. Len(s) : v[k] = s[k]
      /\ \A k \in 1 .. Len(t) : v[Len(s) + k] = t[k]
  <2>1. v \in Seq(T)
    BY <1>1, JoinedFacts
  <2>2. Len(v) = Len(s) + Len(t)
    BY <1>1, JoinedFacts
  <2>3. \A k \in 1 .. Len(s) : v[k] = s[k]
    BY <1>1, JoinedFacts
  <2>4. \A k \in 1 .. Len(t) : v[Len(s) + k] = t[k]
    BY <1>1, JoinedFacts
  <2> QED
    BY <2>1, <2>2, <2>3, <2>4
<1>4. /\ Len(w) = Len(v) + Len(u)
      /\ \A k \in 1 .. Len(v) : w[k] = v[k]
      /\ \A k \in 1 .. Len(u) : w[Len(v) + k] = u[k]
  <2>0. v \in Seq(T)
    BY <1>3
  <2>1. w \in Seq(T)
    BY <1>2, <2>0, JoinedFacts
  <2>2. Len(w) = Len(v) + Len(u)
    BY <1>2, <2>0, JoinedFacts
  <2>3. \A k \in 1 .. Len(v) : w[k] = v[k]
    BY <1>2, <2>0, JoinedFacts
  <2>4. \A k \in 1 .. Len(u) : w[Len(v) + k] = u[k]
    BY <1>2, <2>0, JoinedFacts
  <2> QED
    BY <2>1, <2>2, <2>3, <2>4
<1>5. Len(s) \in Nat /\ Len(t) \in Nat /\ Len(u) \in Nat /\ Len(v) = Len(s) + Len(t)
  BY <1>3
<1>6. /\ \A k \in 1 .. Len(s) : k \in 1 .. Len(v)
      /\ \A k \in 1 .. Len(t) : Len(s) + k \in 1 .. Len(v)
  BY <1>5
<1> QED
  BY <1>3, <1>4, <1>5, <1>6

Count(B, r) == 2 + Len(B) + Len(r)

(* The k-th root, where B are the symbols that are bound *)
Root(B, l, b, r, k) ==
  IF k = 1 THEN l["ds"] ELSE IF k = 2 THEN l["cs"]
  ELSE IF k <= 2 + Len(B) THEN b[B[k - 2]] ELSE r[k - 2 - Len(B)]

LEMMA RootsAre ==
  ASSUME NEW B, B \in Seq(Symbol), B = BoundOf(bindings), registers \in Seq(Int)
  PROVE  /\ bound = B
         /\ Len(Roots) = Count(B, registers) /\ Count(B, registers) \in Nat
         /\ \A k \in 1 .. Count(B, registers) : Roots[k] = Root(B, loc, bindings, registers, k)
<1>1. bound = B
  BY DEF bound, BoundOf
<1> PICK T : T = Int \cup {loc["ds"], loc["cs"]} \cup {bindings[s] : s \in Symbol}
  OBVIOUS
<1>2. PICK s : s = <<loc.ds, loc.cs>>
  OBVIOUS
<1>3. s \in Seq(T) /\ Len(s) = 2 /\ s[1] = loc["ds"] /\ s[2] = loc["cs"]
  BY <1>2
<1>4. PICK t : t = [k \in DOMAIN B |-> bindings[B[k]]]
  OBVIOUS
<1>5. t \in Seq(T) /\ Len(t) = Len(B) /\ Len(B) \in Nat /\ \A k \in 1 .. Len(B) : t[k] = bindings[B[k]]
  <2>1. DOMAIN B = 1 .. Len(B) /\ Len(B) \in Nat
    OBVIOUS
  <2>2. \A k \in 1 .. Len(B) : bindings[B[k]] \in T
    OBVIOUS
  <2>3. t \in [1 .. Len(B) -> T]
    BY <1>4, <2>1, <2>2
  <2> QED
    BY <1>4, <2>1, <2>3
<1>6. PICK u : u = registers
  OBVIOUS
<1>7. u \in Seq(T) /\ Len(u) \in Nat
  BY <1>6
<1>8. Roots = s \o t \o u
  BY <1>1, <1>2, <1>4, <1>6 DEF Roots
<1>9. PICK w : w = Roots
  OBVIOUS
<1>10. /\ Len(w) = 2 + Len(B) + Len(u) /\ w[1] = loc["ds"] /\ w[2] = loc["cs"]
       /\ \A k \in 1 .. Len(B) : w[2 + k] = bindings[B[k]]
       /\ \A k \in 1 .. Len(u) : w[2 + Len(B) + k] = u[k]
  <2>1. /\ Len(w) = Len(s) + Len(t) + Len(u)
        /\ \A k \in 1 .. Len(s) : w[k] = s[k]
        /\ \A k \in 1 .. Len(t) : w[Len(s) + k] = t[k]
        /\ \A k \in 1 .. Len(u) : w[Len(s) + Len(t) + k] = u[k]
    <3>1. ThreeIn(w, s, t, u) /\ s \in Seq(T) /\ t \in Seq(T) /\ u \in Seq(T)
      BY <1>3, <1>5, <1>7, <1>8, <1>9 DEF ThreeIn
    <3> QED
      BY <3>1, ThreeJoined
  <2> QED
    BY <1>3, <1>5, <2>1
<1>11. Len(w) = Count(B, u) /\ Count(B, u) \in Nat
  BY <1>5, <1>7, <1>10 DEF Count
<1>12. ASSUME NEW k \in 1 .. Count(B, u) PROVE w[k] = Root(B, loc, bindings, u, k)
  <2>1. CASE k = 1
    BY <1>10, <2>1 DEF Root
  <2>2. CASE k = 2
    BY <1>10, <2>2 DEF Root
  <2>3. CASE k > 2 /\ k <= 2 + Len(B)
    <3>1. k - 2 \in 1 .. Len(B) /\ 2 + (k - 2) = k
      BY <1>5, <2>3
    <3>2. w[2 + (k - 2)] = bindings[B[k - 2]]
      BY <1>10, <3>1
    <3> QED
      BY <2>3, <3>1, <3>2 DEF Root
  <2>4. CASE k > 2 + Len(B)
    <3>1. k - 2 - Len(B) \in 1 .. Len(u) /\ 2 + Len(B) + (k - 2 - Len(B)) = k /\ k # 1 /\ k # 2 /\ ~ k <= 2 + Len(B)
      BY <1>5, <1>7, <2>4 DEF Count
    <3>2. w[2 + Len(B) + (k - 2 - Len(B))] = u[k - 2 - Len(B)]
      BY <1>10, <3>1
    <3> QED
      BY <3>1, <3>2 DEF Root
  <2>5. Len(B) \in Nat /\ k \in Nat /\ k >= 1
    BY <1>5, <1>11
  <2> QED
    BY <2>1, <2>2, <2>3, <2>4, <2>5
<1> QED
  BY <1>1, <1>6, <1>9, <1>11, <1>12

-----------------------------------------------------------------------------
(* A collection.  fin tells of the copies that are finished what they are  *)
(* copies of.                                                              *)

(* The roots before the k-th have been moved. *)
RootsMoved(fin, B, k, l, b, r, m, d, s) ==
  /\ DOMAIN m = Stacks
  /\ d \in [Symbol -> Int] /\ \A t \in Symbol : d[t] = NULL <=> b[t] = NULL
  /\ s \in Seq(Int) /\ Len(s) = Len(r)
  /\ k \in 1 .. Count(B, r) + 1
  /\ \A i \in 1 .. Count(B, r) :
       IF i < k THEN Copy(fin, Root(B, m, d, s, i), Root(B, l, b, r, i))
       ELSE Root(B, m, d, s, i) = Root(B, l, b, r, i)

(* The k-th root becomes new. *)
RootPut(B, k, new, m, d, s, m2, d2, s2) ==
  LET j == k - 2 - Len(B)
  IN  /\ m2 = CASE k = 1 -> [m EXCEPT !["ds"] = new]
                [] k = 2 -> [m EXCEPT !["cs"] = new]
                [] OTHER -> m
      /\ d2 = IF k > 2 /\ j <= 0 THEN [d EXCEPT ![B[k - 2]] = new] ELSE d
      /\ s2 = IF j > 0 THEN [s EXCEPT ![j] = new] ELSE s

Distinct(B) == B \in Seq(Symbol) /\ \A i, j \in 1 .. Len(B) : B[i] = B[j] => i = j

LEMMA RootPutFacts ==
  ASSUME NEW B, Distinct(B),
         NEW m, DOMAIN m = Stacks, NEW d, d \in [Symbol -> Int], NEW s, s \in Seq(Int),
         NEW k, k \in 1 .. Count(B, s), NEW new, new \in Int,
         NEW m2, NEW d2, NEW s2, RootPut(B, k, new, m, d, s, m2, d2, s2)
  PROVE  /\ DOMAIN m2 = Stacks /\ d2 \in [Symbol -> Int] /\ s2 \in Seq(Int) /\ Len(s2) = Len(s)
         /\ \A i \in 1 .. Count(B, s) : Root(B, m2, d2, s2, i) = IF i = k THEN new ELSE Root(B, m, d, s, i)
         /\ \A t \in Symbol : d2[t] = d[t] \/ (k > 2 /\ k <= 2 + Len(B) /\ t = B[k - 2] /\ d2[t] = new)
<1>0. B \in Seq(Symbol) /\ \A i, j \in 1 .. Len(B) : B[i] = B[j] => i = j
  BY DEF Distinct
<1>1. Len(B) \in Nat /\ Len(s) \in Nat /\ k \in Nat /\ k >= 1 /\ Count(B, s) = 2 + Len(B) + Len(s)
  BY <1>0 DEF Count
<1>2. CASE k = 1 \/ k = 2
  <2>1. d2 = d /\ s2 = s
    BY <1>1, <1>2 DEF RootPut
  <2>2. /\ DOMAIN m2 = Stacks
        /\ k = 1 => m2["ds"] = new /\ m2["cs"] = m["cs"]
        /\ k = 2 => m2["cs"] = new /\ m2["ds"] = m["ds"]
    BY <1>2 DEF RootPut, Stacks
  <2> QED
    BY <1>1, <1>2, <2>1, <2>2 DEF Root
<1>3. CASE k > 2 /\ k <= 2 + Len(B)
  <2>1. k - 2 \in 1 .. Len(B) /\ k - 2 - Len(B) <= 0
    BY <1>1, <1>3
  <2>2. m2 = m /\ s2 = s /\ d2 = [d EXCEPT ![B[k - 2]] = new]
    BY <1>1, <1>3, <2>1 DEF RootPut
  <2>3. B[k - 2] \in Symbol
    BY <1>0, <2>1
  <2>4. d2 \in [Symbol -> Int] /\ d2[B[k - 2]] = new /\ \A t \in Symbol : t # B[k - 2] => d2[t] = d[t]
    BY <2>2, <2>3
  <2>5. ASSUME NEW i \in 1 .. Count(B, s) PROVE Root(B, m2, d2, s2, i) = IF i = k THEN new ELSE Root(B, m, d, s, i)
    <3>1. CASE i > 2 /\ i <= 2 + Len(B)
      <4>1. i - 2 \in 1 .. Len(B) /\ i # 1 /\ i # 2
        BY <1>1, <3>1
      <4>2. B[i - 2] \in Symbol
        BY <1>0, <4>1
      <4>3. i # k => i - 2 # k - 2
        BY <1>1
      <4>4. B[i - 2] = B[k - 2] => i - 2 = k - 2
        BY <1>0, <2>1, <4>1
      <4> QED
        BY <2>4, <3>1, <4>1, <4>2, <4>3, <4>4 DEF Root
    <3>2. CASE ~ (i > 2 /\ i <= 2 + Len(B))
      BY <1>1, <1>3, <2>2, <3>2 DEF Root
    <3> QED
      BY <3>1, <3>2
  <2> QED
    BY <1>3, <2>2, <2>4, <2>5
<1>4. CASE k > 2 + Len(B)
  <2> DEFINE j == k - 2 - Len(B)
  <2>1. j \in 1 .. Len(s) /\ j > 0 /\ ~ j <= 0
    BY <1>1, <1>4
  <2>2. m2 = m /\ d2 = d /\ s2 = [s EXCEPT ![j] = new]
    BY <1>1, <1>4, <2>1 DEF RootPut
  <2> HIDE DEF j
  <2>3. s2 \in Seq(Int) /\ Len(s2) = Len(s) /\ s2[j] = new /\ \A i \in 1 .. Len(s) : i # j => s2[i] = s[i]
    BY <2>1, <2>2
  <2>4. ASSUME NEW i \in 1 .. Count(B, s) PROVE Root(B, m2, d2, s2, i) = IF i = k THEN new ELSE Root(B, m, d, s, i)
    <3>1. CASE i > 2 + Len(B)
      <4>1. i - 2 - Len(B) \in 1 .. Len(s) /\ i # 1 /\ i # 2 /\ ~ i <= 2 + Len(B) /\ (i = k <=> i - 2 - Len(B) = j)
        BY <1>1, <3>1 DEF j
      <4> QED
        BY <2>3, <4>1 DEF Root
    <3>2. CASE ~ i > 2 + Len(B)
      BY <1>1, <1>4, <2>2, <3>2 DEF Root
    <3> QED
      BY <3>1, <3>2
  <2> QED
    BY <2>2, <2>3, <2>4
<1> QED
  BY <1>1, <1>2, <1>3, <1>4

(* One more root has been moved. *)
LEMMA RootMoves ==
  ASSUME NEW b, NEW B, B = BoundOf(b), NEW fin, DOMAIN fin \subseteq Nat,
         NEW k, NEW l, NEW r, NEW m, NEW d, NEW s, RootsMoved(fin, B, k, l, b, r, m, d, s),
         k <= Count(B, r), NEW new, Copy(fin, new, Root(B, l, b, r, k)),
         NEW m2, NEW d2, NEW s2, RootPut(B, k, new, m, d, s, m2, d2, s2)
  PROVE  RootsMoved(fin, B, k + 1, l, b, r, m2, d2, s2)
<1>1. /\ DOMAIN m = Stacks
      /\ d \in [Symbol -> Int] /\ \A t \in Symbol : d[t] = NULL <=> b[t] = NULL
      /\ s \in Seq(Int) /\ Len(s) = Len(r) /\ k \in 1 .. Count(B, r) + 1
      /\ \A i \in 1 .. Count(B, r) :
           IF i < k THEN Copy(fin, Root(B, m, d, s, i), Root(B, l, b, r, i))
           ELSE Root(B, m, d, s, i) = Root(B, l, b, r, i)
  BY DEF RootsMoved
<1>2. /\ B \in Seq(Symbol) /\ Len(B) \in Nat /\ \A i, j \in 1 .. Len(B) : B[i] = B[j] => i = j
      /\ \A i \in 1 .. Len(B) : b[B[i]] # NULL
  BY BoundFacts
<1>3. Count(B, r) = Count(B, s) /\ Count(B, r) \in Nat /\ Len(s) \in Nat
  BY <1>1, <1>2 DEF Count
<1>4. k \in 1 .. Count(B, s) /\ k + 1 \in 1 .. Count(B, r) + 1 /\ k \in Nat
  BY <1>1, <1>3
<1>5. new \in Int /\ NULL \notin DOMAIN fin
  BY DEF Copy, NULL
<1>p. RootPut(B, k, new, m, d, s, m2, d2, s2)
  OBVIOUS
<1>6. /\ DOMAIN m2 = Stacks /\ d2 \in [Symbol -> Int] /\ s2 \in Seq(Int) /\ Len(s2) = Len(s)
      /\ \A i \in 1 .. Count(B, s) : Root(B, m2, d2, s2, i) = IF i = k THEN new ELSE Root(B, m, d, s, i)
      /\ \A t \in Symbol : d2[t] = d[t] \/ (k > 2 /\ k <= 2 + Len(B) /\ t = B[k - 2] /\ d2[t] = new)
  <2>1. Distinct(B)
    BY <1>2 DEF Distinct
  <2>2. DOMAIN m = Stacks /\ d \in [Symbol -> Int] /\ s \in Seq(Int)
    BY <1>1
  <2>3. k \in 1 .. Count(B, s)
    BY <1>4
  <2> QED
    BY ONLY <1>p, <1>5, <2>1, <2>2, <2>3, RootPutFacts
<1>7. ASSUME NEW i \in 1 .. Count(B, r)
      PROVE  IF i < k + 1 THEN Copy(fin, Root(B, m2, d2, s2, i), Root(B, l, b, r, i))
             ELSE Root(B, m2, d2, s2, i) = Root(B, l, b, r, i)
  <2>1. i = k \/ i < k \/ (i # k /\ ~ i < k /\ ~ i < k + 1)
    BY <1>4
  <2>2. i < k + 1 <=> i < k \/ i = k
    BY <1>4
  <2> QED
    BY <1>1, <1>3, <1>4, <1>6, <2>1, <2>2
<1>8. ASSUME NEW t \in Symbol PROVE d2[t] = NULL <=> b[t] = NULL
  <2>1. CASE d2[t] = d[t]
    BY <1>1, <2>1
  <2>2. CASE k > 2 /\ k <= 2 + Len(B) /\ t = B[k - 2] /\ d2[t] = new
    <3>1. k - 2 \in 1 .. Len(B)
      BY <1>2, <1>4, <2>2
    <3>2. Root(B, l, b, r, k) = b[t] /\ b[t] # NULL
      BY <1>2, <1>4, <2>2, <3>1 DEF Root
    <3> QED
      BY <1>5, <2>2, <3>2 DEF Copy
  <2> QED
    BY <1>6, <2>1, <2>2
<1> QED
  BY <1>1, <1>4, <1>6, <1>7, <1>8 DEF RootsMoved

-----------------------------------------------------------------------------
(* The copies of a collection.                                             *)

(* What is needed of the heap h that is copied *)
Fine(h) ==
  /\ Records(h) /\ DOMAIN h \subseteq Nat
  /\ \A i \in DOMAIN h : h[i].type \in Types
  /\ \A i \in DOMAIN h : h[i].type \in Refers => h[i].a \in OrNull(DOMAIN h) /\ h[i].b \in OrNull(DOMAIN h)

LEMMA SaneFine ==
  ASSUME NEW h, NEW l, NEW r, NEW b, NEW o, Sane(h, l, r, b, o)
  PROVE  Fine(h)
BY DEF Sane, Words, Fine, Records, Types, Refers, Values, Nodes, Lists, OrNull

(* There is a finished copy of i. *)
Done(fin, i) == \E x \in DOMAIN fin : fin[x] = i

(* The k-th pointer of a chunk of this type, in the order of copy_chunk *)
Word(type, chunk, k) == IF (k = 1) = (type = "node") THEN chunk.b ELSE chunk.a

Width(type) == IF type \in Refers THEN 2 ELSE 0

(* The chunks that are copied *)
Original(h, fin, g, i) ==
  /\ g[i].type \in {h[i].type, "moved", "clobbered"}
  /\ IF Done(fin, i) THEN g[i].type # h[i].type /\ g[i].a \in DOMAIN fin /\ fin[g[i].a] = i
     ELSE g[i].type # "moved" /\ g[i].a = h[i].a /\ g[i].b = h[i].b
  /\ g[i].type = "clobbered" => PointerSize = 8

(* A copy that is not finished; pointers before the next have been moved.  *)
Frame(h, fin, g, f) ==
  /\ f.old \in DOMAIN h /\ ~ Done(fin, f.old) /\ f.new \notin DOMAIN fin
  /\ g[f.new].type = h[f.old].type
  /\ g[f.new].type \notin Refers => g[f.new].a = h[f.old].a
  /\ f.next \in 1 .. Width(h[f.old].type) + 1
  /\ \A k \in 1 .. 2 : k < f.next => Copy(fin, Word(h[f.old].type, g[f.new], k),
                                               Word(h[f.old].type, h[f.old], k))

(* The next pointer of the chunk that f copies *)
Awaited(h, f) == Word(h[f.old].type, h[f.old], f.next)
Open(h, f)    == f.next <= Width(h[f.old].type)

(* A frame copies what the pointer before it refers to. *)
Called(h, fs) ==
  \A k \in 1 .. Len(fs) : k > 1 => Open(h, fs[k - 1]) /\ fs[k].old = Awaited(h, fs[k - 1])

(* The new half fills up to n. *)
Space(h, fin, g, fs, c, n) ==
  /\ Records(g)
  /\ DOMAIN g = DOMAIN h \cup DOMAIN fin \cup {fs[k].new : k \in 1 .. Len(fs)}
  /\ DOMAIN h \subseteq c .. c + Half - 1
  /\ \A x \in DOMAIN fin : x \in Half - c .. n - 1
  /\ \A k \in 1 .. Len(fs) : fs[k].new \in Half - c .. n - 1
  /\ \A j, k \in 1 .. Len(fs) : fs[j].new = fs[k].new => j = k
  /\ c \in {0, Half} /\ n \in Half - c .. Half - c + Half

Memory(h, fin, g, fs, c, n) ==
  /\ Fine(h) /\ Injects(fin, h)
  /\ fs \in Seq([old : Nat, new : Nat, next : Nat])
  /\ Space(h, fin, g, fs, c, n)
  /\ \A x \in DOMAIN fin : CopiedChunk(fin, g, h, x)
  /\ \A i \in DOMAIN h : Original(h, fin, g, i)
  /\ \A k \in 1 .. Len(fs) : Frame(h, fin, g, fs[k])
  /\ Called(h, fs)

LEMMA CopyGrows ==
  ASSUME NEW fin, NEW new, new \notin DOMAIN fin, new # NULL, NEW old, NEW more, more = With(fin, new, old)
  PROVE  /\ DOMAIN more = DOMAIN fin \cup {new} /\ more[new] = old /\ \A x \in DOMAIN fin : more[x] = fin[x]
         /\ \A y, p : Copy(fin, y, p) => Copy(more, y, p)
         /\ \A i : Done(more, i) <=> Done(fin, i) \/ i = old
<1>1. DOMAIN more = DOMAIN fin \cup {new} /\ more[new] = old /\ \A x \in DOMAIN fin : more[x] = fin[x]
  BY DEF With
<1> QED
  BY <1>1 DEF Copy, Done

(* A pointer of a chunk is NULL or a chunk. *)
LEMMA AwaitedFacts ==
  ASSUME NEW h, Fine(h), NEW f, f.old \in DOMAIN h, f.next \in Nat, f.next >= 1, Open(h, f)
  PROVE  Awaited(h, f) \in OrNull(DOMAIN h) /\ f.next \in 1 .. 2 /\ h[f.old].type \in Refers
<1>1. h[f.old].type \in Refers /\ f.next \in 1 .. 2
  BY DEF Open, Width
<1> QED
  BY <1>1 DEF Awaited, Word, Fine

(* A frame whose heap and finished copies change elsewhere                 *)
LEMMA FrameStays ==
  ASSUME NEW h, NEW fin, NEW g, NEW f, Frame(h, fin, g, f),
         NEW more, \A y, p : Copy(fin, y, p) => Copy(more, y, p), ~ Done(more, f.old), f.new \notin DOMAIN more,
         NEW g2, g2[f.new] = g[f.new]
  PROVE  Frame(h, more, g2, f)
BY DEF Frame

LEMMA ChunkStays ==
  ASSUME NEW h, NEW fin, NEW g, NEW x, x \in DOMAIN fin, CopiedChunk(fin, g, h, x),
         NEW more, more[x] = fin[x], \A y, p : Copy(fin, y, p) => Copy(more, y, p),
         NEW g2, g2[x] = g[x]
  PROVE  CopiedChunk(more, g2, h, x)
BY DEF CopiedChunk

(* Where the copies are, and where the chunks that are copied *)
LEMMA SpaceApart ==
  ASSUME NEW h, NEW fin, NEW g, NEW fs, NEW c, NEW n, Space(h, fin, g, fs, c, n)
  PROVE  /\ \A x \in DOMAIN fin : x \in Nat /\ x # n /\ x \notin DOMAIN h /\ x \notin c .. c + Half - 1
         /\ \A k \in 1 .. Len(fs) : /\ fs[k].new \in Nat /\ fs[k].new # n /\ fs[k].new \notin DOMAIN h
                                    /\ fs[k].new \notin c .. c + Half - 1 /\ fs[k].new \in DOMAIN g
         /\ n < Half - c + Half => n \notin DOMAIN g
         /\ DOMAIN h \subseteq Nat /\ DOMAIN h \subseteq DOMAIN g /\ DOMAIN fin \subseteq DOMAIN g
         /\ n \in Nat /\ c \in Nat /\ Half - c \in Nat /\ NULL \notin DOMAIN g
<1>1. Half \in Nat \ {0} /\ c \in {0, Half} /\ Half - c \in {0, Half} /\ n \in Half - c .. Half - c + Half
  BY HalfAssumption DEF Space
<1>2. \A x \in DOMAIN h : x \in c .. c + Half - 1
  BY DEF Space
<1>3. \A x \in Int : x \in Half - c .. Half - c + Half - 1 => x \notin c .. c + Half - 1 /\ x \in Nat
  BY <1>1
<1>4. \A x \in DOMAIN fin : x \in Half - c .. Half - c + Half - 1 /\ x \in Int /\ x # n
  <2> TAKE x \in DOMAIN fin
  <2>1. x \in Half - c .. n - 1
    BY DEF Space
  <2> QED
    BY <1>1, <2>1
<1>5. \A k \in 1 .. Len(fs) : fs[k].new \in Half - c .. Half - c + Half - 1 /\ fs[k].new \in Int /\ fs[k].new # n
  <2> TAKE k \in 1 .. Len(fs)
  <2>1. fs[k].new \in Half - c .. n - 1
    BY DEF Space
  <2> QED
    BY <1>1, <2>1
<1>6. DOMAIN g = DOMAIN h \cup DOMAIN fin \cup {fs[k].new : k \in 1 .. Len(fs)}
  BY DEF Space
<1>7. DOMAIN h \subseteq Nat
  BY <1>1, <1>2
<1>8. n < Half - c + Half => n \notin DOMAIN g
  <2>1. n < Half - c + Half => n \in Half - c .. Half - c + Half - 1 /\ n \in Int
    BY <1>1
  <2> QED
    BY <1>2, <1>3, <1>4, <1>5, <1>6, <2>1
<1>9. NULL \notin DOMAIN g
  BY <1>2, <1>3, <1>4, <1>5, <1>6, <1>7 DEF NULL
<1>10. \A x \in DOMAIN fin : x \in Nat /\ x # n /\ x \notin DOMAIN h /\ x \notin c .. c + Half - 1
  BY <1>2, <1>3, <1>4
<1>11. \A k \in 1 .. Len(fs) : /\ fs[k].new \in Nat /\ fs[k].new # n /\ fs[k].new \notin DOMAIN h
                                /\ fs[k].new \notin c .. c + Half - 1
  BY <1>2, <1>3, <1>5
<1>12. DOMAIN h \subseteq DOMAIN g /\ DOMAIN fin \subseteq DOMAIN g /\ \A k \in 1 .. Len(fs) : fs[k].new \in DOMAIN g
  BY <1>6
<1>13. n \in Nat /\ c \in Nat /\ Half - c \in Nat
  BY <1>1
<1> QED
  BY <1>7, <1>8, <1>9, <1>10, <1>11, <1>12, <1>13

(* The pointer that is to be moved next refers to p. *)
Follows(h, fs, p) ==
  fs # <<>> => Open(h, fs[Len(fs)]) /\ p = Awaited(h, fs[Len(fs)])

Entered(more, fs, p, n) == more = Append(fs, [old |-> p, new |-> n, next |-> 1])

LEMMA MemoryEnter ==
  ASSUME NEW h, NEW fin, NEW g, NEW fs, NEW c, NEW n, Memory(h, fin, g, fs, c, n),
         NEW p, p \in DOMAIN h, g[p].type \notin {"moved", "clobbered"}, Follows(h, fs, p),
         NEW g2, Joins(g2, g, n, g[p]), NEW fs2, Entered(fs2, fs, p, n),
         NEW n2, n2 \in Nat, n < n2, n2 <= Half - c + Half
  PROVE  Memory(h, fin, g2, fs2, c, n2)
<1>1. /\ Fine(h) /\ Injects(fin, h) /\ fs \in Seq([old : Nat, new : Nat, next : Nat])
      /\ Space(h, fin, g, fs, c, n) /\ Called(h, fs)
      /\ \A x \in DOMAIN fin : CopiedChunk(fin, g, h, x)
      /\ \A i \in DOMAIN h : Original(h, fin, g, i)
      /\ \A k \in 1 .. Len(fs) : Frame(h, fin, g, fs[k])
  BY DEF Memory
<1>2. /\ \A x \in DOMAIN fin : x \in Nat /\ x # n /\ x \notin DOMAIN h
      /\ \A k \in 1 .. Len(fs) : fs[k].new # n /\ fs[k].new \in DOMAIN g
      /\ DOMAIN h \subseteq DOMAIN g /\ DOMAIN fin \subseteq DOMAIN g
      /\ n \in Nat /\ Half - c \in Nat /\ DOMAIN h \subseteq Nat
  BY <1>1, SpaceApart
<1>3. /\ fs2 \in Seq([old : Nat, new : Nat, next : Nat]) /\ Len(fs) \in Nat
      /\ Len(fs2) = Len(fs) + 1 /\ \A k \in 1 .. Len(fs) : fs2[k] = fs[k]
      /\ fs2[Len(fs) + 1].old = p /\ fs2[Len(fs) + 1].new = n /\ fs2[Len(fs) + 1].next = 1
  <2>1. p \in Nat /\ n \in Nat /\ fs \in Seq([old : Nat, new : Nat, next : Nat])
    BY <1>1, <1>2
  <2> DEFINE f == [old |-> p, new |-> n, next |-> 1]
  <2>2. f \in [old : Nat, new : Nat, next : Nat] /\ f.old = p /\ f.new = n /\ f.next = 1
    BY <2>1
  <2>3. fs2 = Append(fs, f)
    BY DEF Entered
  <2> HIDE DEF f
  <2>4. /\ fs2 \in Seq([old : Nat, new : Nat, next : Nat]) /\ Len(fs) \in Nat
        /\ Len(fs2) = Len(fs) + 1 /\ \A k \in 1 .. Len(fs) : fs2[k] = fs[k]
        /\ fs2[Len(fs) + 1] = f
    BY <2>1, <2>2, <2>3
  <2> QED
    BY <2>2, <2>4
<1>4. /\ n \notin DOMAIN g /\ DOMAIN g2 = DOMAIN g \cup {n} /\ g2[n] = g[p]
      /\ \A i \in DOMAIN g : g2[i] = g[i]
  BY DEF Joins
<1>5. p \in DOMAIN g /\ g[p].type = h[p].type /\ ~ Done(fin, p) /\ g[p].a = h[p].a
  BY <1>1, <1>2 DEF Original
<1>6. \A k \in 1 .. Len(fs2) : k = Len(fs) + 1 \/ k \in 1 .. Len(fs)
  BY <1>3
<1>7. Records(g2)
  BY <1>1, <1>4, <1>5 DEF Records, Space
<1>8. Space(h, fin, g2, fs2, c, n2)
  <2>1. DOMAIN g2 = DOMAIN h \cup DOMAIN fin \cup {fs2[k].new : k \in 1 .. Len(fs2)}
    <3>1. DOMAIN g = DOMAIN h \cup DOMAIN fin \cup {fs[k].new : k \in 1 .. Len(fs)}
      BY <1>1 DEF Space
    <3>2. \A k \in 1 .. Len(fs) : k \in 1 .. Len(fs2)
      BY <1>3
    <3>3. Len(fs) + 1 \in 1 .. Len(fs2)
      BY <1>3
    <3>4. {fs2[k].new : k \in 1 .. Len(fs2)} = {fs[k].new : k \in 1 .. Len(fs)} \cup {n}
      BY <1>3, <1>6, <3>2, <3>3
    <3> QED
      BY <1>4, <3>1, <3>4
  <2>2. n \in Half - c .. n2 - 1 /\ n2 \in Half - c .. Half - c + Half /\ \A x \in Int : x <= n - 1 => x <= n2 - 1
    BY <1>1, <1>2, HalfAssumption DEF Space
  <2>3. \A x \in DOMAIN fin : x \in Half - c .. n2 - 1
    BY <1>1, <1>2, <2>2 DEF Space
  <2>4. ASSUME NEW k \in 1 .. Len(fs2) PROVE fs2[k].new \in Half - c .. n2 - 1
    <3>1. CASE k \in 1 .. Len(fs)
      <4>1. fs[k].new \in Half - c .. n - 1 /\ fs2[k] = fs[k]
        BY <1>1, <1>3, <3>1 DEF Space
      <4> QED
        BY <1>2, <2>2, <4>1
    <3>2. CASE k = Len(fs) + 1
      BY <1>3, <2>2, <3>2
    <3> QED
      BY <1>6, <3>1, <3>2
  <2>5. \A j, k \in 1 .. Len(fs2) : fs2[j].new = fs2[k].new => j = k
    BY <1>1, <1>2, <1>3, <1>6 DEF Space
  <2>6. c \in {0, Half} /\ DOMAIN h \subseteq c .. c + Half - 1
    BY <1>1 DEF Space
  <2> QED
    BY <1>7, <2>1, <2>2, <2>3, <2>4, <2>5, <2>6 DEF Space
<1>9. \A x \in DOMAIN fin : CopiedChunk(fin, g2, h, x)
  BY <1>1, <1>2, <1>4, ChunkStays
<1>10. \A i \in DOMAIN h : Original(h, fin, g2, i)
  BY <1>1, <1>2, <1>4 DEF Original
<1>11. ASSUME NEW k \in 1 .. Len(fs2) PROVE Frame(h, fin, g2, fs2[k])
  <2>1. CASE k \in 1 .. Len(fs)
    <3>1. Frame(h, fin, g, fs[k]) /\ fs[k].new \in DOMAIN g /\ fs2[k] = fs[k]
      BY <1>1, <1>2, <1>3, <2>1
    <3>2. ~ Done(fin, fs[k].old) /\ fs[k].new \notin DOMAIN fin
      BY <3>1 DEF Frame
    <3> QED
      BY <1>4, <3>1, <3>2, FrameStays
  <2>2. CASE k = Len(fs) + 1
    <3>1. fs2[k].old = p /\ fs2[k].new = n /\ fs2[k].next = 1
      BY <1>3, <2>2
    <3>2. n \notin DOMAIN fin
      BY <1>2
    <3>3. Width(h[p].type) + 1 \in Nat /\ Width(h[p].type) + 1 >= 1
      BY DEF Width
    <3> QED
      BY <1>4, <1>5, <3>1, <3>2, <3>3 DEF Frame
  <2> QED
    BY <1>6, <2>1, <2>2
<1>12. Called(h, fs2)
  <2> SUFFICES ASSUME NEW k \in 1 .. Len(fs2), k > 1
               PROVE  Open(h, fs2[k - 1]) /\ fs2[k].old = Awaited(h, fs2[k - 1])
    BY DEF Called
  <2>1. CASE k \in 1 .. Len(fs)
    <3>1. k - 1 \in 1 .. Len(fs)
      BY <2>1
    <3> QED
      BY <1>1, <1>3, <2>1, <3>1 DEF Called
  <2>2. CASE k = Len(fs) + 1
    <3>1. k - 1 = Len(fs) /\ Len(fs) \in 1 .. Len(fs) /\ fs # <<>>
      BY <1>3, <2>2
    <3> QED
      BY <1>3, <2>2, <3>1 DEF Follows
  <2> QED
    BY <1>6, <2>1, <2>2
<1> QED
  BY <1>1, <1>3, <1>8, <1>9, <1>10, <1>11, <1>12 DEF Memory

(* v is written to the k-th pointer of chunk x, which is of this type. *)
Put(g2, g, x, type, k, v) ==
  g2 = IF (k = 1) = (type = "node") THEN PutB(g, x, v) ELSE PutA(g, x, v)

LEMMA PutFacts ==
  ASSUME NEW g, Records(g), NEW x, x \in DOMAIN g, NEW type, NEW k, k \in 1 .. 2, NEW v,
         NEW g2, Put(g2, g, x, type, k, v)
  PROVE  /\ Records(g2) /\ DOMAIN g2 = DOMAIN g /\ \A i \in DOMAIN g : i # x => g2[i] = g[i]
         /\ g2[x].type = g[x].type
         /\ \A j \in 1 .. 2 : Word(type, g2[x], j) = IF j = k THEN v ELSE Word(type, g[x], j)
<1>1. CASE (k = 1) = (type = "node")
  <2>1. g2 = PutB(g, x, v)
    BY <1>1 DEF Put
  <2>2. SameTypes(g2, g) /\ (\A i \in DOMAIN g : i # x => g2[i] = g[i]) /\ g2[x].a = g[x].a /\ g2[x].b = v
    BY <2>1, WrittenB
  <2>3. Records(g2) /\ DOMAIN g2 = DOMAIN g /\ g2[x].type = g[x].type
    BY <2>2 DEF SameTypes, Records
  <2>4. ASSUME NEW j \in 1 .. 2 PROVE Word(type, g2[x], j) = IF j = k THEN v ELSE Word(type, g[x], j)
    BY <1>1, <2>2 DEF Word
  <2> QED
    BY <2>2, <2>3, <2>4
<1>2. CASE ~ ((k = 1) = (type = "node"))
  <2>1. g2 = PutA(g, x, v)
    BY <1>2 DEF Put
  <2>2. SameTypes(g2, g) /\ (\A i \in DOMAIN g : i # x => g2[i] = g[i]) /\ g2[x].b = g[x].b /\ g2[x].a = v
    BY <2>1, WrittenA
  <2>3. Records(g2) /\ DOMAIN g2 = DOMAIN g /\ g2[x].type = g[x].type
    BY <2>2 DEF SameTypes, Records
  <2>4. ASSUME NEW j \in 1 .. 2 PROVE Word(type, g2[x], j) = IF j = k THEN v ELSE Word(type, g[x], j)
    BY <1>2, <2>2 DEF Word
  <2> QED
    BY <2>2, <2>3, <2>4
<1> QED
  BY <1>1, <1>2

(* The innermost frame goes on to its next pointer. *)
Stepped(more, fs) == more = [fs EXCEPT ![Len(fs)].next = @ + 1]

LEMMA SteppedFacts ==
  ASSUME NEW fs, fs \in Seq([old : Nat, new : Nat, next : Nat]), fs # <<>>, NEW more, Stepped(more, fs)
  PROVE  /\ more \in Seq([old : Nat, new : Nat, next : Nat]) /\ Len(more) = Len(fs)
         /\ Len(fs) \in 1 .. Len(fs)
         /\ \A k \in 1 .. Len(fs) : /\ more[k].old = fs[k].old /\ more[k].new = fs[k].new
                                    /\ k # Len(fs) => more[k] = fs[k]
         /\ more[Len(fs)].next = fs[Len(fs)].next + 1
<1> PICK T : T = [old : Nat, new : Nat, next : Nat]
  OBVIOUS
<1> PICK n : n = Len(fs)
  OBVIOUS
<1>1. fs \in Seq(T) /\ fs # <<>>
  OBVIOUS
<1>2. n \in Nat /\ n \in 1 .. n /\ DOMAIN fs = 1 .. n
  BY ONLY <1>1, n = Len(fs)
<1>3. fs[n] \in T
  BY ONLY <1>1, <1>2, n = Len(fs)
<1>4. ASSUME NEW f, f \in T
      PROVE  LET f2 == [f EXCEPT !.next = @ + 1]
             IN  f2 \in T /\ f2.old = f.old /\ f2.new = f.new /\ f2.next = f.next + 1
  BY <1>4
<1> DEFINE f2 == [fs[n] EXCEPT !.next = @ + 1]
<1>5. f2 \in T /\ f2.old = fs[n].old /\ f2.new = fs[n].new /\ f2.next = fs[n].next + 1
  BY <1>3, <1>4
<1>6. more = [fs EXCEPT ![n] = f2]
  BY DEF Stepped
<1> HIDE DEF f2
<1>7. more \in Seq(T) /\ Len(more) = n
  BY ONLY <1>1, <1>2, <1>5, <1>6, n = Len(fs)
<1>8. more[n] = f2 /\ \A k \in 1 .. n : k # n => more[k] = fs[k]
  BY ONLY <1>2, <1>6
<1> QED
  BY <1>2, <1>5, <1>7, <1>8

LEMMA MemoryStores ==
  ASSUME NEW h, NEW fin, NEW g, NEW fs, NEW c, NEW n, Memory(h, fin, g, fs, c, n),
         fs # <<>>, NEW f, f = fs[Len(fs)], Open(h, f), NEW v, Copy(fin, v, Awaited(h, f)),
         NEW g2, Put(g2, g, f.new, h[f.old].type, f.next, v), NEW fs2, Stepped(fs2, fs)
  PROVE  Memory(h, fin, g2, fs2, c, n)
<1>1. /\ Fine(h) /\ Injects(fin, h) /\ fs \in Seq([old : Nat, new : Nat, next : Nat])
      /\ Space(h, fin, g, fs, c, n) /\ Called(h, fs)
      /\ \A x \in DOMAIN fin : CopiedChunk(fin, g, h, x)
      /\ \A i \in DOMAIN h : Original(h, fin, g, i)
      /\ \A k \in 1 .. Len(fs) : Frame(h, fin, g, fs[k])
  BY DEF Memory
<1>2. /\ fs2 \in Seq([old : Nat, new : Nat, next : Nat]) /\ Len(fs2) = Len(fs)
      /\ Len(fs) \in 1 .. Len(fs)
      /\ \A k \in 1 .. Len(fs) : /\ fs2[k].old = fs[k].old /\ fs2[k].new = fs[k].new
                                 /\ k # Len(fs) => fs2[k] = fs[k]
      /\ fs2[Len(fs)].next = fs[Len(fs)].next + 1
  BY <1>1, SteppedFacts
<1>3. /\ \A x \in DOMAIN fin : x \notin DOMAIN h
      /\ \A k \in 1 .. Len(fs) : fs[k].new \in DOMAIN g /\ fs[k].new \notin DOMAIN h
      /\ DOMAIN h \subseteq DOMAIN g /\ DOMAIN fin \subseteq DOMAIN g
  BY <1>1, SpaceApart
<1>4. Frame(h, fin, g, f) /\ f.new \in DOMAIN g /\ f.new \notin DOMAIN h /\ f.new \notin DOMAIN fin
  BY <1>1, <1>2, <1>3 DEF Frame
<1>5. f.next \in Nat /\ f.next >= 1 /\ f.old \in DOMAIN h /\ Width(h[f.old].type) \in 0 .. 2
  BY <1>4 DEF Frame, Width
<1>6. f.next \in 1 .. 2 /\ h[f.old].type \in Refers
  BY <1>1, <1>5, AwaitedFacts
<1>7. /\ Records(g2) /\ DOMAIN g2 = DOMAIN g /\ \A i \in DOMAIN g : i # f.new => g2[i] = g[i]
      /\ g2[f.new].type = g[f.new].type
      /\ \A j \in 1 .. 2 : Word(h[f.old].type, g2[f.new], j) =
                             IF j = f.next THEN v ELSE Word(h[f.old].type, g[f.new], j)
  <2> PICK x : x = f.new
    OBVIOUS
  <2> PICK type : type = h[f.old].type
    OBVIOUS
  <2> PICK k : k = f.next
    OBVIOUS
  <2>1. Records(g) /\ x \in DOMAIN g /\ k \in 1 .. 2 /\ Put(g2, g, x, type, k, v)
    BY <1>1, <1>4, <1>6 DEF Space
  <2>2. /\ Records(g2) /\ DOMAIN g2 = DOMAIN g /\ \A i \in DOMAIN g : i # x => g2[i] = g[i]
        /\ g2[x].type = g[x].type
    BY ONLY <2>1, PutFacts
  <2>3. \A j \in 1 .. 2 : Word(type, g2[x], j) = IF j = k THEN v ELSE Word(type, g[x], j)
    BY ONLY <2>1, PutFacts
  <2> QED
    BY <2>2, <2>3
<1>8. Space(h, fin, g2, fs2, c, n)
  <2>1. {fs2[k].new : k \in 1 .. Len(fs2)} = {fs[k].new : k \in 1 .. Len(fs)}
    BY <1>2
  <2>2. \A k \in 1 .. Len(fs2) : fs2[k].new \in Half - c .. n - 1
    BY <1>1, <1>2 DEF Space
  <2>3. \A j, k \in 1 .. Len(fs2) : fs2[j].new = fs2[k].new => j = k
    BY <1>1, <1>2 DEF Space
  <2> QED
    BY <1>1, <1>7, <2>1, <2>2, <2>3 DEF Space
<1>9. \A x \in DOMAIN fin : CopiedChunk(fin, g2, h, x)
  BY <1>1, <1>3, <1>4, <1>7, ChunkStays
<1>10. \A i \in DOMAIN h : Original(h, fin, g2, i)
  BY <1>1, <1>3, <1>4, <1>7, SMTT(30) DEF Original
<1>11. ASSUME NEW k \in 1 .. Len(fs2) PROVE Frame(h, fin, g2, fs2[k])
  <2>1. CASE k = Len(fs)
    <3>1. fs2[k].old = f.old /\ fs2[k].new = f.new /\ fs2[k].next = f.next + 1
      BY <1>2, <2>1
    <3>2. f.next + 1 \in 1 .. Width(h[f.old].type) + 1
      BY <1>5 DEF Open
    <3>3. ASSUME NEW j \in 1 .. 2, j < f.next + 1
          PROVE  Copy(fin, Word(h[f.old].type, g2[f.new], j), Word(h[f.old].type, h[f.old], j))
      <4>1. j = f.next \/ (j # f.next /\ j < f.next)
        BY <1>5, <3>3
      <4> QED
        BY <1>4, <1>7, <4>1 DEF Frame, Awaited
    <3> QED
      BY <1>4, <1>6, <1>7, <3>1, <3>2, <3>3 DEF Frame
  <2>2. CASE k # Len(fs)
    <3>1. fs2[k] = fs[k] /\ k \in 1 .. Len(fs) /\ fs[k].new # f.new
      BY <1>1, <1>2, <2>2 DEF Space
    <3>2. Frame(h, fin, g, fs[k]) /\ g2[fs[k].new] = g[fs[k].new]
      BY <1>1, <1>3, <1>7, <3>1
    <3>3. ~ Done(fin, fs[k].old) /\ fs[k].new \notin DOMAIN fin
      BY <3>2 DEF Frame
    <3> QED
      BY <3>1, <3>2, <3>3, FrameStays
  <2> QED
    BY <2>1, <2>2
<1>12. Called(h, fs2)
  <2> SUFFICES ASSUME NEW k \in 1 .. Len(fs2), k > 1
               PROVE  Open(h, fs2[k - 1]) /\ fs2[k].old = Awaited(h, fs2[k - 1])
    BY DEF Called
  <2>1. k \in 1 .. Len(fs) /\ k - 1 \in 1 .. Len(fs) /\ k - 1 # Len(fs)
    BY <1>2
  <2> QED
    BY <1>1, <1>2, <2>1 DEF Called
<1> QED
  BY <1>1, <1>2, <1>8, <1>9, <1>10, <1>11, <1>12 DEF Memory

(* The innermost frame is left. *)
Dropped(fewer, fs) == fewer = Front(fs)

LEMMA DroppedFacts ==
  ASSUME NEW fs, fs \in Seq([old : Nat, new : Nat, next : Nat]), fs # <<>>, NEW fewer, Dropped(fewer, fs)
  PROVE  /\ fewer \in Seq([old : Nat, new : Nat, next : Nat]) /\ Len(fs) \in 1 .. Len(fs)
         /\ Len(fewer) = Len(fs) - 1 /\ \A k \in 1 .. Len(fewer) : fewer[k] = fs[k] /\ k \in 1 .. Len(fs) - 1
<1> PICK T : T = [old : Nat, new : Nat, next : Nat]
  OBVIOUS
<1>1. fs \in Seq(T) /\ fs # <<>> /\ Len(fs) \in Nat /\ Len(fs) >= 1
  OBVIOUS
<1>2. fewer \in Seq(T) /\ Len(fewer) = Len(fs) - 1 /\ \A k \in 1 .. Len(fs) - 1 : fewer[k] = fs[k]
  <2>1. fewer = Front(fs)
    BY DEF Dropped
  <2> QED
    BY <1>1, <2>1, LastFacts
<1> QED
  BY <1>1, <1>2

(* new is written into the chunk old. *)
Marks(g2, g, old, new, c) ==
  /\ DOMAIN g2 = DOMAIN g
  /\ g2[old] = [type |-> "moved", a |-> new, b |-> NULL]
  /\ \A x \in DOMAIN g : x # old =>
       \/ g2[x] = g[x]
       \/ /\ PointerSize = 8 /\ x \in c .. c + Half - 1
          /\ g2[x].type = "clobbered" /\ g2[x].a = g[x].a /\ g2[x].b = g[x].b
          /\ g2[x] = Record(g2[x])

LEMMA MemoryLeaves ==
  ASSUME NEW h, NEW fin, NEW g, NEW fs, NEW c, NEW n, Memory(h, fin, g, fs, c, n),
         fs # <<>>, NEW f, f = fs[Len(fs)], ~ Open(h, f),
         NEW g2, Marks(g2, g, f.old, f.new, c), NEW fs2, Dropped(fs2, fs),
         NEW more, more = With(fin, f.new, f.old)
  PROVE  Memory(h, more, g2, fs2, c, n)
<1>1. /\ Fine(h) /\ Injects(fin, h) /\ fs \in Seq([old : Nat, new : Nat, next : Nat])
      /\ Space(h, fin, g, fs, c, n) /\ Called(h, fs)
      /\ \A x \in DOMAIN fin : CopiedChunk(fin, g, h, x)
      /\ \A i \in DOMAIN h : Original(h, fin, g, i)
      /\ \A k \in 1 .. Len(fs) : Frame(h, fin, g, fs[k])
  BY DEF Memory
<1>2. /\ fs2 \in Seq([old : Nat, new : Nat, next : Nat]) /\ Len(fs) \in 1 .. Len(fs)
      /\ Len(fs2) = Len(fs) - 1 /\ \A k \in 1 .. Len(fs2) : fs2[k] = fs[k] /\ k \in 1 .. Len(fs) - 1
  BY <1>1, DroppedFacts
<1>3. /\ \A x \in DOMAIN fin : x \in Nat /\ x \notin DOMAIN h /\ x \notin c .. c + Half - 1
      /\ \A k \in 1 .. Len(fs) : /\ fs[k].new \in Nat /\ fs[k].new \notin DOMAIN h
                                 /\ fs[k].new \notin c .. c + Half - 1 /\ fs[k].new \in DOMAIN g
      /\ DOMAIN h \subseteq DOMAIN g /\ DOMAIN fin \subseteq DOMAIN g /\ NULL \notin DOMAIN g
  BY <1>1, SpaceApart
<1>4. /\ Frame(h, fin, g, f) /\ f.new \in DOMAIN g /\ f.new \notin DOMAIN h
      /\ f.new \notin c .. c + Half - 1 /\ f.new # NULL
  BY <1>1, <1>2, <1>3
<1>5. f.new \notin DOMAIN fin /\ ~ Done(fin, f.old) /\ f.old \in DOMAIN h /\ h[f.old].type \in Types
  BY <1>1, <1>4 DEF Frame, Fine
<1>6. /\ DOMAIN more = DOMAIN fin \cup {f.new} /\ more[f.new] = f.old /\ \A x \in DOMAIN fin : more[x] = fin[x]
      /\ \A y, p : Copy(fin, y, p) => Copy(more, y, p)
      /\ \A i : Done(more, i) <=> Done(fin, i) \/ i = f.old
  <2> PICK x, i : x = f.new /\ i = f.old
    OBVIOUS
  <2>1. x \notin DOMAIN fin /\ x # NULL /\ more = With(fin, x, i)
    BY <1>4, <1>5
  <2>2. DOMAIN more = DOMAIN fin \cup {x} /\ more[x] = i /\ \A y \in DOMAIN fin : more[y] = fin[y]
    BY ONLY <2>1 DEF With
  <2>3. \A y, p : Copy(fin, y, p) => Copy(more, y, p)
    BY ONLY <2>1, CopyGrows
  <2>4. \A j : Done(more, j) <=> Done(fin, j) \/ j = i
    BY ONLY <2>1, CopyGrows
  <2> QED
    BY <2>2, <2>3, <2>4
<1>7. /\ DOMAIN g2 = DOMAIN g /\ Records(g2)
      /\ \A x \in DOMAIN g : x # f.old /\ x \notin c .. c + Half - 1 => g2[x] = g[x]
      /\ g2[f.old].type = "moved" /\ g2[f.old].a = f.new
  <2>1. Records(g)
    BY <1>1 DEF Space
  <2>2. g2[f.old] = Record(g2[f.old])
    BY DEF Marks, Record
  <2> QED
    BY <2>1, <2>2 DEF Marks, Records
<1>8. f.next = Width(h[f.old].type) + 1
  BY <1>4 DEF Frame, Open, Width
<1>9. ASSUME NEW k \in 1 .. Len(fs) - 1 PROVE fs[k].old # f.old
  <2>1. k \in 1 .. Len(fs) /\ k + 1 \in 1 .. Len(fs) /\ (k + 1) - 1 = k /\ k + 1 > 1
    BY <1>2
  <2>2. Open(h, fs[k]) /\ fs[k + 1].old = Awaited(h, fs[k])
    BY <1>1, <2>1 DEF Called
  <2>3. Frame(h, fin, g, fs[k]) /\ fs[k + 1].old \in DOMAIN h /\ ~ Done(fin, fs[k + 1].old)
    BY <1>1, <2>1 DEF Frame
  <2>4. fs[k + 1].old # NULL
    BY <1>3, <2>3
  <2> SUFFICES ASSUME fs[k].old = f.old PROVE FALSE
    OBVIOUS
  <2> PICK j : j = fs[k].next
    OBVIOUS
  <2>5. j \in 1 .. 2 /\ j < f.next
    BY <1>8, <2>2, <2>3 DEF Frame, Open, Width
  <2>6. Copy(fin, Word(h[f.old].type, g[f.new], j), fs[k + 1].old)
    BY <1>4, <2>2, <2>5 DEF Frame, Awaited
  <2> QED
    BY <2>3, <2>4, <2>6 DEF Copy, Done
<1>10. \A k \in 1 .. Len(fs) - 1 : k \in 1 .. Len(fs) /\ fs[k].new # f.new
  <2> TAKE k \in 1 .. Len(fs) - 1
  <2>1. k \in 1 .. Len(fs) /\ k # Len(fs)
    BY <1>2
  <2>2. fs[k].new = fs[Len(fs)].new => k = Len(fs)
    BY <1>1, <1>2, <2>1 DEF Space
  <2> QED
    BY <2>1, <2>2
<1>11. Injects(more, h)
  <2>1. \A x \in DOMAIN fin : fin[x] \in DOMAIN h /\ fin[x] # f.old
    BY <1>1, <1>5 DEF Injects, Done
  <2>2. more = [x \in DOMAIN more |-> more[x]]
    BY DEF With
  <2>3. \A x \in DOMAIN more : more[x] \in DOMAIN h
    BY <1>5, <1>6, <2>1
  <2>4. more \in [DOMAIN more -> DOMAIN h]
    BY <2>2, <2>3
  <2>5. \A x, y \in DOMAIN more : more[x] = more[y] => x = y
    BY <1>1, <1>6, <2>1 DEF Injects
  <2> QED
    BY <2>4, <2>5 DEF Injects
<1>12. Space(h, more, g2, fs2, c, n)
  <2>1. {fs[k].new : k \in 1 .. Len(fs)} = {fs2[k].new : k \in 1 .. Len(fs2)} \cup {f.new}
    <3>1. \A k \in 1 .. Len(fs) : k = Len(fs) \/ k \in 1 .. Len(fs2)
      BY <1>2
    <3>2. \A k \in 1 .. Len(fs2) : k \in 1 .. Len(fs)
      BY <1>10, <1>2
    <3> QED
      BY <1>2, <3>1, <3>2
  <2>2. DOMAIN g2 = DOMAIN h \cup DOMAIN more \cup {fs2[k].new : k \in 1 .. Len(fs2)}
    BY <1>1, <1>6, <1>7, <2>1 DEF Space
  <2>3. \A x \in DOMAIN more : x \in Half - c .. n - 1
    BY <1>1, <1>2, <1>6 DEF Space
  <2>4. \A k \in 1 .. Len(fs2) : fs2[k].new \in Half - c .. n - 1
    BY <1>1, <1>2, <1>10 DEF Space
  <2>5. \A j, k \in 1 .. Len(fs2) : fs2[j].new = fs2[k].new => j = k
    BY <1>1, <1>2, <1>10 DEF Space
  <2> QED
    BY <1>1, <1>7, <2>2, <2>3, <2>4, <2>5 DEF Space
<1>13. ASSUME NEW x \in DOMAIN more PROVE CopiedChunk(more, g2, h, x)
  <2>1. CASE x \in DOMAIN fin
    <3>1. g2[x] = g[x]
      BY <1>3, <1>5, <1>7, <2>1
    <3> QED
      BY <1>1, <1>6, <2>1, <3>1, ChunkStays
  <2>2. CASE x = f.new
    <3>1. g2[x] = g[x] /\ more[x] = f.old
      BY <1>4, <1>5, <1>6, <1>7, <2>2
    <3>2. g2[x] = Record(g2[x])
      BY <1>4, <1>7, <2>2 DEF Records
    <3>3. g[x].type = h[f.old].type /\ (g[x].type \notin Refers => g[x].a = h[f.old].a)
      BY <1>4, <2>2 DEF Frame
    <3>4. CASE h[f.old].type \in Refers
      <4>1. 1 < f.next /\ 2 < f.next
        BY <1>8, <3>4 DEF Width
      <4>2. /\ Copy(fin, Word(h[f.old].type, g[x], 1), Word(h[f.old].type, h[f.old], 1))
            /\ Copy(fin, Word(h[f.old].type, g[x], 2), Word(h[f.old].type, h[f.old], 2))
        BY <1>4, <2>2, <4>1 DEF Frame
      <4>3. Copy(fin, g[x].a, h[f.old].a) /\ Copy(fin, g[x].b, h[f.old].b)
        BY <4>2 DEF Word
      <4> QED
        BY <1>6, <3>1, <3>2, <3>3, <4>3, <3>4 DEF CopiedChunk
    <3>5. CASE h[f.old].type \notin Refers
      BY <3>1, <3>2, <3>3, <3>5 DEF CopiedChunk
    <3> QED
      BY <3>4, <3>5
  <2> QED
    BY <1>6, <2>1, <2>2
<1>14. ASSUME NEW i \in DOMAIN h PROVE Original(h, more, g2, i)
  <2>0. h[i].type \notin {"moved", "clobbered"} /\ i \in DOMAIN g
    BY <1>1, <1>3 DEF Fine, Types
  <2>1. CASE i = f.old
    BY <1>6, <1>7, <2>0, <2>1 DEF Original
  <2>2. CASE i # f.old /\ g2[i] = g[i]
    BY <1>1, <1>6, <2>2 DEF Original
  <2>3. CASE /\ i # f.old /\ PointerSize = 8
             /\ g2[i].type = "clobbered" /\ g2[i].a = g[i].a /\ g2[i].b = g[i].b
    BY <1>1, <1>6, <2>0, <2>3 DEF Original
  <2> QED
    BY <2>0, <2>1, <2>2, <2>3 DEF Marks
<1>15. ASSUME NEW k \in 1 .. Len(fs2) PROVE Frame(h, more, g2, fs2[k])
  <2>1. k \in 1 .. Len(fs) - 1 /\ k \in 1 .. Len(fs) /\ fs2[k] = fs[k]
    BY <1>2, <1>10
  <2>2. Frame(h, fin, g, fs[k]) /\ fs[k].old # f.old /\ fs[k].new # f.new
    BY <1>1, <1>9, <1>10, <2>1
  <2>3. g2[fs[k].new] = g[fs[k].new]
    BY <1>3, <1>5, <1>7, <2>1
  <2>4. ~ Done(more, fs[k].old) /\ fs[k].new \notin DOMAIN more
    BY <1>6, <2>2 DEF Frame
  <2> QED
    BY <1>6, <2>1, <2>2, <2>3, <2>4, FrameStays
<1>16. Called(h, fs2)
  <2> SUFFICES ASSUME NEW k \in 1 .. Len(fs2), k > 1
               PROVE  Open(h, fs2[k - 1]) /\ fs2[k].old = Awaited(h, fs2[k - 1])
    BY DEF Called
  <2>1. k \in 1 .. Len(fs) /\ k - 1 \in 1 .. Len(fs2)
    BY <1>2
  <2> QED
    BY <1>1, <1>2, <2>1 DEF Called
<1> QED
  BY <1>1, <1>2, <1>11, <1>12, <1>13, <1>14, <1>15, <1>16 DEF Memory

-----------------------------------------------------------------------------
(* A step of a collection.                                                 *)

(* A collection began with the heap h, the locals l, the registers r and   *)
(* the bindings b.                                                         *)
Copying(h, l, r, b, fin) ==
  /\ Memory(h, fin, heap, frames, current_heap, heap_position)
  /\ RootsMoved(fin, BoundOf(b), root, l, b, r, loc, bindings, registers)
  /\ frames # <<>> => /\ root <= Count(BoundOf(b), r)
                      /\ frames[1].old = Root(BoundOf(b), l, b, r, root)

(* The pointer p is to be moved next. *)
Waited(h, l, r, b, fs, p) ==
  /\ root <= Count(BoundOf(b), r)
  /\ IF fs = <<>> THEN p = Root(BoundOf(b), l, b, r, root)
     ELSE /\ Open(h, fs[Len(fs)]) /\ p = Awaited(h, fs[Len(fs)])
          /\ fs[1].old = Root(BoundOf(b), l, b, r, root)

LEMMA FieldsAre ==
  ASSUME NEW type
  PROVE  /\ Len(Fields(type)) = Width(type)
         /\ type \in Refers => \A k \in 1 .. 2 :
              Fields(type)[k] = IF (k = 1) = (type = "node") THEN "b" ELSE "a"
<1>1. CASE type = "node"
  <2> PICK s : s = <<"b", "a">>
    OBVIOUS
  <2>1. Len(s) = 2 /\ s[1] = "b" /\ s[2] = "a"
    OBVIOUS
  <2>2. Fields(type) = s /\ Width(type) = 2
    BY <1>1 DEF Fields, Width, Refers
  <2>3. ASSUME NEW k \in 1 .. 2 PROVE s[k] = IF (k = 1) = (type = "node") THEN "b" ELSE "a"
    <3>1. k = 1 \/ k = 2
      OBVIOUS
    <3> QED
      BY <1>1, <2>1, <3>1
  <2> QED
    BY <2>1, <2>2, <2>3
<1>2. CASE type \in {"list", "block"}
  <2> PICK s : s = <<"a", "b">>
    OBVIOUS
  <2>1. Len(s) = 2 /\ s[1] = "a" /\ s[2] = "b"
    OBVIOUS
  <2>2. Fields(type) = s /\ Width(type) = 2 /\ type # "node"
    BY <1>2 DEF Fields, Width, Refers
  <2>3. ASSUME NEW k \in 1 .. 2 PROVE s[k] = IF (k = 1) = (type = "node") THEN "b" ELSE "a"
    <3>1. k = 1 \/ k = 2
      OBVIOUS
    <3> QED
      BY <2>1, <2>2, <3>1
  <2> QED
    BY <2>1, <2>2, <2>3
<1>3. CASE type \notin Refers
  <2>1. Fields(type) = <<>> /\ Width(type) = 0
    BY <1>3 DEF Fields, Width, Refers
  <2> QED
    BY <1>3, <2>1
<1> QED
  BY <1>1, <1>2, <1>3 DEF Refers

(* What the roots are, during a collection *)
LEMMA RootsMovedFacts ==
  ASSUME NEW b, NEW B, B = BoundOf(b), NEW fin, NEW l, NEW r,
         RootsMoved(fin, B, root, l, b, r, loc, bindings, registers)
  PROVE  /\ bound = B /\ Len(Roots) = Count(B, r) /\ Count(B, r) \in Nat /\ root \in 1 .. Count(B, r) + 1
         /\ root <= Count(B, r) => Roots[root] = Root(B, l, b, r, root)
<1>1. /\ bindings \in [Symbol -> Int] /\ \A t \in Symbol : bindings[t] = NULL <=> b[t] = NULL
      /\ registers \in Seq(Int) /\ Len(registers) = Len(r)
      /\ root \in 1 .. Count(B, r) + 1
      /\ \A i \in 1 .. Count(B, r) :
           i < root \/ Root(B, loc, bindings, registers, i) = Root(B, l, b, r, i)
  BY DEF RootsMoved
<1>2. B = BoundOf(bindings)
  BY <1>1, BoundSame
<1>3. B \in Seq(Symbol)
  BY BoundFacts
<1>4. /\ bound = B
      /\ Len(Roots) = Count(B, registers) /\ Count(B, registers) \in Nat
      /\ \A k \in 1 .. Count(B, registers) : Roots[k] = Root(B, loc, bindings, registers, k)
  BY <1>1, <1>2, <1>3, RootsAre
<1>5. Count(B, registers) = Count(B, r)
  BY <1>1 DEF Count
<1>6. root <= Count(B, r) => root \in 1 .. Count(B, r) /\ ~ root < root
  BY <1>1, <1>4, <1>5
<1> QED
  BY <1>1, <1>4, <1>5, <1>6

LEMMA RootInHeap ==
  ASSUME NEW h, NEW l, NEW r, NEW b, NEW o, Sane(h, l, r, b, o),
         NEW B, B = BoundOf(b), NEW k, k \in 1 .. Count(B, r)
  PROVE  Root(B, l, b, r, k) \in OrNull(DOMAIN h)
<1>1. /\ l["ds"] \in OrNull(DOMAIN h) /\ l["cs"] \in OrNull(DOMAIN h)
      /\ \A s \in Symbol : b[s] \in OrNull(DOMAIN h)
      /\ r \in Seq(DOMAIN h)
  BY DEF Sane, Rooted, OrNull, Lists, Values
<1>2. B \in Seq(Symbol) /\ Len(B) \in Nat
  BY BoundFacts
<1>3. Len(r) \in Nat /\ k \in 1 .. 2 + Len(B) + Len(r)
  BY <1>1 DEF Count
<1>4. CASE k = 1 \/ k = 2
  BY <1>1, <1>4 DEF Root
<1>5. CASE k > 2 /\ k <= 2 + Len(B)
  <2>1. k - 2 \in 1 .. Len(B) /\ k # 1 /\ k # 2
    BY <1>2, <1>3, <1>5
  <2>2. B[k - 2] \in Symbol
    BY <1>2, <2>1
  <2> QED
    BY <1>1, <1>5, <2>1, <2>2 DEF Root
<1>6. CASE k > 2 + Len(B)
  <2>1. k - 2 - Len(B) \in 1 .. Len(r) /\ k # 1 /\ k # 2 /\ ~ k <= 2 + Len(B)
    BY <1>2, <1>3, <1>6
  <2>2. r[k - 2 - Len(B)] \in DOMAIN h
    BY <1>1, <2>1
  <2> QED
    BY <2>1, <2>2 DEF Root, OrNull
<1> QED
  BY <1>2, <1>3, <1>4, <1>5, <1>6

LEMMA PointerIs ==
  ASSUME NEW h, NEW l, NEW r, NEW b, NEW o, Sane(h, l, r, b, o),
         NEW fin, Copying(h, l, r, b, fin), NEW p, Pointer(p)
  PROVE  Waited(h, l, r, b, frames, p) /\ p \in OrNull(DOMAIN h)
<1> PICK B : B = BoundOf(b)
  OBVIOUS
<1>1. /\ Memory(h, fin, heap, frames, current_heap, heap_position)
      /\ RootsMoved(fin, B, root, l, b, r, loc, bindings, registers)
      /\ frames # <<>> => root <= Count(B, r) /\ frames[1].old = Root(B, l, b, r, root)
  BY DEF Copying
<1>2. /\ Len(Roots) = Count(B, r) /\ Count(B, r) \in Nat /\ root \in 1 .. Count(B, r) + 1
      /\ root <= Count(B, r) => Roots[root] = Root(B, l, b, r, root)
  BY <1>1, RootsMovedFacts
<1>3. CASE frames = <<>>
  <2>1. root <= Count(B, r) /\ p = Root(B, l, b, r, root)
    BY <1>2, <1>3 DEF Pointer
  <2>2. root \in 1 .. Count(B, r)
    BY <1>2, <2>1
  <2> QED
    BY <1>3, <2>1, <2>2, RootInHeap DEF Waited
<1>4. CASE frames # <<>>
  <2> PICK f : f = frames[Len(frames)]
    OBVIOUS
  <2>0. frames \in Seq([old : Nat, new : Nat, next : Nat])
    BY <1>1 DEF Memory
  <2>1. Len(frames) \in 1 .. Len(frames) /\ top = f
    BY <1>4, <2>0, LastFacts DEF top, Last
  <2>2. Frame(h, fin, heap, f) /\ Fine(h) /\ \A i \in DOMAIN h : Original(h, fin, heap, i)
    BY <1>1, <2>1 DEF Memory
  <2>3. /\ f.old \in DOMAIN h /\ ~ Done(fin, f.old) /\ heap[f.new].type = h[f.old].type
        /\ f.next \in 1 .. Width(h[f.old].type) + 1 /\ Width(h[f.old].type) \in Nat
    BY <2>2 DEF Frame, Width
  <2>4. heap[f.old].a = h[f.old].a /\ heap[f.old].b = h[f.old].b
    BY <2>2, <2>3 DEF Original
  <2>5. ~ f.next > Len(Fields(h[f.old].type)) /\ p = heap[f.old][Fields(h[f.old].type)[f.next]]
    BY <1>4, <2>1, <2>3 DEF Pointer, AllMoved, field
  <2>6. Open(h, f)
    BY <2>3, <2>5, FieldsAre, SMTT(60) DEF Open
  <2>7. Awaited(h, f) \in OrNull(DOMAIN h) /\ f.next \in 1 .. 2 /\ h[f.old].type \in Refers
    BY <2>2, <2>3, <2>6, AwaitedFacts
  <2>8. p = Awaited(h, f)
    <3>1. Fields(h[f.old].type)[f.next] = IF (f.next = 1) = (h[f.old].type = "node") THEN "b" ELSE "a"
      BY <2>7, FieldsAre
    <3> QED
      BY <2>4, <2>5, <3>1 DEF Awaited, Word
  <2> QED
    BY <1>1, <1>4, <2>6, <2>7, <2>8 DEF Waited
<1> QED
  BY <1>3, <1>4

(* The new address is returned to the frame below, or to collect_garbage.  *)
LEMMA StoredCopies ==
  ASSUME NEW h, NEW l, NEW r, NEW b, NEW fin, NEW g, NEW fs,
         Memory(h, fin, g, fs, current_heap, heap_position),
         RootsMoved(fin, BoundOf(b), root, l, b, r, loc, bindings, registers),
         NEW p, Waited(h, l, r, b, fs, p), NEW new, Copy(fin, new, p), Stored(new, g, fs)
  PROVE  Copying(h, l, r, b, fin)'
<1> PICK B : B = BoundOf(b)
  OBVIOUS
<1>1. root <= Count(B, r) /\ RootsMoved(fin, B, root, l, b, r, loc, bindings, registers)
  BY DEF Waited
<1>2. bound = B /\ root \in 1 .. Count(B, r) + 1 /\ Count(B, r) \in Nat
  BY <1>1, RootsMovedFacts
<1>3. UNCHANGED <<current_heap, heap_position>>
  BY DEF Stored
<1>4. CASE fs = <<>>
  <2>1. StoreInRoot(new, g) /\ Copy(fin, new, Root(B, l, b, r, root))
    BY <1>4 DEF Stored, Waited
  <2>2. heap' = g /\ frames' = fs /\ root' = root + 1
    BY <1>4, <2>1 DEF StoreInRoot
  <2>3. RootPut(B, root, new, loc, bindings, registers, loc', bindings', registers')
    BY <1>2, <2>1 DEF StoreInRoot, RootPut
  <2>4. DOMAIN fin \subseteq Nat
    <3>1. Space(h, fin, g, fs, current_heap, heap_position)
      BY DEF Memory
    <3> QED
      BY <3>1, SpaceApart
  <2> PICK k, m, d, s : k = root /\ m = loc /\ d = bindings /\ s = registers
    OBVIOUS
  <2> PICK m2, d2, s2 : m2 = loc' /\ d2 = bindings' /\ s2 = registers'
    OBVIOUS
  <2>5. /\ RootsMoved(fin, B, k, l, b, r, m, d, s) /\ k <= Count(B, r)
        /\ RootPut(B, k, new, m, d, s, m2, d2, s2) /\ Copy(fin, new, Root(B, l, b, r, k))
    BY <1>1, <2>1, <2>3
  <2>6. RootsMoved(fin, B, k + 1, l, b, r, m2, d2, s2)
    BY ONLY <2>4, <2>5, B = BoundOf(b), RootMoves
  <2> QED
    BY <1>3, <1>4, <2>2, <2>6 DEF Copying
<1>5. CASE fs # <<>>
  <2> PICK f : f = fs[Len(fs)]
    OBVIOUS
  <2>1. fs \in Seq([old : Nat, new : Nat, next : Nat]) /\ Fine(h)
    BY DEF Memory
  <2>2. Len(fs) \in 1 .. Len(fs) /\ Last(fs) = f /\ 1 \in 1 .. Len(fs)
    BY <1>5, <2>1 DEF Last
  <2>3. Frame(h, fin, g, f) /\ Open(h, f) /\ p = Awaited(h, f) /\ fs[1].old = Root(B, l, b, r, root)
    BY <1>5, <2>2 DEF Waited, Memory
  <2>4. f.old \in DOMAIN h /\ g[f.new].type = h[f.old].type /\ f.next \in Nat /\ f.next >= 1
    BY <2>3 DEF Frame, Width
  <2>5. f.next \in 1 .. 2 /\ h[f.old].type \in Refers
    BY <2>1, <2>3, <2>4, AwaitedFacts
  <2>6. /\ heap' = [g EXCEPT ![f.new][Fields(h[f.old].type)[f.next]] = new]
        /\ frames' = [fs EXCEPT ![Len(fs)].next = @ + 1]
        /\ UNCHANGED <<loc, bindings, registers, root>>
    BY <1>5, <2>2, <2>4 DEF Stored
  <2>7. Put(heap', g, f.new, h[f.old].type, f.next, new)
    <3>1. Fields(h[f.old].type)[f.next] = IF (f.next = 1) = (h[f.old].type = "node") THEN "b" ELSE "a"
      BY <2>5, FieldsAre
    <3> QED
      BY <2>6, <3>1 DEF Put, PutA, PutB
  <2>8. Stepped(frames', fs)
    BY <2>6 DEF Stepped
  <2> PICK g2, fs2, c, n : g2 = heap' /\ fs2 = frames' /\ c = current_heap /\ n = heap_position
    OBVIOUS
  <2>9. /\ Memory(h, fin, g, fs, c, n) /\ Put(g2, g, f.new, h[f.old].type, f.next, new)
        /\ Stepped(fs2, fs) /\ Copy(fin, new, Awaited(h, f))
    BY <2>3, <2>7, <2>8
  <2>10. Memory(h, fin, g2, fs2, c, n)
    BY ONLY <1>5, <2>3, <2>9, f = fs[Len(fs)], MemoryStores
  <2>11. fs2[1].old = fs[1].old
    BY <1>5, <2>1, <2>2, <2>9, SteppedFacts
  <2> QED
    BY <1>1, <1>3, <2>3, <2>6, <2>10, <2>11 DEF Copying
<1> QED
  BY <1>4, <1>5

(* NULL stays NULL. *)
LEMMA NullCopies ==
  ASSUME NEW h, NEW l, NEW r, NEW b, NEW o, Sane(h, l, r, b, o),
         NEW fin, Copying(h, l, r, b, fin), Null
  PROVE  Copying(h, l, r, b, fin)'
<1> PICK g, fs : g = heap /\ fs = frames
  OBVIOUS
<1>1. Pointer(NULL) /\ Stored(NULL, g, fs)
  BY DEF Null
<1>2. Waited(h, l, r, b, fs, NULL)
  BY <1>1, PointerIs
<1>3. Copy(fin, NULL, NULL)
  BY DEF Copy
<1> QED
  BY <1>1, <1>2, <1>3, StoredCopies DEF Copying

(* A chunk that has been copied tells of its copy. *)
LEMMA KnownCopies ==
  ASSUME NEW h, NEW l, NEW r, NEW b, NEW o, Sane(h, l, r, b, o),
         NEW fin, Copying(h, l, r, b, fin), Known
  PROVE  Copying(h, l, r, b, fin)'
<1> PICK g, fs : g = heap /\ fs = frames
  OBVIOUS
<1> PICK p \in DOMAIN g : Pointer(p) /\ g[p].type = "moved" /\ Stored(g[p].a, g, fs)
  BY DEF Known
<1> PICK new : new = g[p].a
  OBVIOUS
<1>1. Waited(h, l, r, b, fs, p) /\ p \in OrNull(DOMAIN h)
  BY PointerIs
<1>2. Memory(h, fin, g, fs, current_heap, heap_position)
  BY DEF Copying
<1>3. Space(h, fin, g, fs, current_heap, heap_position) /\ \A i \in DOMAIN h : Original(h, fin, g, i)
  BY <1>2 DEF Memory
<1>4. NULL \notin DOMAIN g
  BY <1>3, SpaceApart
<1>5. p \in DOMAIN h /\ Original(h, fin, g, p)
  BY <1>1, <1>3, <1>4 DEF OrNull
<1>6. new \in DOMAIN fin /\ fin[new] = p
  BY <1>5 DEF Original
<1>7. Copy(fin, new, p)
  BY <1>4, <1>6 DEF Copy
<1>8. RootsMoved(fin, BoundOf(b), root, l, b, r, loc, bindings, registers)
  BY DEF Copying
<1> QED
  BY <1>1, <1>2, <1>7, <1>8, StoredCopies

LEMMA HalvesAre ==
  ASSUME current_heap \in {0, Half}
  PROVE  free_heap = Half - current_heap /\ free_heap \in {0, Half} /\ Half - free_heap = current_heap
BY HalfAssumption DEF free_heap

LEMMA SizeIs ==
  ASSUME NEW type
  PROVE  sizeof_chunk(type) \in Nat \ {0}
BY PointerAssumption DEF sizeof_chunk

(* A copy is begun: or the process ends.                                   *)
LEMMA EnterCopies ==
  ASSUME NEW h, NEW l, NEW r, NEW b, NEW o, Sane(h, l, r, b, o),
         NEW fin, Copying(h, l, r, b, fin), Enter
  PROVE  /\ Copying(h, l, r, b, fin)'
         /\ process' \in {process, "overrun", "unknown_type"}
         /\ process' = "unknown_type" /\ process # "unknown_type" => PointerSize = 8
<1> PICK g, fs, c, n : g = heap /\ fs = frames /\ c = current_heap /\ n = heap_position
  OBVIOUS
<1> PICK p \in DOMAIN g :
       /\ Pointer(p) /\ g[p].type # "moved"
       /\ IF g[p].type = "clobbered"
          THEN process' = "unknown_type" /\ UNCHANGED <<heap, id, frames, heap_position>>
          ELSE IF n + sizeof_chunk(g[p].type) > free_heap + Half
          THEN process' = "overrun" /\ UNCHANGED <<heap, id, frames, heap_position>>
          ELSE /\ heap' = With(g, n, g[p])
               /\ frames' = Append(fs, [old |-> p, new |-> n, next |-> 1])
               /\ heap_position' = n + sizeof_chunk(g[p].type)
               /\ UNCHANGED process
  BY DEF Enter
<1>1. UNCHANGED <<loc, registers, bindings, current_heap, root>>
  BY DEF Enter
<1>2. Waited(h, l, r, b, fs, p) /\ p \in OrNull(DOMAIN h)
  BY PointerIs
<1>3. /\ Memory(h, fin, g, fs, c, n)
      /\ RootsMoved(fin, BoundOf(b), root, l, b, r, loc, bindings, registers)
      /\ fs # <<>> => /\ root <= Count(BoundOf(b), r)
                      /\ fs[1].old = Root(BoundOf(b), l, b, r, root)
  BY DEF Copying
<1>4. Space(h, fin, g, fs, c, n) /\ \A i \in DOMAIN h : Original(h, fin, g, i)
  BY <1>3 DEF Memory
<1>5. NULL \notin DOMAIN g /\ n \in Nat /\ (n < Half - c + Half => n \notin DOMAIN g)
  BY <1>4, SpaceApart
<1>6. p \in DOMAIN h /\ Original(h, fin, g, p)
  BY <1>2, <1>4, <1>5 DEF OrNull
<1>7. CASE UNCHANGED <<heap, frames, heap_position>> /\ process' = "overrun"
  BY <1>1, <1>3, <1>7 DEF Copying
<1>8. CASE UNCHANGED <<heap, frames, heap_position>> /\ process' = "unknown_type" /\ g[p].type = "clobbered"
  <2>1. PointerSize = 8
    BY <1>6, <1>8 DEF Original
  <2> QED
    BY <1>1, <1>3, <1>8, <2>1 DEF Copying
<1>9. CASE /\ g[p].type \notin {"moved", "clobbered"} /\ ~ n + sizeof_chunk(g[p].type) > free_heap + Half
           /\ heap' = With(g, n, g[p])
           /\ frames' = Append(fs, [old |-> p, new |-> n, next |-> 1])
           /\ heap_position' = n + sizeof_chunk(g[p].type)
           /\ UNCHANGED process
  <2>1. c \in {0, Half} /\ free_heap = Half - c
    <3>1. c \in {0, Half}
      BY <1>4 DEF Space
    <3> QED
      BY <3>1, HalvesAre
  <2> PICK g2, fs2, n2, size : g2 = heap' /\ fs2 = frames' /\ n2 = heap_position' /\ size = sizeof_chunk(g[p].type)
    OBVIOUS
  <2>2. size \in Nat \ {0} /\ n2 = n + size /\ ~ n + size > Half - c + Half
    BY <1>9, <2>1, SizeIs
  <2>3. n2 \in Nat /\ n < n2 /\ n2 <= Half - c + Half /\ n < Half - c + Half
    BY <1>5, <2>1, <2>2, HalfAssumption
  <2>4. Joins(g2, g, n, g[p])
    BY <1>5, <1>9, <2>3 DEF Joins, With
  <2>5. Entered(fs2, fs, p, n)
    BY <1>9 DEF Entered
  <2>6. Follows(h, fs, p)
    BY <1>2 DEF Waited, Follows
  <2>7. g[p].type \notin {"moved", "clobbered"}
    BY <1>9
  <2>8. Memory(h, fin, g2, fs2, c, n2)
    BY ONLY <1>3, <1>6, <2>3, <2>4, <2>5, <2>6, <2>7, MemoryEnter
  <2>9. fs2[1].old = Root(BoundOf(b), l, b, r, root) /\ root <= Count(BoundOf(b), r)
    <3>1. fs \in Seq([old : Nat, new : Nat, next : Nat])
      BY <1>3 DEF Memory
    <3> DEFINE f == [old |-> p, new |-> n, next |-> 1]
    <3>2. fs2 = Append(fs, f) /\ f.old = p
      BY <2>5 DEF Entered
    <3> HIDE DEF f
    <3>3. CASE fs = <<>>
      <4>1. fs2 = <<f>>
        BY <3>2, <3>3
      <4> QED
        BY <1>2, <3>2, <3>3, <4>1 DEF Waited
    <3>4. CASE fs # <<>>
      <4>1. fs2[1] = fs[1]
        BY <3>1, <3>2, <3>4
      <4> QED
        BY <1>3, <3>4, <4>1
    <3> QED
      BY <3>3, <3>4
  <2> QED
    BY <1>1, <1>3, <1>9, <2>8, <2>9 DEF Copying
<1> QED
  BY <1>7, <1>8, <1>9

(* What is written over the end of an old chunk is not a type. *)
LEMMA MarkedMarks ==
  ASSUME Records(heap), current_heap \in Nat, NEW old, old \in DOMAIN heap, old \in Nat, NEW new
  PROVE  Marks(Marked(old, new), heap, old, new, current_heap)
<1> PICK g, c : g = heap /\ c = current_heap
  OBVIOUS
<1> PICK size : size = sizeof_chunk(g[new].type)
  OBVIOUS
<1> PICK behind : behind = old + size
  OBVIOUS
<1> PICK g2 : g2 = Marked(old, new)
  OBVIOUS
<1>1. g2 = [x \in DOMAIN g |->
              IF x = old THEN [type |-> "moved", a |-> new, b |-> NULL]
              ELSE IF x = behind /\ old + sizeof_moved_chunk > behind /\ old >= c /\ behind < c + Half
              THEN [g[x] EXCEPT !.type = "clobbered"]
              ELSE g[x]]
  BY DEF Marked
<1>2. DOMAIN g2 = DOMAIN g /\ g2[old] = [type |-> "moved", a |-> new, b |-> NULL]
  BY <1>1
<1>3. size \in Nat \ {0} /\ (old + sizeof_moved_chunk > behind => PointerSize = 8)
  BY PointerAssumption DEF sizeof_chunk, sizeof_moved_chunk
<1>4. ASSUME NEW x \in DOMAIN g, x # old, g2[x] # g[x]
      PROVE  /\ PointerSize = 8 /\ x \in c .. c + Half - 1
             /\ g2[x].type = "clobbered" /\ g2[x].a = g[x].a /\ g2[x].b = g[x].b
             /\ g2[x] = Record(g2[x])
  <2>1. /\ x = behind /\ old + sizeof_moved_chunk > behind /\ old >= c /\ behind < c + Half
        /\ g2[x] = [g[x] EXCEPT !.type = "clobbered"]
    BY <1>1, <1>4
  <2>2. PointerSize = 8 /\ x \in c .. c + Half - 1
    BY <1>3, <2>1, HalfAssumption
  <2>3. g[x] = [type |-> g[x].type, a |-> g[x].a, b |-> g[x].b]
    BY DEF Records, Record
  <2>4. g2[x] = [type |-> "clobbered", a |-> g[x].a, b |-> g[x].b]
    BY <2>1, <2>3
  <2> QED
    BY <2>2, <2>4 DEF Record
<1> QED
  BY <1>2, <1>4 DEF Marks

LEMMA RootsStayMoved ==
  ASSUME NEW fin, NEW B, NEW k, NEW l, NEW b, NEW r, NEW m, NEW d, NEW s,
         RootsMoved(fin, B, k, l, b, r, m, d, s),
         NEW more, \A y, p : Copy(fin, y, p) => Copy(more, y, p)
  PROVE  RootsMoved(more, B, k, l, b, r, m, d, s)
BY DEF RootsMoved

(* A copy is finished, and what it is a copy of is marked.                 *)
LEMMA LeaveCopies ==
  ASSUME NEW h, NEW l, NEW r, NEW b, NEW o, Sane(h, l, r, b, o),
         NEW fin, Copying(h, l, r, b, fin), Leave
  PROVE  \E more : more = With(fin, top.new, top.old) /\ Copying(h, l, r, b, more)'
<1> PICK g, fs, c, n : g = heap /\ fs = frames /\ c = current_heap /\ n = heap_position
  OBVIOUS
<1>1. /\ Memory(h, fin, g, fs, c, n)
      /\ RootsMoved(fin, BoundOf(b), root, l, b, r, loc, bindings, registers)
      /\ fs # <<>> => /\ root <= Count(BoundOf(b), r)
                      /\ fs[1].old = Root(BoundOf(b), l, b, r, root)
  BY DEF Copying
<1>2. fs # <<>> /\ AllMoved(top)
  BY DEF Leave
<1>3. /\ fs \in Seq([old : Nat, new : Nat, next : Nat]) /\ Space(h, fin, g, fs, c, n)
      /\ Called(h, fs) /\ \A k \in 1 .. Len(fs) : Frame(h, fin, g, fs[k])
  BY <1>1 DEF Memory
<1> PICK f : f = fs[Len(fs)]
  OBVIOUS
<1>4. Len(fs) \in 1 .. Len(fs) /\ 1 \in 1 .. Len(fs) /\ top = f
  BY <1>2, <1>3 DEF top, Last
<1>5. /\ Frame(h, fin, g, f) /\ f.new \notin DOMAIN fin /\ f.old \in DOMAIN h
      /\ g[f.new].type = h[f.old].type
  BY <1>3, <1>4 DEF Frame
<1>6. ~ Open(h, f)
  <2>1. f.next > Width(h[f.old].type)
    BY <1>2, <1>4, <1>5, FieldsAre DEF AllMoved
  <2>2. f.next \in 1 .. Width(h[f.old].type) + 1 /\ Width(h[f.old].type) \in Nat
    BY <1>5 DEF Frame, Width
  <2> QED
    BY <2>1, <2>2 DEF Open
<1>7. /\ DOMAIN h \subseteq DOMAIN g /\ DOMAIN h \subseteq Nat /\ c \in Nat
      /\ f.new \in DOMAIN g /\ NULL \notin DOMAIN g
  BY <1>3, <1>4, SpaceApart
<1> PICK g2, fs2 : g2 = Marked(f.old, f.new) /\ fs2 = Front(fs)
  OBVIOUS
<1>8. Marks(g2, g, f.old, f.new, c)
  <2>1. Records(g)
    BY <1>3 DEF Space
  <2> QED
    BY <1>5, <1>7, <2>1, MarkedMarks
<1>9. Dropped(fs2, fs)
  BY DEF Dropped
<1> PICK more : more = With(fin, f.new, f.old)
  OBVIOUS
<1>10. Memory(h, more, g2, fs2, c, n)
  BY ONLY <1>1, <1>2, <1>6, <1>8, <1>9, f = fs[Len(fs)], more = With(fin, f.new, f.old), MemoryLeaves
<1>11. more[f.new] = f.old /\ f.new \in DOMAIN more /\ f.old # NULL
  BY <1>5, <1>7 DEF With
<1>12. \A y, p : Copy(fin, y, p) => Copy(more, y, p)
  <2> PICK x, i : x = f.new /\ i = f.old
    OBVIOUS
  <2>1. x \notin DOMAIN fin /\ x # NULL /\ more = With(fin, x, i)
    BY <1>5, <1>7
  <2> QED
    BY ONLY <2>1, CopyGrows
<1>13. Copy(more, f.new, f.old)
  BY <1>11 DEF Copy
<1>14. RootsMoved(more, BoundOf(b), root, l, b, r, loc, bindings, registers)
  BY <1>1, <1>12, RootsStayMoved
<1>15. Waited(h, l, r, b, fs2, f.old)
  <2>1. /\ fs2 \in Seq([old : Nat, new : Nat, next : Nat]) /\ Len(fs2) = Len(fs) - 1
        /\ \A k \in 1 .. Len(fs2) : fs2[k] = fs[k]
    BY <1>2, <1>3, <1>9, DroppedFacts
  <2>2. CASE Len(fs) = 1
    <3>1. fs2 = <<>> /\ f.old = fs[1].old
      BY <2>1, <2>2
    <3> QED
      BY <1>1, <1>2, <3>1 DEF Waited
  <2>3. CASE Len(fs) > 1
    <3> PICK j : j = Len(fs) - 1
      OBVIOUS
    <3>1. fs2 # <<>> /\ j \in 1 .. Len(fs2) /\ 1 \in 1 .. Len(fs2) /\ Len(fs2) = j /\ Len(fs) - 1 = j
      BY <1>4, <2>1, <2>3
    <3>2. Open(h, fs[Len(fs) - 1]) /\ fs[Len(fs)].old = Awaited(h, fs[Len(fs) - 1])
      BY <1>3, <1>4, <2>3 DEF Called
    <3>3. Open(h, fs2[Len(fs2)]) /\ f.old = Awaited(h, fs2[Len(fs2)]) /\ fs2[1] = fs[1]
      BY <2>1, <3>1, <3>2
    <3> QED
      BY <1>1, <1>2, <3>1, <3>3 DEF Waited
  <2>4. Len(fs) \in Nat /\ Len(fs) >= 1
    BY <1>2, <1>3
  <2> QED
    BY <2>2, <2>3, <2>4
<1>16. Stored(f.new, g2, fs2)
  BY <1>4 DEF Leave
<1>17. Memory(h, more, g2, fs2, current_heap, heap_position)
  BY <1>10
<1>18. Copying(h, l, r, b, more)'
  BY <1>13, <1>14, <1>15, <1>16, <1>17, StoredCopies
<1> QED
  BY <1>4, <1>18

-----------------------------------------------------------------------------
(* A collection begins and ends.                                           *)

LEMMA StartCopies ==
  ASSUME NEW h, h = heap, NEW l, l = loc, NEW r, r = registers, NEW b, b = bindings,
         NEW o, Sane(h, l, r, b, o), DOMAIN l = Stacks, frames = <<>>, StartCollection,
         current_heap \in {0, Half}, heap_position \in current_heap .. current_heap + Half,
         DOMAIN heap \subseteq current_heap .. heap_position - 1
  PROVE  Copying(h, l, r, b, [x \in {} |-> NULL])'
<1> PICK fin : fin = [x \in {} |-> NULL]
  OBVIOUS
<1> PICK fs, c, n, B : fs = frames /\ c = current_heap /\ n = heap_position' /\ B = BoundOf(b)
  OBVIOUS
<1>1. /\ UNCHANGED <<heap, loc, registers, bindings, frames, current_heap>>
      /\ n = free_heap /\ root' = 1
  BY DEF StartCollection, machineVars
<1>2. n = Half - c /\ c \in {0, Half}
  BY <1>1, HalvesAre
<1>3. DOMAIN fin = {} /\ fs = <<>> /\ Len(fs) = 0 /\ \A i : ~ Done(fin, i)
  BY DEF Done
<1>4. Fine(h)
  BY SaneFine
<1>5. Injects(fin, h)
  BY DEF Injects
<1>6. Space(h, fin, h, fs, c, n)
  <2>1. DOMAIN h \subseteq c .. c + Half - 1
    BY <1>2, HalfAssumption
  <2>2. n \in Half - c .. Half - c + Half
    BY <1>2, HalfAssumption
  <2>3. 1 .. Len(fs) = {}
    BY <1>3
  <2>4. DOMAIN h = DOMAIN h \cup DOMAIN fin \cup {fs[k].new : k \in 1 .. Len(fs)}
    BY <1>3, <2>3
  <2> QED
    BY <1>2, <1>3, <1>4, <2>1, <2>2, <2>3, <2>4 DEF Space, Fine
<1>7. \A i \in DOMAIN h : Original(h, fin, h, i)
  BY <1>3, <1>4 DEF Original, Fine, Types
<1>8. Memory(h, fin, h, fs, c, n)
  <2>1. 1 .. Len(fs) = {} /\ fs \in Seq([old : Nat, new : Nat, next : Nat])
    BY <1>3
  <2> QED
    BY <1>3, <1>4, <1>5, <1>6, <1>7, <2>1 DEF Memory, Called
<1>9. RootsMoved(fin, B, 1, l, b, r, l, b, r)
  <2>1. b \in [Symbol -> OrNull(Values(h, l))] /\ r \in Seq(DOMAIN h) /\ DOMAIN h \subseteq Nat
    BY DEF Sane, Rooted, Words
  <2>2. b \in [Symbol -> Int]
    BY <2>1 DEF OrNull, Values, NULL
  <2>3. r \in Seq(Int)
    BY <2>1
  <2>4. Len(B) \in Nat /\ Len(r) \in Nat
    BY <2>3, BoundFacts
  <2>5. 1 \in 1 .. Count(B, r) + 1 /\ \A i \in 1 .. Count(B, r) : ~ i < 1
    BY <2>4 DEF Count
  <2> QED
    BY <2>2, <2>3, <2>5 DEF RootsMoved
<1> QED
  BY <1>1, <1>3, <1>8, <1>9 DEF Copying

LEMMA SuccessorsAre ==
  ASSUME NEW h, NEW i
  PROVE  /\ h[i].type \in Refers => Range(SuccessorsIn(h, i)) = {h[i].a, h[i].b}
         /\ h[i].type \notin Refers => Range(SuccessorsIn(h, i)) = {}
<1> DEFINE x == h[i].a
           y == h[i].b
<1>1. CASE h[i].type \in Refers
  <2>1. SuccessorsIn(h, i) = <<x, y>> \/ SuccessorsIn(h, i) = <<y, x>>
    BY <1>1 DEF SuccessorsIn, Refers
  <2> HIDE DEF x, y
  <2>2. Range(<<x, y>>) = {x, y} /\ Range(<<y, x>>) = {x, y}
    <3>1. DOMAIN <<x, y>> = {1, 2} /\ DOMAIN <<y, x>> = {1, 2}
      OBVIOUS
    <3>2. <<x, y>>[1] = x /\ <<x, y>>[2] = y /\ <<y, x>>[1] = y /\ <<y, x>>[2] = x
      OBVIOUS
    <3> QED
      BY <3>1, <3>2 DEF Range
  <2> QED
    BY <1>1, <2>1, <2>2 DEF x, y
<1>2. CASE h[i].type \notin Refers
  <2>1. SuccessorsIn(h, i) = <<>>
    BY <1>2 DEF SuccessorsIn, Refers
  <2> QED
    BY <1>2, <2>1 DEF Range
<1> QED
  BY <1>1, <1>2

(* In the end every root is a copy. *)
LEMMA RootsAllMoved ==
  ASSUME NEW b, NEW B, B = BoundOf(b), NEW fin, NEW k, NEW l, NEW r, r \in Seq(Int), NEW m, NEW d, NEW s,
         RootsMoved(fin, B, k, l, b, r, m, d, s), k > Count(B, r)
  PROVE  /\ DOMAIN m = Stacks /\ \A x \in Stacks : Copy(fin, m[x], l[x])
         /\ \A t \in Symbol : Copy(fin, d[t], b[t])
         /\ s \in Seq(Int) /\ Len(s) = Len(r) /\ \A i \in 1 .. Len(r) : Copy(fin, s[i], r[i])
         /\ d \in [Symbol -> Int]
<1>1. /\ B \in Seq(Symbol) /\ Len(B) \in Nat
      /\ \A t \in Symbol : b[t] # NULL => \E i \in 1 .. Len(B) : B[i] = t
  BY BoundFacts
<1>2. Len(r) \in Nat /\ Count(B, r) = 2 + Len(B) + Len(r)
  BY DEF Count
<1>3. \A i \in 1 .. Count(B, r) : Copy(fin, Root(B, m, d, s, i), Root(B, l, b, r, i))
  <2>1. k \in 1 .. Count(B, r) + 1 /\ Count(B, r) \in Nat
    BY <1>1, <1>2 DEF RootsMoved
  <2>2. \A i \in 1 .. Count(B, r) : i < k
    BY <2>1
  <2> QED
    BY <2>2 DEF RootsMoved
<1>4. Copy(fin, m["ds"], l["ds"]) /\ Copy(fin, m["cs"], l["cs"])
  <2>1. 1 \in 1 .. Count(B, r) /\ 2 \in 1 .. Count(B, r)
    BY <1>1, <1>2
  <2>2. Root(B, m, d, s, 1) = m["ds"] /\ Root(B, l, b, r, 1) = l["ds"]
    BY DEF Root
  <2>3. Root(B, m, d, s, 2) = m["cs"] /\ Root(B, l, b, r, 2) = l["cs"]
    BY DEF Root
  <2> QED
    BY <1>3, <2>1, <2>2, <2>3
<1>5. ASSUME NEW t \in Symbol PROVE Copy(fin, d[t], b[t])
  <2>1. CASE b[t] = NULL
    BY <2>1 DEF RootsMoved, Copy
  <2>2. CASE b[t] # NULL
    <3> PICK i \in 1 .. Len(B) : B[i] = t
      BY <1>1, <2>2
    <3>1. /\ 2 + i \in 1 .. Count(B, r) /\ (2 + i) - 2 = i /\ 2 + i # 1 /\ 2 + i # 2 /\ 2 + i <= 2 + Len(B)
      BY <1>1, <1>2
    <3>2. Root(B, m, d, s, 2 + i) = d[t] /\ Root(B, l, b, r, 2 + i) = b[t]
      BY <3>1 DEF Root
    <3> QED
      BY <1>3, <3>1, <3>2
  <2> QED
    BY <2>1, <2>2
<1>6. ASSUME NEW i \in 1 .. Len(r) PROVE Copy(fin, s[i], r[i])
  <2> PICK j : j = 2 + Len(B) + i
    OBVIOUS
  <2>1. /\ j \in 1 .. Count(B, r) /\ j - 2 - Len(B) = i /\ j # 1 /\ j # 2 /\ ~ j <= 2 + Len(B)
    BY <1>1, <1>2
  <2>2. Root(B, m, d, s, j) = s[i] /\ Root(B, l, b, r, j) = r[i]
    BY <2>1 DEF Root
  <2> QED
    BY <1>3, <2>1, <2>2
<1> QED
  BY <1>4, <1>5, <1>6 DEF RootsMoved, Stacks

(* What the roots reach, when all of them are copies, are copies.          *)
LEMMA CopiesClose ==
  ASSUME NEW h, NEW fin, NEW g, NEW fs, fs = <<>>, NEW c, NEW n, Memory(h, fin, g, fs, c, n)
  PROVE  /\ NoDangling(Successions(g)) /\ IsFiniteSet(DOMAIN g) /\ DOMAIN fin \subseteq DOMAIN g
         /\ DOMAIN fin \subseteq Half - c .. n - 1 /\ DOMAIN fin \subseteq Nat /\ NULL \notin DOMAIN g
         /\ \A i \in DOMAIN fin : g[i].type \in Refers => {g[i].a, g[i].b} \subseteq OrNull(DOMAIN fin)
         /\ Closed(Successions(g), DOMAIN fin)
<1>1. /\ Fine(h) /\ Injects(fin, h) /\ Space(h, fin, g, fs, c, n)
      /\ \A x \in DOMAIN fin : CopiedChunk(fin, g, h, x)
      /\ \A i \in DOMAIN h : Original(h, fin, g, i)
  BY DEF Memory
<1>2. DOMAIN g = DOMAIN h \cup DOMAIN fin
  <2>1. 1 .. Len(fs) = {}
    OBVIOUS
  <2> QED
    BY <1>1, <2>1 DEF Space
<1>3. /\ \A x \in DOMAIN fin : x \in Nat /\ x \in Half - c .. n - 1
      /\ n \in Nat /\ c \in Nat /\ NULL \notin DOMAIN g
  <2>1. (\A x \in DOMAIN fin : x \in Nat) /\ n \in Nat /\ c \in Nat /\ NULL \notin DOMAIN g
    BY <1>1, SpaceApart
  <2>2. \A x \in DOMAIN fin : x \in Half - c .. n - 1
    BY <1>1 DEF Space
  <2> QED
    BY <2>1, <2>2
<1>4. IsFiniteSet(DOMAIN g)
  <2>1. c + Half - 1 \in Int /\ Half - c \in Int /\ n - 1 \in Int
    BY <1>3, HalfAssumption
  <2>2. IsFiniteSet(c .. c + Half - 1) /\ IsFiniteSet(Half - c .. n - 1)
    BY <1>3, <2>1, FS_Interval
  <2>3. DOMAIN h \subseteq c .. c + Half - 1 /\ DOMAIN fin \subseteq Half - c .. n - 1
    BY <1>1, <1>3 DEF Space
  <2>4. IsFiniteSet(DOMAIN h) /\ IsFiniteSet(DOMAIN fin)
    BY <2>2, <2>3, FS_Subset
  <2> QED
    BY <1>2, <2>4, FS_Union
<1>5. \A i \in DOMAIN fin : g[i].type \in Refers => {g[i].a, g[i].b} \subseteq OrNull(DOMAIN fin)
  BY <1>1 DEF CopiedChunk, Copy, OrNull
<1>6. \A i \in DOMAIN h : g[i].type \in Refers => {g[i].a, g[i].b} \subseteq OrNull(DOMAIN h)
  BY <1>1 DEF Original, Fine, Refers
<1>7. \A i \in DOMAIN fin : Range(SuccessorsIn(g, i)) \subseteq OrNull(DOMAIN fin)
  BY <1>5, SuccessorsAre
<1>8. \A i \in DOMAIN h : Range(SuccessorsIn(g, i)) \subseteq OrNull(DOMAIN h)
  BY <1>6, SuccessorsAre
<1>9. Closed(Successions(g), DOMAIN fin)
  BY <1>2, <1>7 DEF Closed, Successions, OrNull
<1>10. NoDangling(Successions(g))
  BY <1>2, <1>3, <1>7, <1>8 DEF NoDangling, Closed, Successions, OrNull
<1> QED
  BY <1>2, <1>3, <1>4, <1>5, <1>9, <1>10

LEMMA EndIsImage ==
  ASSUME NEW h, NEW l, NEW r, NEW b, NEW o, Sane(h, l, r, b, o), DOMAIN l = Stacks,
         NEW fin, NEW g, NEW fs, fs = <<>>, NEW c, NEW n, Memory(h, fin, g, fs, c, n),
         NEW k, NEW m, NEW d, NEW s, RootsMoved(fin, BoundOf(b), k, l, b, r, m, d, s),
         k > Count(BoundOf(b), r), NEW g2, g2 = Reachable(g, m, s, d)
  PROVE  \E src : /\ Injects(src, h) /\ CopiedHeap(src, g2, h) /\ CopiedRoots(src, m, s, d, l, r, b)
                  /\ DOMAIN g2 \subseteq Half - c .. n - 1
                  /\ \A x \in DOMAIN src : x \in DOMAIN fin /\ src[x] = fin[x]
<1>1. /\ NoDangling(Successions(g)) /\ IsFiniteSet(DOMAIN g) /\ DOMAIN fin \subseteq DOMAIN g
      /\ DOMAIN fin \subseteq Half - c .. n - 1 /\ DOMAIN fin \subseteq Nat /\ NULL \notin DOMAIN g
      /\ \A i \in DOMAIN fin : g[i].type \in Refers => {g[i].a, g[i].b} \subseteq OrNull(DOMAIN fin)
      /\ Closed(Successions(g), DOMAIN fin)
  BY CopiesClose
<1>2. /\ DOMAIN m = Stacks /\ \A x \in Stacks : Copy(fin, m[x], l[x])
      /\ \A t \in Symbol : Copy(fin, d[t], b[t])
      /\ s \in Seq(Int) /\ Len(s) = Len(r) /\ \A i \in 1 .. Len(r) : Copy(fin, s[i], r[i])
      /\ d \in [Symbol -> Int]
  <2>1. r \in Seq(Int)
    BY DEF Sane, Rooted, Words
  <2> QED
    BY <2>1, RootsAllMoved
<1>3. Injects(fin, h) /\ \A x \in DOMAIN fin : CopiedChunk(fin, g, h, x)
  BY DEF Memory
<1> DEFINE from == Range(m) \cup Range(s) \cup Range(d)
<1>4. from \subseteq OrNull(DOMAIN fin)
  <2>1. \A x \in DOMAIN m : m[x] \in OrNull(DOMAIN fin)
    BY <1>2 DEF Copy, OrNull
  <2>2. \A x \in DOMAIN s : s[x] \in OrNull(DOMAIN fin)
    BY <1>2 DEF Copy, OrNull
  <2>3. \A t \in DOMAIN d : d[t] \in OrNull(DOMAIN fin)
    BY <1>2 DEF Copy, OrNull
  <2> QED
    BY <2>1, <2>2, <2>3 DEF Range
<1>5. /\ \A x \in Stacks : m[x] \in from
      /\ \A t \in Symbol : d[t] \in from
      /\ \A i \in 1 .. Len(r) : s[i] \in from
  BY <1>2 DEF Range
<1> PICK K : K = ReachIn(g, from)
  OBVIOUS
<1>6. g2 = [i \in K |-> g[i]]
  BY DEF Reachable
<1> HIDE DEF from
<1>7. K \subseteq DOMAIN fin /\ from \ {NULL} \subseteq K /\ Closed(Successions(g), K)
  <2>1. from \in SUBSET (DOMAIN g \cup {NULL}) /\ from \ {NULL} \subseteq DOMAIN fin
    BY <1>1, <1>4 DEF OrNull
  <2>2. /\ from \ {NULL} \subseteq K /\ Closed(Successions(g), K)
        /\ \A T \in SUBSET DOMAIN g : from \ {NULL} \subseteq T /\ Closed(Successions(g), T) => K \subseteq T
    BY <1>1, <2>1, ReachIsLeast
  <2> QED
    BY <1>1, <2>1, <2>2
<1>8. DOMAIN g2 = K /\ \A i \in K : g2[i] = g[i]
  BY <1>6
<1> PICK src : src = [x \in K |-> fin[x]]
  OBVIOUS
<1>9. DOMAIN src = K /\ (\A x \in K : src[x] = fin[x] /\ x \in DOMAIN fin) /\ NULL \notin K
  BY <1>1, <1>7
<1>10. \A y, p : Copy(fin, y, p) /\ y \in OrNull(K) => Copy(src, y, p)
  BY <1>1, <1>7, <1>9 DEF Copy, OrNull
<1>11. Injects(src, h)
  <2>1. \A x \in K : src[x] \in DOMAIN h
    BY <1>3, <1>9 DEF Injects
  <2>2. src \in [K -> DOMAIN h]
    BY <1>9, <2>1, src = [x \in K |-> fin[x]]
  <2> QED
    BY <1>3, <1>9, <2>2 DEF Injects
<1>12. ASSUME NEW x \in K PROVE CopiedChunk(src, g2, h, x)
  <2>1. CopiedChunk(fin, g, h, x) /\ g2[x] = g[x] /\ src[x] = fin[x] /\ x \in DOMAIN g
    BY <1>1, <1>3, <1>8, <1>9
  <2>2. g[x].type \in Refers => g[x].a \in OrNull(K) /\ g[x].b \in OrNull(K)
    <3>1. Range(SuccessorsIn(g, x)) \ {NULL} \subseteq K
      BY <1>7, <2>1 DEF Closed, Successions
    <3> QED
      BY <3>1, SuccessorsAre DEF OrNull
  <2> QED
    BY <1>10, <2>1, <2>2 DEF CopiedChunk
<1>13. CopiedHeap(src, g2, h)
  <2>1. IsFiniteSet(DOMAIN g2) /\ DOMAIN g2 \subseteq Nat
    BY <1>1, <1>7, <1>8, FS_Subset
  <2> QED
    BY <1>8, <1>9, <1>12, <2>1 DEF CopiedHeap
<1>14. CopiedRoots(src, m, s, d, l, r, b)
  <2>1. \A x \in Stacks : Copy(src, m[x], l[x])
    BY <1>2, <1>5, <1>7, <1>10 DEF OrNull
  <2>2. \A t \in Symbol : Copy(src, d[t], b[t])
    BY <1>2, <1>5, <1>7, <1>10 DEF OrNull
  <2>3. \A i \in 1 .. Len(r) : Copy(src, s[i], r[i])
    BY <1>2, <1>5, <1>7, <1>10 DEF OrNull
  <2>4. \A i \in 1 .. Len(s) : s[i] \in DOMAIN src
    <3>1. \A i \in 1 .. Len(r) : r[i] # NULL
      BY DEF Sane, Rooted, Words, NULL
    <3> QED
      BY <1>2, <2>3, <3>1 DEF Copy
  <2>5. s \in Seq(DOMAIN src)
    BY <1>2, <2>4
  <2>6. d = [t \in Symbol |-> d[t]]
    BY <1>2
  <2> QED
    BY <1>2, <2>1, <2>2, <2>3, <2>5, <2>6 DEF CopiedRoots
<1> QED
  BY <1>1, <1>7, <1>8, <1>9, <1>11, <1>13, <1>14

-----------------------------------------------------------------------------
(* The invariant.                                                          *)

(* A heap, locals, registers and bindings in order, whose program waits    *)
(* for a chunk                                                             *)
Asks(h, l, r, b) ==
  \E o : /\ Sane(h, l, r, b, o) /\ DOMAIN l = Stacks
         /\ Booting(l, r, todo) \/ \E c : Waits(h, l, r, c, todo)

Settled ==
  \E o : /\ Sane(heap, loc, registers, bindings, o)
         /\ Booting(loc, registers, todo) \/ \E c : Ready(o, c)

MachineFits == IF allocating THEN Asks(heap, loc, registers, bindings) ELSE Settled

Collecting == \E h, l, r, b, fin : Copying(h, l, r, b, fin) /\ Asks(h, l, r, b)

Filled == IF root = 0 THEN current_heap ELSE free_heap

Ranges ==
  /\ current_heap \in {0, Half} /\ heap_position \in Filled .. Filled + Half
  /\ collected \in BOOLEAN /\ DOMAIN id = DOMAIN heap

Processes ==
  /\ process \in {"running", "returned", "out_of_memory", "overrun", "unknown_type"}
  /\ PointerSize = 4 => process # "unknown_type"

Contained ==
  IF root = 0 THEN /\ frames = <<>> /\ MachineFits
                   /\ DOMAIN heap \subseteq current_heap .. heap_position - 1
  ELSE allocating /\ Collecting

SpaceInv == Ranges /\ Processes /\ Contained

LEMMA AsksFacts ==
  ASSUME SetupFits, NEW h, NEW l, NEW r, NEW b, Asks(h, l, r, b)
  PROVE  todo # <<>>
<1>1. CASE Booting(l, r, todo)
  BY <1>1, BootFacts DEF Booting
<1>2. CASE \E c : Waits(h, l, r, c, todo)
  BY <1>2 DEF Waits
<1> QED
  BY <1>1, <1>2 DEF Asks

LEMMA WorkFits ==
  ASSUME SetupFits, MachineFits, Work
  PROVE  /\ MachineFits' /\ DOMAIN heap' \subseteq DOMAIN heap
         /\ ~ allocating /\ process' \in {process, "returned"}
<1>1. CASE Operation
  <2>1. ~ allocating /\ todo # <<>>
    BY <1>1 DEF Operation, Pop, Fetch, Keep, BindSymbol, Rewinds, Hold, In
  <2>2. process' = process
    BY <1>1 DEF Operation, Pop, Fetch, Keep, BindSymbol, Rewinds, Hold, Finish
  <2> PICK o : /\ Sane(heap, loc, registers, bindings, o)
               /\ Booting(loc, registers, todo) \/ \E c : Ready(o, c)
    BY <2>1 DEF MachineFits, Settled
  <2>3. CASE Booting(loc, registers, todo)
    <3>1. now.op = "new"
      BY <2>3, BootNew
    <3>2. Hold
      BY <1>1, <3>1 DEF Operation, Pop, Fetch, Keep, BindSymbol, Rewinds, In
    <3>3. Sane(heap, loc', registers', bindings, o) /\ Booting(loc', registers', todo)
      BY <2>3, <3>2, BootHolds
    <3>4. UNCHANGED <<heap, bindings, todo>> /\ allocating'
      BY <3>2 DEF Hold
    <3>5. Asks(heap, loc, registers, bindings)'
      BY <3>3, <3>4 DEF Asks, Booting
    <3> QED
      BY <2>1, <2>2, <3>4, <3>5 DEF MachineFits
  <2>4. ASSUME NEW c, Ready(o, c), Hold PROVE MachineFits' /\ DOMAIN heap' \subseteq DOMAIN heap
    <3>1. Sane(heap, loc', registers', bindings, o) /\ Waits(heap, loc', registers', c, todo)
      BY <2>4, HoldWaits
    <3>2. UNCHANGED <<heap, bindings, todo>> /\ allocating'
      BY <2>4 DEF Hold
    <3>3. DOMAIN loc' = Stacks
      BY <3>1 DEF Waits
    <3>4. Asks(heap, loc, registers, bindings)'
      BY <3>1, <3>2, <3>3 DEF Asks
    <3> QED
      BY <3>2, <3>4 DEF MachineFits
  <2>5. ASSUME NEW c, Ready(o, c), Pop \/ Fetch \/ Keep \/ BindSymbol \/ Rewinds
        PROVE  MachineFits' /\ DOMAIN heap' \subseteq DOMAIN heap
    <3>1. \E q, d : Ready(q, d)' /\ DOMAIN heap' \subseteq DOMAIN heap /\ ~ allocating'
      BY <2>5, OperationReady
    <3>2. Settled'
      BY <3>1 DEF Settled, Ready
    <3> QED
      BY <3>1, <3>2 DEF MachineFits
  <2> QED
    BY <1>1, <2>1, <2>2, <2>3, <2>4, <2>5 DEF Operation
<1>2. CASE Call
  <2>1. todo = <<>> /\ process' = process
    BY <1>2 DEF Call, CallOf, Idle
  <2>2. ~ allocating
    BY <2>1, AsksFacts DEF MachineFits
  <2> PICK o : /\ Sane(heap, loc, registers, bindings, o)
               /\ Booting(loc, registers, todo) \/ \E c : Ready(o, c)
    BY <2>2 DEF MachineFits, Settled
  <2>3. ~ Booting(loc, registers, todo)
    BY <2>1, BootNew
  <2> PICK c : Ready(o, c)
    BY <2>3
  <2>4. (\E d : Ready(o, d)') /\ UNCHANGED <<heap, allocating>>
    BY <1>2, CallReady
  <2>5. Settled'
    BY <2>4 DEF Settled, Ready
  <2> QED
    BY <2>1, <2>2, <2>4, <2>5 DEF MachineFits
<1>3. CASE Return
  <2>1. todo = <<>> /\ UNCHANGED <<heap, loc, registers, bindings, todo, allocating>> /\ process' = "returned"
    BY <1>3 DEF Return, Idle
  <2>2. ~ allocating
    BY <2>1, AsksFacts DEF MachineFits
  <2>3. Settled'
    BY <2>1, <2>2 DEF MachineFits, Settled, Ready
  <2> QED
    BY <2>1, <2>2, <2>3 DEF MachineFits
<1> QED
  BY <1>1, <1>2, <1>3 DEF Work

(* The chunk an operation waited for comes. *)
LEMMA FillsFits ==
  ASSUME SetupFits, Asks(heap, loc, registers, bindings),
         NEW n, n \in Nat, n \notin DOMAIN heap, Fills(n)
  PROVE  MachineFits' /\ DOMAIN heap' \subseteq DOMAIN heap \cup {n}
<1> PICK o : /\ Sane(heap, loc, registers, bindings, o)
             /\ Booting(loc, registers, todo) \/ \E c : Waits(heap, loc, registers, c, todo)
  BY DEF Asks
<1>1. CASE Booting(loc, registers, todo)
  <2>1. \E q : /\ Sane(heap, loc, registers, bindings, q)'
               /\ Booting(loc, registers, todo)' \/ \E d : Ready(q, d)'
               /\ DOMAIN heap' \subseteq DOMAIN heap \cup {n} /\ ~ allocating'
    BY <1>1, BootFilled
  <2>2. Settled'
    BY <2>1 DEF Settled
  <2> QED
    BY <2>1, <2>2 DEF MachineFits
<1>2. ASSUME NEW c, Waits(heap, loc, registers, c, todo)
      PROVE  MachineFits' /\ DOMAIN heap' \subseteq DOMAIN heap \cup {n}
  <2>1. \E q, d : Ready(q, d)' /\ DOMAIN heap' \subseteq DOMAIN heap \cup {n} /\ ~ allocating'
    BY <1>2, FillsReady
  <2>2. Settled'
    BY <2>1 DEF Settled, Ready
  <2> QED
    BY <2>1, <2>2 DEF MachineFits
<1> QED
  BY <1>1, <1>2

LEMMA AllocateFits ==
  ASSUME SetupFits, SpaceInv, Allocate
  PROVE  SpaceInv'
<1>1. /\ root = 0 /\ allocating /\ process = "running" /\ Room /\ Fills(heap_position)
      /\ heap_position' = heap_position + sizeof_chunk(NewType)
      /\ collected' = FALSE /\ UNCHANGED <<current_heap, root, frames>>
      /\ DOMAIN id' = DOMAIN heap'
  BY DEF Allocate, Asked
<1>2. process' = process
  BY <1>1 DEF Fills, NewChunk, NewBlockChunk, LinkFront, LinkBack, Linked, Finish
<1> PICK n, c, size : n = heap_position /\ c = current_heap /\ size = sizeof_chunk(NewType)
  OBVIOUS
<1>3. /\ c \in {0, Half} /\ n \in c .. c + Half /\ DOMAIN heap \subseteq c .. n - 1
      /\ Asks(heap, loc, registers, bindings) /\ frames = <<>>
  BY <1>1 DEF SpaceInv, Ranges, Contained, Filled, MachineFits
<1>4. size \in Nat \ {0} /\ n - c + size <= Half /\ heap_position' = n + size
  BY <1>1, SizeIs DEF Room
<1>5. n \in Nat /\ n \notin DOMAIN heap /\ n + size \in c .. c + Half
  <2>1. n \in Nat /\ n \notin c .. n - 1 /\ n + size \in c .. c + Half
    BY <1>3, <1>4, HalfAssumption
  <2> QED
    BY <1>3, <2>1
<1>6. MachineFits' /\ DOMAIN heap' \subseteq DOMAIN heap \cup {n}
  BY <1>1, <1>3, <1>5, FillsFits
<1>7. DOMAIN heap' \subseteq c .. (n + size) - 1
  <2>1. \A x \in c .. n - 1 : x \in c .. (n + size) - 1
    BY <1>3, <1>4, HalfAssumption
  <2>2. n \in c .. (n + size) - 1
    BY <1>3, <1>4, HalfAssumption
  <2> QED
    BY <1>3, <1>6, <2>1, <2>2
<1>8. Ranges'
  BY <1>1, <1>3, <1>4, <1>5 DEF Ranges, Filled
<1>9. Processes'
  BY <1>2 DEF SpaceInv, Processes
<1>10. Contained'
  BY <1>1, <1>3, <1>4, <1>6, <1>7 DEF Contained
<1> QED
  BY <1>8, <1>9, <1>10 DEF SpaceInv

LEMMA StartFits ==
  ASSUME SetupFits, SpaceInv, StartCollection
  PROVE  SpaceInv'
<1>1. /\ root = 0 /\ allocating /\ heap_position' = free_heap /\ root' = 1
      /\ UNCHANGED <<heap, loc, registers, bindings, todo, allocating, process, current_heap, frames, collected, id>>
  BY DEF StartCollection, Asked, machineVars
<1> PICK h, l, r, b, fin : h = heap /\ l = loc /\ r = registers /\ b = bindings /\ fin = [x \in {} |-> NULL]
  OBVIOUS
<1>2. /\ current_heap \in {0, Half} /\ heap_position \in current_heap .. current_heap + Half
      /\ DOMAIN heap \subseteq current_heap .. heap_position - 1
      /\ Asks(h, l, r, b) /\ frames = <<>>
  BY <1>1 DEF SpaceInv, Ranges, Contained, Filled, MachineFits
<1> PICK o : /\ Sane(h, l, r, b, o) /\ DOMAIN l = Stacks
             /\ Booting(l, r, todo) \/ \E c : Waits(h, l, r, c, todo)
  BY <1>2 DEF Asks
<1>3. Copying(h, l, r, b, fin)'
  BY <1>2, StartCopies
<1>4. Asks(h, l, r, b)'
  BY <1>1, <1>2 DEF Asks
<1>5. Contained'
  BY <1>1, <1>3, <1>4 DEF Contained, Collecting
<1>6. Ranges'
  <2>1. free_heap' = free_heap /\ free_heap \in Nat
    BY <1>1, <1>2, HalfAssumption DEF free_heap
  <2>2. heap_position' \in free_heap .. free_heap + Half
    BY <1>1, <2>1, HalfAssumption
  <2> QED
    BY <1>1, <2>1, <2>2 DEF SpaceInv, Ranges, Filled
<1>7. Processes'
  BY <1>1 DEF SpaceInv, Processes
<1> QED
  BY <1>5, <1>6, <1>7 DEF SpaceInv

LEMMA StoredFacts ==
  ASSUME NEW new, NEW h, NEW outer, Stored(new, h, outer), root \in Nat
  PROVE  /\ UNCHANGED <<todo, allocating, process, current_heap, collected, id>>
         /\ DOMAIN heap' = DOMAIN h /\ root' \in {root, root + 1}
BY DEF Stored, StoreInRoot

(* A step of move_chunk *)
LEMMA MoveFits ==
  ASSUME SetupFits, SpaceInv, Null \/ Known \/ Enter \/ Leave
  PROVE  SpaceInv'
<1>1. root # 0 /\ process = "running"
  BY DEF Null, Known, Enter, Leave, Pointer, Moving
<1> PICK h, l, r, b, fin : Copying(h, l, r, b, fin) /\ Asks(h, l, r, b)
  BY <1>1 DEF SpaceInv, Contained, Collecting
<1> PICK o : /\ Sane(h, l, r, b, o) /\ DOMAIN l = Stacks
             /\ Booting(l, r, todo) \/ \E c : Waits(h, l, r, c, todo)
  BY DEF Asks
<1>2. allocating
  BY <1>1 DEF SpaceInv, Contained
<1>3. root \in Nat /\ root # 0
  <2>1. RootsMoved(fin, BoundOf(b), root, l, b, r, loc, bindings, registers)
    BY DEF Copying
  <2>2. root \in 1 .. Count(BoundOf(b), r) + 1 /\ Count(BoundOf(b), r) \in Nat
    BY <2>1, RootsMovedFacts
  <2> QED
    BY <2>2
<1>4. /\ \E more : Copying(h, l, r, b, more)'
      /\ process' \in {process, "overrun", "unknown_type"}
      /\ process' = "unknown_type" => PointerSize = 8
      /\ UNCHANGED <<todo, allocating, current_heap, collected>>
      /\ DOMAIN id' = DOMAIN heap' /\ root' # 0
  <2>0. DOMAIN id = DOMAIN heap
    BY DEF SpaceInv, Ranges
  <2>1. CASE Null
    <3>1. Stored(NULL, heap, frames)
      BY <2>1 DEF Null
    <3>2. Copying(h, l, r, b, fin)'
      BY <2>1, NullCopies
    <3>3. /\ UNCHANGED <<todo, allocating, process, current_heap, collected, id>>
          /\ DOMAIN heap' = DOMAIN heap /\ root' \in {root, root + 1}
      BY <1>3, <3>1, StoredFacts
    <3> QED
      BY <1>1, <1>3, <2>0, <3>2, <3>3
  <2>2. CASE Known
    <3>1. \E new : Stored(new, heap, frames)
      BY <2>2 DEF Known
    <3>2. Copying(h, l, r, b, fin)'
      BY <2>2, KnownCopies
    <3>3. /\ UNCHANGED <<todo, allocating, process, current_heap, collected, id>>
          /\ DOMAIN heap' = DOMAIN heap /\ root' \in {root, root + 1}
      BY <1>3, <3>1, StoredFacts
    <3> QED
      BY <1>1, <1>3, <2>0, <3>2, <3>3
  <2>3. CASE Enter
    <3>1. /\ Copying(h, l, r, b, fin)'
          /\ process' \in {process, "overrun", "unknown_type"}
          /\ process' = "unknown_type" => PointerSize = 8
      BY <1>1, <2>3, EnterCopies
    <3>2. UNCHANGED <<todo, allocating, current_heap, collected, root>>
      BY <2>3 DEF Enter
    <3>3. DOMAIN id' = DOMAIN heap'
      <4>1. \/ UNCHANGED <<heap, id>>
            \/ \E p \in DOMAIN heap : /\ heap' = With(heap, heap_position, heap[p])
                                      /\ id' = With(id, heap_position, id[p])
        BY <2>3 DEF Enter
      <4> QED
        BY <2>0, <4>1 DEF With
    <3> QED
      BY <1>1, <3>1, <3>2, <3>3
  <2>4. CASE Leave
    <3>1. \E new : Stored(new, Marked(top.old, new), Front(frames))
      BY <2>4 DEF Leave
    <3>2. \E more : Copying(h, l, r, b, more)'
      BY <2>4, LeaveCopies
    <3>3. \A new : DOMAIN Marked(top.old, new) = DOMAIN heap
      BY DEF Marked
    <3>4. /\ UNCHANGED <<todo, allocating, process, current_heap, collected, id>>
          /\ DOMAIN heap' = DOMAIN heap /\ root' \in {root, root + 1}
      BY <1>3, <3>1, <3>3, StoredFacts
    <3> QED
      BY <1>1, <1>3, <2>0, <3>2, <3>4
  <2> QED
    BY <2>1, <2>2, <2>3, <2>4
<1>5. Asks(h, l, r, b)'
  BY <1>4 DEF Asks
<1>6. Contained'
  BY <1>2, <1>4, <1>5 DEF Contained, Collecting
<1>7. Ranges'
  <2> PICK more : Copying(h, l, r, b, more)'
    BY <1>4
  <2>1. Space(h, more, heap, frames, current_heap, heap_position)'
    BY DEF Copying, Memory
  <2>2. current_heap' \in {0, Half} /\ heap_position' \in Half - current_heap' .. Half - current_heap' + Half
    BY <2>1 DEF Space
  <2>3. free_heap' = Half - current_heap'
    <3>1. current_heap' = 0 => free_heap' = Half
      BY DEF free_heap
    <3>2. current_heap' # 0 => free_heap' = 0
      BY DEF free_heap
    <3> QED
      BY <2>2, <3>1, <3>2, HalfAssumption
  <2> QED
    BY <1>4, <2>2, <2>3 DEF SpaceInv, Ranges, Filled
<1>8. Processes'
  BY <1>1, <1>4 DEF SpaceInv, Processes
<1> QED
  BY <1>6, <1>7, <1>8 DEF SpaceInv

(* The other half becomes the one in use, with an image of what was in     *)
(* order when the collection began.                                        *)
LEMMA EndFits ==
  ASSUME SetupFits, SpaceInv, EndCollection
  PROVE  SpaceInv'
<1>1. /\ root # 0 /\ frames = <<>> /\ root > Len(Roots)
      /\ current_heap' = free_heap /\ root' = 0 /\ collected' = TRUE
      /\ heap' = Reachable(heap, loc, registers, bindings) /\ DOMAIN id' = DOMAIN heap'
      /\ UNCHANGED <<loc, registers, bindings, todo, allocating, process, frames, heap_position>>
  BY DEF EndCollection, Moving, Stays
<1> PICK h, l, r, b, fin : Copying(h, l, r, b, fin) /\ Asks(h, l, r, b)
  BY <1>1 DEF SpaceInv, Contained, Collecting
<1> PICK o : /\ Sane(h, l, r, b, o) /\ DOMAIN l = Stacks
             /\ Booting(l, r, todo) \/ \E x : Waits(h, l, r, x, todo)
  BY DEF Asks
<1> PICK g, fs, c, n, m, d, s, k, g2 :
       /\ g = heap /\ fs = frames /\ c = current_heap /\ n = heap_position
       /\ m = loc /\ d = bindings /\ s = registers /\ k = root /\ g2 = heap'
  OBVIOUS
<1>2. /\ Memory(h, fin, g, fs, c, n) /\ RootsMoved(fin, BoundOf(b), k, l, b, r, m, d, s)
  BY DEF Copying
<1>3. k > Count(BoundOf(b), r)
  BY <1>1, <1>2, RootsMovedFacts
<1>4. \E src : /\ Injects(src, h) /\ CopiedHeap(src, g2, h) /\ CopiedRoots(src, m, s, d, l, r, b)
               /\ DOMAIN g2 \subseteq Half - c .. n - 1
  <2>1. g2 = Reachable(g, m, s, d) /\ fs = <<>>
    BY <1>1
  <2> QED
    BY <1>2, <1>3, <2>1, EndIsImage
<1> PICK src : /\ Injects(src, h) /\ CopiedHeap(src, g2, h) /\ CopiedRoots(src, m, s, d, l, r, b)
               /\ DOMAIN g2 \subseteq Half - c .. n - 1
  BY <1>4
<1>5. Sane(g2, m, s, d, Owners(src, o))
  BY ImageSane
<1>6. DOMAIN m = Stacks
  BY DEF CopiedRoots
<1>7. Booting(m, s, todo) \/ \E x : Waits(g2, m, s, x, todo)
  <2>1. CASE Booting(l, r, todo)
    BY <2>1, ImageBooting
  <2>2. ASSUME NEW x, Waits(h, l, r, x, todo) PROVE Waits(g2, m, s, x, todo)
    BY <2>2, ImageWaits
  <2> QED
    BY <2>1, <2>2
<1>8. Asks(g2, m, s, d)
  BY <1>5, <1>6, <1>7 DEF Asks
<1>9. Asks(heap, loc, registers, bindings)'
  BY <1>1, <1>8 DEF Asks
<1>10. c \in {0, Half} /\ n \in Half - c .. Half - c + Half
  BY <1>2 DEF Memory, Space
<1>11. free_heap = Half - c
  BY <1>10, HalvesAre
<1>12. Contained'
  <2>1. allocating
    BY <1>1 DEF SpaceInv, Contained
  <2>2. DOMAIN heap' \subseteq current_heap' .. heap_position' - 1
    BY <1>1, <1>11
  <2> QED
    BY <1>1, <1>9, <2>1, <2>2 DEF Contained, MachineFits
<1>13. Ranges'
  <2>1. current_heap' \in {0, Half} /\ current_heap' = Half - c
    BY <1>1, <1>10, <1>11, HalfAssumption
  <2> QED
    BY <1>1, <1>10, <2>1 DEF Ranges, Filled
<1>14. Processes'
  BY <1>1 DEF SpaceInv, Processes
<1> QED
  BY <1>12, <1>13, <1>14 DEF SpaceInv

LEMMA MachineFitsSame ==
  ASSUME MachineFits, UNCHANGED <<heap, loc, registers, bindings, todo, allocating>>
  PROVE  MachineFits'
BY DEF MachineFits, Asks, Settled, Ready

LEMMA CopyingSame ==
  ASSUME Collecting, UNCHANGED <<heap, loc, registers, bindings, todo, frames, root, current_heap, heap_position>>
  PROVE  Collecting'
BY DEF Collecting, Copying, Asks

(* Nothing changes but the process. *)
LEMMA ProcessFits ==
  ASSUME SpaceInv, UNCHANGED <<heap, loc, registers, bindings, todo, allocating, spaceVars, id>>,
         process' \in {process, "out_of_memory"}
  PROVE  SpaceInv'
<1>1. UNCHANGED <<current_heap, heap_position, root, frames, collected>>
  BY DEF spaceVars
<1>2. Ranges'
  BY <1>1 DEF SpaceInv, Ranges, Filled, free_heap
<1>3. Processes'
  BY DEF SpaceInv, Processes
<1>4. CASE root = 0
  <2>1. MachineFits'
    BY <1>4, MachineFitsSame DEF SpaceInv, Contained
  <2> QED
    BY <1>1, <1>2, <1>3, <1>4, <2>1 DEF SpaceInv, Contained
<1>5. CASE root # 0
  <2>1. Collecting'
    BY <1>1, <1>5, CopyingSame DEF SpaceInv, Contained
  <2> QED
    BY <1>1, <1>2, <1>3, <1>5, <2>1 DEF SpaceInv, Contained
<1> QED
  BY <1>4, <1>5

LEMMA WorkStepFits ==
  ASSUME SetupFits, SpaceInv, Work, UNCHANGED spaceVars, id' = Stays
  PROVE  SpaceInv'
<1>1. UNCHANGED <<current_heap, heap_position, root, frames, collected>> /\ DOMAIN id' = DOMAIN heap'
  BY DEF spaceVars, Stays
<1>2. root = 0
  <2> SUFFICES ASSUME root # 0 PROVE FALSE
    OBVIOUS
  <2>1. allocating /\ todo # <<>>
    BY AsksFacts DEF SpaceInv, Contained, Collecting
  <2> QED
    BY <2>1 DEF Work, Operation, Pop, Fetch, Keep, BindSymbol, Rewinds, Hold, In, Call, CallOf, Return, Idle
<1>3. MachineFits
  BY <1>2 DEF SpaceInv, Contained
<1>4. MachineFits' /\ DOMAIN heap' \subseteq DOMAIN heap /\ process' \in {process, "returned"}
  BY <1>3, WorkFits
<1>5. Ranges'
  BY <1>1, <1>2 DEF SpaceInv, Ranges, Filled
<1>6. Processes'
  BY <1>4 DEF SpaceInv, Processes
<1>7. Contained'
  BY <1>1, <1>2, <1>4 DEF SpaceInv, Contained
<1> QED
  BY <1>5, <1>6, <1>7 DEF SpaceInv

LEMMA SpaceInvInit ==
  ASSUME SetupFits, SpaceInit
  PROVE  SpaceInv
<1>1. /\ heap = <<>> /\ loc = [x \in {"cs", "ds"} |-> NULL] /\ registers = <<>>
      /\ bindings = [s \in Symbol |-> NULL] /\ todo = Boot /\ allocating = FALSE
      /\ process = "running"
      /\ current_heap = 0 /\ heap_position = 0 /\ root = 0 /\ frames = <<>> /\ collected = FALSE
      /\ id = <<>>
  BY DEF SpaceInit, MachineInit, Boot
<1>2. DOMAIN heap = {} /\ DOMAIN loc = Stacks /\ loc["ds"] = NULL /\ loc["cs"] = NULL
  BY <1>1 DEF Stacks
<1>3. Sane(heap, loc, registers, bindings, <<>>)
  <2>1. Nodes(heap) = {} /\ Lists(heap) = {} /\ Values(heap, loc) = {}
    BY <1>2 DEF Nodes, Lists, Values
  <2>2. Words(heap, loc)
    BY <1>2, <2>1, FS_EmptySet DEF Words
  <2>3. Rooted(heap, loc, registers, bindings)
    BY <1>1, <1>2, <2>1 DEF Rooted, OrNull
  <2>4. Owned(heap, loc, <<>>) /\ AllEnd(heap)
    BY <2>1 DEF Owned, AllEnd
  <2> QED
    BY <2>2, <2>3, <2>4 DEF Sane
<1>4. Settled
  BY <1>1, <1>2, <1>3 DEF Settled, Booting
<1>5. Contained
  BY <1>1, <1>2, <1>4 DEF Contained, MachineFits
<1>6. Ranges
  <2>1. heap_position \in 0 .. 0 + Half /\ Filled = 0
    BY <1>1, HalfAssumption DEF Filled
  <2>2. DOMAIN id = DOMAIN heap
    BY <1>1
  <2> QED
    BY <1>1, <2>1, <2>2 DEF Ranges
<1>7. Processes
  BY <1>1 DEF Processes
<1> QED
  BY <1>5, <1>6, <1>7 DEF SpaceInv

LEMMA SpaceInvStep ==
  ASSUME SetupFits, SpaceInv, [Next]_vars
  PROVE  SpaceInv'
<1>1. CASE Work /\ UNCHANGED spaceVars /\ id' = Stays
  BY <1>1, WorkStepFits
<1>2. CASE Allocate
  BY <1>2, AllocateFits
<1>3. CASE StartCollection
  BY <1>3, StartFits
<1>4. CASE RunOut
  <2>1. /\ UNCHANGED <<heap, loc, registers, bindings, todo, allocating, spaceVars, id>>
        /\ process' \in {process, "out_of_memory"}
    BY <1>4 DEF RunOut, OutOfMemory
  <2> QED
    BY <2>1, ProcessFits
<1>5. CASE Null \/ Known \/ Enter \/ Leave
  BY <1>5, MoveFits
<1>6. CASE EndCollection
  BY <1>6, EndFits
<1>7. CASE UNCHANGED vars
  <2>1. /\ UNCHANGED <<heap, loc, registers, bindings, todo, allocating, spaceVars, id>>
        /\ process' \in {process, "out_of_memory"}
    BY <1>7 DEF vars, machineVars
  <2> QED
    BY <2>1, ProcessFits
<1> QED
  BY <1>1, <1>2, <1>3, <1>4, <1>5, <1>6, <1>7 DEF Next, Ended

LEMMA SpaceInvariant ==
  ASSUME SetupFits
  PROVE  Spec => []SpaceInv
<1>1. SpaceInit => SpaceInv
  BY SpaceInvInit
<1>2. SpaceInv /\ [Next]_vars => SpaceInv'
  BY SpaceInvStep
<1> QED
  BY <1>1, <1>2, PTL DEF Spec

(* What the roots and the chunks refer to is in the heap. *)
LEMMA PointersInHeap ==
  ASSUME NEW o, Sane(heap, loc, registers, bindings, o)
  PROVE  Pointers \subseteq DOMAIN heap
<1>1. \A x \in DOMAIN loc : loc[x] \in OrNull(DOMAIN heap)
  BY DEF Sane, Rooted, Stacks, OrNull, Lists, Values
<1>2. \A x \in DOMAIN bindings : bindings[x] \in OrNull(DOMAIN heap)
  BY DEF Sane, Rooted, OrNull, Values
<1>3. \A x \in DOMAIN registers : registers[x] \in OrNull(DOMAIN heap)
  BY DEF Sane, Rooted, OrNull
<1>4. \A i \in DOMAIN heap : Range(SuccessorsIn(heap, i)) \subseteq OrNull(DOMAIN heap)
  BY SaneCloses
<1>5. /\ Range(loc) \subseteq OrNull(DOMAIN heap) /\ Range(bindings) \subseteq OrNull(DOMAIN heap)
      /\ Range(registers) \subseteq OrNull(DOMAIN heap)
  BY <1>1, <1>2, <1>3 DEF Range
<1> QED
  BY <1>4, <1>5 DEF Pointers, OrNull

LEMMA MachineSane ==
  ASSUME MachineFits
  PROVE  \E o : Sane(heap, loc, registers, bindings, o)
BY DEF MachineFits, Asks, Settled

LEMMA StaleNever ==
  ASSUME SpaceInv
  PROVE  NoStalePointer
<1> SUFFICES ASSUME root = 0, NEW p \in Pointers PROVE current_heap <= p /\ p < heap_position
  BY DEF NoStalePointer
<1>1. DOMAIN heap \subseteq current_heap .. heap_position - 1 /\ MachineFits
  BY DEF SpaceInv, Contained
<1>2. p \in DOMAIN heap
  BY <1>1, MachineSane, PointersInHeap
<1>3. current_heap \in Int /\ heap_position \in Int
  BY HalfAssumption DEF SpaceInv, Ranges, Filled
<1> QED
  BY <1>1, <1>2, <1>3

LEMMA TypesOK ==
  ASSUME SpaceInv
  PROVE  TypeOK
<1>1. /\ current_heap \in {0, Half} /\ heap_position \in Filled .. Filled + Half
      /\ collected \in BOOLEAN /\ DOMAIN id = DOMAIN heap
      /\ process \in {"running", "returned", "out_of_memory", "overrun", "unknown_type"}
  BY DEF SpaceInv, Ranges, Processes
<1>2. /\ root \in 0 .. Len(Roots) + 1
      /\ \A k \in DOMAIN frames : {frames[k].old, frames[k].new} \subseteq DOMAIN heap
  <2>1. CASE root = 0
    <3>1. frames = <<>> /\ MachineFits
      BY <2>1 DEF SpaceInv, Contained
    <3> PICK o : Sane(heap, loc, registers, bindings, o)
      BY <3>1, MachineSane
    <3>2. registers \in Seq(Int)
      BY DEF Sane, Rooted, Words
    <3> PICK B : B = BoundOf(bindings)
      OBVIOUS
    <3>3. B \in Seq(Symbol)
      BY BoundFacts
    <3>4. Len(Roots) = Count(B, registers) /\ Count(B, registers) \in Nat
      BY <3>2, <3>3, RootsAre
    <3>5. DOMAIN frames = {}
      BY <3>1
    <3> QED
      BY <2>1, <3>4, <3>5
  <2>2. CASE root # 0
    <3> PICK h, l, r, b, fin : Copying(h, l, r, b, fin)
      BY <2>2 DEF SpaceInv, Contained, Collecting
    <3>1. /\ Memory(h, fin, heap, frames, current_heap, heap_position)
          /\ RootsMoved(fin, BoundOf(b), root, l, b, r, loc, bindings, registers)
      BY DEF Copying
    <3>2. root \in 0 .. Len(Roots) + 1
      <4>1. /\ Len(Roots) = Count(BoundOf(b), r) /\ Count(BoundOf(b), r) \in Nat
            /\ root \in 1 .. Count(BoundOf(b), r) + 1
        BY <3>1, RootsMovedFacts
      <4> QED
        BY <4>1
    <3>3. /\ Space(h, fin, heap, frames, current_heap, heap_position)
          /\ frames \in Seq([old : Nat, new : Nat, next : Nat])
          /\ \A k \in 1 .. Len(frames) : Frame(h, fin, heap, frames[k])
      BY <3>1 DEF Memory
    <3>4. DOMAIN frames = 1 .. Len(frames)
      BY <3>3
    <3>5. \A k \in 1 .. Len(frames) : frames[k].new \in DOMAIN heap
      BY <3>3, SpaceApart
    <3>6. DOMAIN h \subseteq DOMAIN heap
      BY <3>3, SpaceApart
    <3>7. \A k \in 1 .. Len(frames) : frames[k].old \in DOMAIN h
      BY <3>3 DEF Frame
    <3> QED
      BY <3>2, <3>4, <3>5, <3>6, <3>7
  <2> QED
    BY <2>1, <2>2
<1> QED
  BY <1>1, <1>2 DEF TypeOK, Filled

-----------------------------------------------------------------------------
(* What the program is set up with is well used where it comes.            *)

(* Every variable stays in its range.                                      *)
THEOREM TypeCorrect ==
  ASSUME SetupFits
  PROVE  Spec => []TypeOK
<1>1. SpaceInv => TypeOK
  BY TypesOK
<1> QED
  BY <1>1, SpaceInvariant, PTL

(* No pointer the program can use is stale, whatever builtins it calls, in *)
(* whatever order, wherever collections come between: what the code holds  *)
(* over an allocation is in a register or reachable from ds, cs or the     *)
(* bindings (sina_builtins.c, sinavm.c), and collect_garbage moves it      *)
(* (twospace_allocator.c).                                                 *)
THEOREM NothingStale ==
  ASSUME SetupFits
  PROVE  Spec => []NoStalePointer
<1>1. SpaceInv => NoStalePointer
  BY StaleNever
<1> QED
  BY <1>1, SpaceInvariant, PTL

(* copy_chunk never meets a chunk that is none, with pointers of four      *)
(* bytes: a new address does not reach beyond the chunk it is written to.  *)
THEOREM TypesKnown ==
  ASSUME SetupFits, PointerSize = 4
  PROVE  Spec => [](process # "unknown_type")
<1>1. SpaceInv => process # "unknown_type"
  BY DEF SpaceInv, Processes
<1> QED
  BY <1>1, SpaceInvariant, PTL


LEMMA WalksEnd ==
  ASSUME NEW l, NEW r, NEW b, NEW o, Sane(heap, l, r, b, o),
         NEW k, k \in Lists(heap), heap[k].b # NULL
  PROVE  heap[heap[k].b].b = NULL /\ heap[k].b \in ChainIn(Links, heap[k].a)
<1> DEFINE first == heap[k].a
           last  == heap[k].b
           S     == Follow(Links, first)
<1>1. Words(heap, l) /\ Owned(heap, l, o) /\ Ends(heap, k)
  BY DEF Sane, AllEnd
<1>2. first # NULL /\ first \in Nodes(heap) /\ heap[last].b = NULL
  BY <1>1 DEF Words, Owned, OrNull
<1>3. DOMAIN Links = Nodes(heap) /\ \A i \in Nodes(heap) : Links[i] = heap[i]
  BY DEF Links, Nodes
<1>4. Chained(Links) /\ IsFiniteSet(DOMAIN Links)
  <2>1. NULL \notin Nodes(heap) /\ Nodes(heap) \subseteq DOMAIN heap
    BY <1>1 DEF Words, NULL, Nodes
  <2>2. \A i \in Nodes(heap) : heap[i].b \in OrNull(Nodes(heap))
    BY <1>1 DEF Words
  <2>3. IsFiniteSet(Nodes(heap))
    BY <1>1, <2>1, FS_Subset DEF Words
  <2> QED
    BY <1>3, <2>1, <2>2, <2>3 DEF Chained, OrNull
<1> HIDE DEF first
<1>5. S \subseteq DOMAIN Links /\ first \in S /\ \A i \in S : Links[i].b = NULL \/ Links[i].b \in S
  BY <1>2, <1>3, <1>4, FollowIsLeast
<1>6. ChainIn(Links, first) = S
  BY <1>2, <1>3, <1>4, FollowIsClosure
<1> HIDE DEF S
<1>7. S \in SUBSET Nodes(heap) /\ Walked(heap, S)
  BY <1>3, <1>5 DEF Walked
<1>8. last \in S
  BY <1>1, <1>2, <1>5, <1>7 DEF Ends, first
<1> QED
  BY <1>2, <1>6, <1>8 DEF first

(* Whatever builtins share, empty and refill lists, and wherever they are  *)
(* copied meanwhile: a list ends where its head says, and it is empty at   *)
(* both ends or at none (sinavm_push_*, sinavm_pop_front*, sinavm.c).      *)
THEOREM ListsStayLists ==
  ASSUME SetupFits
  PROVE  Spec => []ListsWellFormed
<1>1. SpaceInv => ListsWellFormed
  <2> SUFFICES ASSUME SpaceInv, ~ allocating, NEW k \in Lists(heap)
               PROVE  /\ heap[k].a = NULL <=> heap[k].b = NULL
                      /\ heap[k].b # NULL => heap[heap[k].b].b = NULL /\ heap[k].b \in ChainIn(Links, heap[k].a)
    BY DEF ListsWellFormed, Lists
  <2>1. MachineFits
    BY DEF SpaceInv, Contained
  <2>2. PICK o : Sane(heap, loc, registers, bindings, o)
    BY <2>1, MachineSane
  <2>3. heap[k].a = NULL <=> heap[k].b = NULL
    BY <2>2 DEF Sane, Owned
  <2> QED
    BY <2>2, <2>3, WalksEnd
<1> QED
  BY <1>1, SpaceInvariant, PTL

LEMMA NothingKept ==
  ASSUME SetupFits, SpaceInv, todo = <<>>
  PROVE  registers = <<>>
<1>1. root = 0 /\ ~ allocating
  <2>1. ASSUME NEW h, NEW l, NEW r, NEW b, Asks(h, l, r, b) PROVE FALSE
    BY <2>1, AsksFacts
  <2> QED
    BY <2>1 DEF SpaceInv, Contained, Collecting, MachineFits
<1>2. Settled
  BY <1>1 DEF SpaceInv, Contained, MachineFits
<1>3. PICK o : /\ Sane(heap, loc, registers, bindings, o)
               /\ Booting(loc, registers, todo) \/ \E c : Ready(o, c)
  BY <1>2 DEF Settled
<1>4. ASSUME NEW c, Ready(o, c) PROVE registers = <<>>
  <2>1. Certified(Literal, todo, c) /\ Len(registers) = Len(c.regs) /\ c.regs \in Seq(Kept)
    BY <1>4 DEF Ready, Knows, KnowsRegisters
  <2>2. c.regs = <<>>
    BY <2>1 DEF Certified, Certificate
  <2>3. registers \in Seq(DOMAIN heap)
    BY <1>3 DEF Sane, Rooted
  <2> QED
    BY <2>1, <2>2, <2>3
<1> QED
  BY <1>3, <1>4 DEF Booting

(* Every builtin gives back the registers it took (sina_builtins.c:        *)
(* allocate_push_register, allocate_pop_register), whatever was collected  *)
(* in between: none is in use before the next item of the program.         *)
THEOREM RegistersGivenBack ==
  ASSUME SetupFits
  PROVE  Spec => [](Idle => registers = <<>>)
<1>1. SpaceInv /\ Idle => registers = <<>>
  BY NothingKept DEF Idle
<1> QED
  BY <1>1, SpaceInvariant, PTL

=============================================================================
