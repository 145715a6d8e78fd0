-------------------------- MODULE ObjectHeapProofs ---------------------------
(***************************************************************************)
(* TwoSpace implements ObjectHeap: a program cannot tell that its chunks   *)
(* are moved.                                                              *)
(*                                                                         *)
(* id gives every chunk a name that moves with it.  What the user sees is  *)
(* the heap with names for addresses; while a collection is under way, it  *)
(* is the heap, locals, registers and bindings the collection began with   *)
(* (Works).  Each operation on chunks is shown to be the same operation on *)
(* names (...Seen), each step of a collection to change nothing that is    *)
(* seen (...Hidden).                                                       *)
(*                                                                         *)
(* That the memory suffices: the chunks lie side by side, and those a      *)
(* collection leaves or makes without gaps (RoomInv), so that their sizes  *)
(* add up; what fits into one half fits into the other as long as nothing  *)
(* is copied twice (CopyFits); and a chunk that is to be copied while it   *)
(* waits for its own copy is part of a list that contains itself           *)
(* (CircleIsKnot).                                                         *)
(***************************************************************************)
EXTENDS TwoSpaceProofs

-----------------------------------------------------------------------------
(* The heap as its user sees it.  e gives every chunk a name.              *)

Name(e, p) == IF p = NULL THEN NULL ELSE e[p]

NamedChunk(e, c) ==
  IF c.type \in Refers THEN [type |-> c.type, a |-> Name(e, c.a), b |-> Name(e, c.b)]
  ELSE [type |-> c.type, a |-> c.a, b |-> NULL]

(* A name is a number, and no two chunks have the same. *)
Naming(e, h) ==
  /\ DOMAIN e = DOMAIN h /\ \A x \in DOMAIN h : e[x] \in 0 .. Half
  /\ \A x, y \in DOMAIN h : e[x] = e[y] => x = y

(* g is h, with names for addresses. *)
Alike(e, h, g) ==
  /\ g = [i \in {e[x] : x \in DOMAIN h} |-> g[i]]
  /\ \A x \in DOMAIN h : g[e[x]] = NamedChunk(e, h[x])

LEMMA AlikeSame ==
  ASSUME NEW e, NEW h, NEW g, Alike(e, h, g), NEW g2, Alike(e, h, g2)
  PROVE  g = g2
<1> PICK S : S = {e[x] : x \in DOMAIN h}
  OBVIOUS
<1>1. \A i \in S : g[i] = g2[i]
  BY DEF Alike
<1>2. g = [i \in S |-> g[i]] /\ g2 = [i \in S |-> g2[i]]
  BY DEF Alike
<1> QED
  BY <1>1, <1>2

NamesOf(e, f) == [x \in DOMAIN f |-> Name(e, f[x])]

(* The user sees heap h, locals l, registers r and bindings b. *)
Shows(e, h, l, r, b) ==
  /\ Alike(e, h, heap_seen)
  /\ loc_seen = NamesOf(e, l) /\ registers_seen = NamesOf(e, r)
  /\ bindings_seen = [s \in Symbol |-> Name(e, b[s])]

(* A heap and roots that refer to chunks of it *)
Intact(h, l, r, b) ==
  /\ Fine(h) /\ IsFiniteSet(DOMAIN h)
  /\ \A x \in DOMAIN l : l[x] \in OrNull(DOMAIN h)
  /\ r \in Seq(DOMAIN h)
  /\ b \in [Symbol -> OrNull(DOMAIN h)]

LEMMA SaneWhole ==
  ASSUME NEW h, NEW l, NEW r, NEW b, NEW o, Sane(h, l, r, b, o)
  PROVE  Intact(h, l, r, b)
<1>1. Fine(h) /\ IsFiniteSet(DOMAIN h) /\ r \in Seq(DOMAIN h)
  BY SaneFine DEF Sane, Words, Rooted
<1>2. \A x \in DOMAIN l : l[x] \in OrNull(DOMAIN h)
  BY DEF Sane, Rooted, Stacks, OrNull, Lists, Values
<1>3. b \in [Symbol -> OrNull(DOMAIN h)]
  BY DEF Sane, Rooted, OrNull, Values
<1> QED
  BY <1>1, <1>2, <1>3 DEF Intact

(* S holds what the roots refer to, and leads nowhere else. *)
Keeps(h, l, r, b, S) ==
  /\ S \subseteq DOMAIN h
  /\ \A x \in DOMAIN l : l[x] \in OrNull(S)
  /\ \A k \in 1 .. Len(r) : r[k] \in S
  /\ \A t \in Symbol : b[t] \in OrNull(S)
  /\ \A i \in S : h[i].type \in Refers => h[i].a \in OrNull(S) /\ h[i].b \in OrNull(S)

(* g is the part of h the roots reach. *)
Least(g, h, l, r, b) ==
  /\ g = [i \in DOMAIN g |-> h[i]] /\ Keeps(h, l, r, b, DOMAIN g)
  /\ \A S : Keeps(h, l, r, b, S) => DOMAIN g \subseteq S

(* Every chunk of h can be reached. *)
Trimmed(h, l, r, b) == \A S : Keeps(h, l, r, b, S) => S = DOMAIN h

LEMMA LeastTrimmed ==
  ASSUME NEW h, NEW l, NEW r, NEW b, NEW g, Least(g, h, l, r, b)
  PROVE  Trimmed(g, l, r, b)
<1> SUFFICES ASSUME NEW S, Keeps(g, l, r, b, S) PROVE S = DOMAIN g
  BY DEF Trimmed
<1>1. S \subseteq DOMAIN g /\ DOMAIN g \subseteq DOMAIN h /\ \A i \in DOMAIN g : g[i] = h[i]
  BY DEF Least, Keeps
<1>2. Keeps(h, l, r, b, S)
  BY <1>1 DEF Keeps
<1> QED
  BY <1>1, <1>2 DEF Least

LEMMA LeastSame ==
  ASSUME NEW h, NEW l, NEW r, NEW b, NEW g, Least(g, h, l, r, b), NEW g2, Least(g2, h, l, r, b)
  PROVE  g = g2
<1>1. DOMAIN g = DOMAIN g2
  BY DEF Least
<1>2. g = [i \in DOMAIN g |-> h[i]] /\ g2 = [i \in DOMAIN g2 |-> h[i]]
  BY DEF Least
<1> QED
  BY <1>1, <1>2

LEMMA ReachableLeast ==
  ASSUME NEW h, NEW l, NEW r, NEW b, Intact(h, l, r, b), NEW g, g = Reachable(h, l, r, b)
  PROVE  Least(g, h, l, r, b)
<1> DEFINE from == Range(l) \cup Range(r) \cup Range(b)
<1>1. /\ IsFiniteSet(DOMAIN h) /\ NULL \notin DOMAIN h
      /\ \A i \in DOMAIN h : h[i].type \in Refers => h[i].a \in OrNull(DOMAIN h) /\ h[i].b \in OrNull(DOMAIN h)
      /\ r \in Seq(DOMAIN h) /\ b \in [Symbol -> OrNull(DOMAIN h)]
      /\ \A x \in DOMAIN l : l[x] \in OrNull(DOMAIN h)
  BY DEF Intact, Fine, NULL
<1>2. ASSUME NEW S \in SUBSET DOMAIN h
      PROVE  /\ Closed(Successions(h), S) <=>
                  \A i \in S : h[i].type \in Refers => h[i].a \in OrNull(S) /\ h[i].b \in OrNull(S)
             /\ from \ {NULL} \subseteq S <=>
                  /\ \A x \in DOMAIN l : l[x] \in OrNull(S)
                  /\ \A k \in 1 .. Len(r) : r[k] \in S
                  /\ \A t \in Symbol : b[t] \in OrNull(S)
  <2>1. ASSUME NEW i \in S
        PROVE  Successions(h)[i] \ {NULL} \subseteq S <=>
                 (h[i].type \in Refers => h[i].a \in OrNull(S) /\ h[i].b \in OrNull(S))
    <3>1. Successions(h)[i] = Range(SuccessorsIn(h, i))
      BY DEF Successions
    <3> QED
      BY <3>1, SuccessorsAre DEF OrNull
  <2>2. DOMAIN r = 1 .. Len(r) /\ DOMAIN b = Symbol /\ \A k \in 1 .. Len(r) : r[k] # NULL
    BY <1>1
  <2>3. /\ Range(l) \ {NULL} \subseteq S <=> \A x \in DOMAIN l : l[x] \in OrNull(S)
        /\ Range(r) \ {NULL} \subseteq S <=> \A k \in 1 .. Len(r) : r[k] \in S
        /\ Range(b) \ {NULL} \subseteq S <=> \A t \in Symbol : b[t] \in OrNull(S)
    BY <2>2 DEF Range, OrNull
  <2> QED
    BY <2>1, <2>3 DEF Closed
<1>3. from \in SUBSET (DOMAIN h \cup {NULL})
  <2>1. from \ {NULL} \subseteq DOMAIN h
    BY <1>1, <1>2
  <2> HIDE DEF from
  <2> QED
    BY <2>1
<1>4. NoDangling(Successions(h))
  <2>1. Closed(Successions(h), DOMAIN h)
    BY <1>1, <1>2
  <2> QED
    BY <1>1, <2>1 DEF NoDangling, Successions
<1> PICK K : K = ReachIn(h, from)
  OBVIOUS
<1>5. g = [i \in K |-> h[i]]
  BY DEF Reachable
<1> HIDE DEF from
<1>6. /\ K \subseteq DOMAIN h /\ from \ {NULL} \subseteq K /\ Closed(Successions(h), K)
      /\ \A T \in SUBSET DOMAIN h : from \ {NULL} \subseteq T /\ Closed(Successions(h), T) => K \subseteq T
  BY <1>1, <1>3, <1>4, ReachIsLeast
<1>7. Keeps(h, l, r, b, K)
  BY <1>2, <1>6 DEF Keeps
<1>8. ASSUME NEW S, Keeps(h, l, r, b, S) PROVE K \subseteq S
  <2>1. S \in SUBSET DOMAIN h
    BY <1>8 DEF Keeps
  <2> QED
    BY <1>2, <1>6, <1>8, <2>1 DEF Keeps
<1> QED
  BY <1>5, <1>7, <1>8 DEF Least

(* A chunk and its copy have one name. *)
LEMMA CopyName ==
  ASSUME NEW src, NULL \notin DOMAIN src, NEW h, src \in [DOMAIN src -> DOMAIN h], NULL \notin DOMAIN h,
         NEW e, NEW e2, \A y \in DOMAIN src : e2[y] = e[src[y]],
         NEW y, NEW p, Copy(src, y, p)
  PROVE  Name(e2, y) = Name(e, p) /\ y \in OrNull(DOMAIN src) /\ (y = NULL <=> p = NULL)
BY DEF Copy, Name, OrNull

(* An image of a heap without garbage has a copy of every chunk, and no    *)
(* garbage.                                                                *)
LEMMA ImageTrimmed ==
  ASSUME NEW h, NEW l, NEW r, NEW b, Intact(h, l, r, b), Trimmed(h, l, r, b),
         NEW src, NEW g, NEW m, NEW s, NEW d,
         Injects(src, h), CopiedHeap(src, g, h), CopiedRoots(src, m, s, d, l, r, b)
  PROVE  (\A i \in DOMAIN h : \E y \in DOMAIN src : src[y] = i) /\ Trimmed(g, m, s, d)
<1>1. DOMAIN g = DOMAIN src /\ NULL \notin DOMAIN src /\ NULL \notin DOMAIN h
  BY DEF CopiedHeap, Intact, Fine, NULL
<1>2. src \in [DOMAIN src -> DOMAIN h] /\ \A x, y \in DOMAIN src : src[x] = src[y] => x = y
  BY DEF Injects
<1>3. ASSUME NEW S, Keeps(g, m, s, d, S) PROVE \A i \in DOMAIN h : \E y \in S : src[y] = i
  <2> PICK T : T = {src[y] : y \in S}
    OBVIOUS
  <2>1. S \subseteq DOMAIN src /\ T \subseteq DOMAIN h
    BY <1>1, <1>2, <1>3 DEF Keeps
  <2>2. ASSUME NEW y, NEW p, Copy(src, y, p), y \in OrNull(S) PROVE p \in OrNull(T)
    BY <1>1, <2>1, <2>2 DEF Copy, OrNull
  <2>3. \A x \in DOMAIN l : l[x] \in OrNull(T)
    BY <1>3, <2>2 DEF Keeps, CopiedRoots
  <2>4. \A k \in 1 .. Len(r) : r[k] \in T
    <3> SUFFICES ASSUME NEW k \in 1 .. Len(r) PROVE r[k] \in T
      OBVIOUS
    <3>1. Copy(src, s[k], r[k]) /\ s[k] \in S
      BY <1>3 DEF Keeps, CopiedRoots
    <3>2. s[k] # NULL
      BY <1>1, <2>1, <3>1
    <3> QED
      BY <3>1, <3>2 DEF Copy
  <2>5. \A t \in Symbol : b[t] \in OrNull(T)
    BY <1>3, <2>2 DEF Keeps, CopiedRoots
  <2>6. ASSUME NEW y \in S, h[src[y]].type \in Refers
        PROVE  h[src[y]].a \in OrNull(T) /\ h[src[y]].b \in OrNull(T)
    <3>1. CopiedChunk(src, g, h, y)
      BY <1>1, <2>1 DEF CopiedHeap
    <3>2. g[y].type \in Refers /\ Copy(src, g[y].a, h[src[y]].a) /\ Copy(src, g[y].b, h[src[y]].b)
      BY <2>6, <3>1 DEF CopiedChunk
    <3>3. g[y].a \in OrNull(S) /\ g[y].b \in OrNull(S)
      BY <1>3, <3>2 DEF Keeps
    <3> QED
      BY <2>2, <3>2, <3>3
  <2>7. Keeps(h, l, r, b, T)
    BY <2>1, <2>3, <2>4, <2>5, <2>6 DEF Keeps
  <2> QED
    BY <2>7 DEF Trimmed
<1>4. Keeps(g, m, s, d, DOMAIN g)
  <2>1. \A y, p : Copy(src, y, p) => y \in OrNull(DOMAIN g)
    BY <1>1 DEF Copy, OrNull
  <2>2. \A y \in DOMAIN g : g[y].type \in Refers => g[y].a \in OrNull(DOMAIN g) /\ g[y].b \in OrNull(DOMAIN g)
    BY <2>1 DEF CopiedHeap, CopiedChunk
  <2>3. \A x \in DOMAIN m : m[x] \in OrNull(DOMAIN g)
    BY <2>1 DEF CopiedRoots
  <2>4. \A t \in Symbol : d[t] \in OrNull(DOMAIN g)
    BY <2>1 DEF CopiedRoots
  <2>5. \A k \in 1 .. Len(s) : s[k] \in DOMAIN g
    BY <1>1 DEF CopiedRoots
  <2> QED
    BY <2>2, <2>3, <2>4, <2>5 DEF Keeps
<1>5. ASSUME NEW S, Keeps(g, m, s, d, S) PROVE S = DOMAIN g
  <2>1. S \subseteq DOMAIN src
    BY <1>1, <1>5 DEF Keeps
  <2>2. ASSUME NEW y \in DOMAIN src PROVE y \in S
    <3>1. PICK z \in S : src[z] = src[y]
      BY <1>2, <1>3, <1>5
    <3> QED
      BY <1>2, <2>1, <3>1
  <2> QED
    BY <1>1, <2>1, <2>2
<1> QED
  BY <1>1, <1>3, <1>4, <1>5 DEF Trimmed

(* The user sees no difference between a heap and its image. *)
LEMMA ImageShows ==
  ASSUME NEW h, NEW l, NEW r, NEW b, Intact(h, l, r, b),
         NEW src, NEW g, NEW m, NEW s, NEW d,
         Injects(src, h), CopiedHeap(src, g, h), CopiedRoots(src, m, s, d, l, r, b),
         \A i \in DOMAIN h : \E y \in DOMAIN src : src[y] = i,
         NEW e, Naming(e, h), NEW e2, e2 = [y \in DOMAIN g |-> e[src[y]]]
  PROVE  /\ Naming(e2, g) /\ \A f : Alike(e2, g, f) => Alike(e, h, f)
         /\ NamesOf(e2, m) = NamesOf(e, l) /\ NamesOf(e2, s) = NamesOf(e, r)
         /\ [t \in Symbol |-> Name(e2, d[t])] = [t \in Symbol |-> Name(e, b[t])]
<1>1. DOMAIN g = DOMAIN src /\ NULL \notin DOMAIN src /\ NULL \notin DOMAIN h
  BY DEF CopiedHeap, Intact, Fine, NULL
<1>2. src \in [DOMAIN src -> DOMAIN h] /\ \A x, y \in DOMAIN src : src[x] = src[y] => x = y
  BY DEF Injects
<1>3. DOMAIN e2 = DOMAIN src /\ \A y \in DOMAIN src : e2[y] = e[src[y]]
  BY <1>1
<1>4. \A y, p : Copy(src, y, p) => Name(e2, y) = Name(e, p)
  BY <1>1, <1>2, <1>3, CopyName
<1>5. Naming(e2, g)
  BY <1>1, <1>2, <1>3 DEF Naming
<1>6. {e2[y] : y \in DOMAIN g} = {e[x] : x \in DOMAIN h}
  BY <1>1, <1>2, <1>3
<1>7. ASSUME NEW y \in DOMAIN src PROVE NamedChunk(e2, g[y]) = NamedChunk(e, h[src[y]])
  <2>1. CopiedChunk(src, g, h, y)
    BY <1>1 DEF CopiedHeap
  <2>2. g[y].type = h[src[y]].type
    BY <2>1 DEF CopiedChunk
  <2>3. CASE g[y].type \in Refers
    <3>1. Name(e2, g[y].a) = Name(e, h[src[y]].a) /\ Name(e2, g[y].b) = Name(e, h[src[y]].b)
      BY <1>4, <2>1, <2>3 DEF CopiedChunk
    <3> QED
      BY <2>2, <2>3, <3>1 DEF NamedChunk
  <2>4. CASE g[y].type \notin Refers
    BY <2>1, <2>2, <2>4 DEF CopiedChunk, NamedChunk
  <2> QED
    BY <2>3, <2>4
<1>8. ASSUME NEW f, Alike(e2, g, f) PROVE Alike(e, h, f)
  <2>1. f = [i \in {e[x] : x \in DOMAIN h} |-> f[i]]
    BY <1>6, <1>8 DEF Alike
  <2>2. ASSUME NEW x \in DOMAIN h PROVE f[e[x]] = NamedChunk(e, h[x])
    <3>1. PICK y \in DOMAIN src : src[y] = x
      OBVIOUS
    <3> QED
      BY <1>1, <1>3, <1>7, <1>8, <3>1 DEF Alike
  <2> QED
    BY <2>1, <2>2 DEF Alike
<1>9. NamesOf(e2, m) = NamesOf(e, l)
  BY <1>4 DEF CopiedRoots, NamesOf
<1>10. NamesOf(e2, s) = NamesOf(e, r)
  <2>1. DOMAIN s = 1 .. Len(r) /\ DOMAIN r = 1 .. Len(r)
    BY DEF CopiedRoots, Intact
  <2> QED
    BY <1>4, <2>1 DEF CopiedRoots, NamesOf
<1>11. [t \in Symbol |-> Name(e2, d[t])] = [t \in Symbol |-> Name(e, b[t])]
  BY <1>4 DEF CopiedRoots
<1> QED
  BY <1>5, <1>8, <1>9, <1>10, <1>11

-----------------------------------------------------------------------------
(* What the user sees does not depend on whether chunks are being copied.  *)

(* A copy has the name of the chunk it copies. *)
KeptNames(e, h, fin) ==
  /\ DOMAIN id = DOMAIN heap
  /\ \A x \in DOMAIN h : id[x] = e[x]
  /\ \A x \in DOMAIN fin : id[x] = e[fin[x]]
  /\ \A k \in 1 .. Len(frames) : id[frames[k].new] = e[frames[k].old]

(* The memory is heap h, or what a collection has made of it. *)
HoldsHeap(h, fin) ==
  /\ Fine(h) /\ Injects(fin, h) /\ frames \in Seq([old : Nat, new : Nat, next : Nat])
  /\ DOMAIN heap = DOMAIN h \cup DOMAIN fin \cup {frames[k].new : k \in 1 .. Len(frames)}
  /\ NULL \notin DOMAIN heap /\ DOMAIN fin \cap DOMAIN h = {}
  /\ \A k \in 1 .. Len(frames) :
       frames[k].old \in DOMAIN h /\ frames[k].new \notin DOMAIN h /\ frames[k].new \notin DOMAIN fin
  /\ \A x \in DOMAIN fin : CopiedChunk(fin, heap, h, x)
  /\ \A i \in DOMAIN h : IF Done(fin, i) THEN heap[i].type = "moved" ELSE heap[i] = h[i]
  /\ root = 0 => heap = h

LEMMA SeenNames ==
  ASSUME NEW h, NEW fin, HoldsHeap(h, fin), NEW e, KeptNames(e, h, fin)
  PROVE  /\ \A p \in OrNull(DOMAIN h) : Identity(p) = Name(e, p)
         /\ \A y, p : Copy(fin, y, p) => Identity(y) = Name(e, p)
<1>1. /\ DOMAIN h \subseteq DOMAIN heap /\ DOMAIN fin \subseteq DOMAIN heap /\ NULL \notin DOMAIN heap
      /\ \A x \in DOMAIN fin : fin[x] \in DOMAIN h
  BY DEF HoldsHeap, Injects
<1>2. root = 0 => \A x \in DOMAIN heap : heap[x].type # "moved"
  BY DEF HoldsHeap, Fine, Types
<1>3. \A x \in DOMAIN heap : Identity(x) = id[x]
  BY <1>1, <1>2 DEF Identity
<1>4. Identity(NULL) = NULL
  BY DEF Identity
<1>5. ASSUME NEW p \in OrNull(DOMAIN h) PROVE Identity(p) = Name(e, p)
  BY <1>1, <1>3, <1>4 DEF OrNull, Name, KeptNames
<1>6. ASSUME NEW y, NEW p, Copy(fin, y, p) PROVE Identity(y) = Name(e, p)
  <2>1. CASE p = NULL
    BY <1>4, <1>6, <2>1 DEF Copy, Name
  <2>2. CASE p # NULL
    <3>1. y \in DOMAIN fin /\ fin[y] = p
      BY <1>6, <2>2 DEF Copy
    <3> QED
      BY <1>1, <1>3, <2>2, <3>1 DEF Name, KeptNames
  <2> QED
    BY <2>1, <2>2
<1> QED
  BY <1>5, <1>6

LEMMA HolderIs ==
  ASSUME NEW h, NEW fin, HoldsHeap(h, fin), NEW e, KeptNames(e, h, fin), Naming(e, h), NEW i \in DOMAIN h
  PROVE  IF Done(fin, i) THEN Holder(e[i]) \in DOMAIN fin /\ fin[Holder(e[i])] = i ELSE Holder(e[i]) = i
<1> DEFINE Fits(x) == /\ x \in DOMAIN heap /\ id[x] = e[i] /\ heap[x].type # "moved"
                      /\ \A k \in DOMAIN frames : frames[k].new # x
           z == CHOOSE x : Fits(x)
<1>1. DOMAIN frames = 1 .. Len(frames)
  BY DEF HoldsHeap
<1>2. ASSUME NEW x, Fits(x) PROVE (x \in DOMAIN fin /\ fin[x] = i) \/ (x = i /\ ~ Done(fin, i))
  <2>1. x \in DOMAIN h \/ x \in DOMAIN fin
    BY <1>1, <1>2 DEF HoldsHeap
  <2>2. CASE x \in DOMAIN h
    BY <1>2, <2>2 DEF HoldsHeap, KeptNames, Naming
  <2>3. CASE x \in DOMAIN fin
    <3>1. fin[x] \in DOMAIN h
      BY <2>3 DEF HoldsHeap, Injects
    <3> QED
      BY <1>2, <2>3, <3>1 DEF KeptNames, Naming
  <2> QED
    BY <2>1, <2>2, <2>3
<1>3. \E x : Fits(x)
  <2>1. CASE Done(fin, i)
    <3>1. PICK x \in DOMAIN fin : fin[x] = i
      BY <2>1 DEF Done
    <3>2. x \in DOMAIN heap /\ id[x] = e[i] /\ \A k \in DOMAIN frames : frames[k].new # x
      BY <1>1, <3>1 DEF HoldsHeap, KeptNames
    <3>3. heap[x].type # "moved"
      <4>1. heap[x].type = h[i].type
        BY <3>1 DEF HoldsHeap, CopiedChunk
      <4> QED
        BY <4>1 DEF HoldsHeap, Fine, Types
    <3> QED
      BY <3>2, <3>3
  <2>2. CASE ~ Done(fin, i)
    <3>1. i \in DOMAIN heap /\ id[i] = e[i] /\ \A k \in DOMAIN frames : frames[k].new # i
      BY <1>1 DEF HoldsHeap, KeptNames
    <3>2. heap[i].type # "moved"
      BY <2>2 DEF HoldsHeap, Fine, Types
    <3> QED
      BY <3>1, <3>2
  <2> QED
    BY <2>1, <2>2
<1>4. Holder(e[i]) = CHOOSE x \in DOMAIN heap : /\ id[x] = e[i] /\ heap[x].type # "moved"
                                                /\ \A k \in DOMAIN frames : frames[k].new # x
  BY DEF Holder
<1> DEFINE w == CHOOSE x \in DOMAIN heap : /\ id[x] = e[i] /\ heap[x].type # "moved"
                                           /\ \A k \in DOMAIN frames : frames[k].new # x
<1>5. Fits(w)
  BY <1>3
<1>6. Fits(Holder(e[i]))
  BY <1>4, <1>5
<1> HIDE DEF Fits
<1>7. \/ Holder(e[i]) \in DOMAIN fin /\ fin[Holder(e[i])] = i
      \/ Holder(e[i]) = i /\ ~ Done(fin, i)
  BY <1>2, <1>6
<1> QED
  BY <1>7 DEF Done

LEMMA SeenHeap ==
  ASSUME NEW h, NEW fin, HoldsHeap(h, fin), NEW e, KeptNames(e, h, fin), Naming(e, h)
  PROVE  Alike(e, h, heap_seen)
<1>1. Range(id) = {e[x] : x \in DOMAIN h}
  <2>1. DOMAIN id = DOMAIN h \cup DOMAIN fin \cup {frames[k].new : k \in 1 .. Len(frames)}
    BY DEF HoldsHeap, KeptNames
  <2>2. ASSUME NEW y \in DOMAIN id PROVE id[y] \in {e[x] : x \in DOMAIN h}
    <3>1. CASE y \in DOMAIN h
      BY <3>1 DEF KeptNames
    <3>2. CASE y \in DOMAIN fin
      BY <3>2 DEF HoldsHeap, KeptNames, Injects
    <3>3. CASE y \in {frames[k].new : k \in 1 .. Len(frames)}
      <4>1. PICK k \in 1 .. Len(frames) : y = frames[k].new
        BY <3>3
      <4> QED
        BY <4>1 DEF HoldsHeap, KeptNames
    <3> QED
      BY <2>1, <3>1, <3>2, <3>3
  <2>3. ASSUME NEW x \in DOMAIN h PROVE e[x] \in Range(id)
    BY <2>1 DEF KeptNames, Range
  <2> QED
    BY <2>2, <2>3 DEF Range
<1>2. ASSUME NEW i \in DOMAIN h PROVE Contents(Holder(e[i])) = NamedChunk(e, h[i])
  <2> PICK x : x = Holder(e[i])
    OBVIOUS
  <2>1. /\ heap[x].type = h[i].type
        /\ h[i].type \notin Refers => heap[x].a = h[i].a
        /\ h[i].type \in Refers => Identity(heap[x].a) = Name(e, h[i].a) /\ Identity(heap[x].b) = Name(e, h[i].b)
    <3>1. CASE Done(fin, i)
      <4>1. x \in DOMAIN fin /\ fin[x] = i
        BY <3>1, HolderIs
      <4>2. CopiedChunk(fin, heap, h, x)
        BY <4>1 DEF HoldsHeap
      <4> QED
        BY <4>1, <4>2, SeenNames DEF CopiedChunk
    <3>2. CASE ~ Done(fin, i)
      <4>1. heap[x] = h[i]
        BY <3>2, HolderIs DEF HoldsHeap
      <4>2. h[i].type \in Refers => h[i].a \in OrNull(DOMAIN h) /\ h[i].b \in OrNull(DOMAIN h)
        BY DEF HoldsHeap, Fine
      <4> QED
        BY <4>1, <4>2, SeenNames
    <3> QED
      BY <3>1, <3>2
  <2>2. Fields(heap[x].type) = <<>> <=> heap[x].type \notin Refers
    BY FieldsAre DEF Width
  <2> QED
    BY <2>1, <2>2 DEF Contents, NamedChunk
<1>3. heap_seen = [i \in Range(id) |-> Contents(Holder(i))]
  BY DEF heap_seen
<1>4. \A i \in DOMAIN h : heap_seen[e[i]] = NamedChunk(e, h[i])
  BY <1>1, <1>2, <1>3
<1>5. heap_seen = [i \in {e[x] : x \in DOMAIN h} |-> heap_seen[i]]
  BY <1>1, <1>3
<1> QED
  BY <1>4, <1>5 DEF Alike

(* Between collections the user sees what there is. *)
LEMMA ShowsItself ==
  ASSUME root = 0, frames = <<>>, Intact(heap, loc, registers, bindings), Naming(id, heap)
  PROVE  Shows(id, heap, loc, registers, bindings)
<1> PICK h : h = heap
  OBVIOUS
<1> PICK e : e = id
  OBVIOUS
<1> PICK fin : fin = [x \in {} |-> NULL]
  OBVIOUS
<1>1. DOMAIN fin = {} /\ fin \in [{} -> DOMAIN h] /\ frames \in Seq([old : Nat, new : Nat, next : Nat]) /\ Len(frames) = 0
  OBVIOUS
<1>2. Fine(h) /\ NULL \notin DOMAIN h
  BY DEF Intact, Fine, NULL
<1>3. \A i : ~ Done(fin, i)
  BY <1>1 DEF Done
<1>4. 1 .. Len(frames) = {}
  BY <1>1
<1>5. HoldsHeap(h, fin)
  BY <1>1, <1>2, <1>3, <1>4 DEF HoldsHeap, Injects
<1>6. KeptNames(e, h, fin)
  BY <1>1, <1>4 DEF KeptNames, Naming
<1>7. Alike(e, h, heap_seen)
  BY <1>5, <1>6, SeenHeap
<1>8. \A p \in OrNull(DOMAIN h) : Identity(p) = Name(e, p)
  BY <1>5, <1>6, SeenNames
<1>9. /\ \A x \in DOMAIN loc : loc[x] \in OrNull(DOMAIN h)
      /\ DOMAIN registers = 1 .. Len(registers) /\ \A k \in 1 .. Len(registers) : registers[k] \in DOMAIN h
      /\ \A s \in Symbol : bindings[s] \in OrNull(DOMAIN h)
  BY DEF Intact
<1> QED
  BY <1>7, <1>8, <1>9 DEF Shows, OrNull, loc_seen, registers_seen, bindings_seen, NamesOf

(* During one he sees what there was when it began. *)
LEMMA ShowsOriginal ==
  ASSUME PointerSize = 4, root # 0, NEW h, NEW l, NEW r, NEW b, Intact(h, l, r, b), DOMAIN l = Stacks,
         NEW fin, Copying(h, l, r, b, fin), NEW e, Naming(e, h), KeptNames(e, h, fin)
  PROVE  Shows(e, h, l, r, b)
<1> PICK B : B = BoundOf(b)
  OBVIOUS
<1>1. Memory(h, fin, heap, frames, current_heap, heap_position) /\ RootsMoved(fin, B, root, l, b, r, loc, bindings, registers)
  BY DEF Copying
<1>2. /\ Fine(h) /\ Injects(fin, h) /\ frames \in Seq([old : Nat, new : Nat, next : Nat])
      /\ Space(h, fin, heap, frames, current_heap, heap_position)
  BY <1>1 DEF Memory
<1>3. DOMAIN heap = DOMAIN h \cup DOMAIN fin \cup {frames[k].new : k \in 1 .. Len(frames)}
  BY <1>2 DEF Space
<1>4. /\ NULL \notin DOMAIN heap /\ DOMAIN fin \cap DOMAIN h = {}
      /\ \A k \in 1 .. Len(frames) : frames[k].new \notin DOMAIN h
  BY <1>2, SpaceApart
<1>5. \A k \in 1 .. Len(frames) : frames[k].old \in DOMAIN h /\ frames[k].new \notin DOMAIN fin
  BY <1>1 DEF Memory, Frame
<1>6. ASSUME NEW i \in DOMAIN h PROVE IF Done(fin, i) THEN heap[i].type = "moved" ELSE heap[i] = h[i]
  <2>1. Original(h, fin, heap, i)
    BY <1>1 DEF Memory
  <2>2. h[i] = Record(h[i]) /\ heap[i] = Record(heap[i])
    BY <1>2, <1>3 DEF Fine, Space, Records
  <2> QED
    BY <2>1, <2>2 DEF Original, Record
<1>7. \A x \in DOMAIN fin : CopiedChunk(fin, heap, h, x)
  BY <1>1 DEF Memory
<1>8. HoldsHeap(h, fin)
  BY <1>2, <1>3, <1>4, <1>5, <1>6, <1>7 DEF HoldsHeap
<1>9. Alike(e, h, heap_seen)
  BY <1>8, SeenHeap
<1>10. /\ \A p \in OrNull(DOMAIN h) : Identity(p) = Name(e, p)
       /\ \A y, p : Copy(fin, y, p) => Identity(y) = Name(e, p)
  BY <1>8, SeenNames
<1>11. /\ DOMAIN loc = Stacks /\ bindings \in [Symbol -> Int]
       /\ \A t \in Symbol : bindings[t] = NULL <=> b[t] = NULL
       /\ registers \in Seq(Int) /\ Len(registers) = Len(r)
       /\ \A i \in 1 .. Count(B, r) :
            \/ Copy(fin, Root(B, loc, bindings, registers, i), Root(B, l, b, r, i))
            \/ Root(B, loc, bindings, registers, i) = Root(B, l, b, r, i)
  BY <1>1 DEF RootsMoved
<1>12. /\ \A x \in DOMAIN l : l[x] \in OrNull(DOMAIN h)
       /\ r \in Seq(DOMAIN h) /\ DOMAIN r = 1 .. Len(r) /\ \A k \in 1 .. Len(r) : r[k] \in DOMAIN h
       /\ Len(r) \in Nat /\ DOMAIN registers = 1 .. Len(r)
       /\ \A s \in Symbol : b[s] \in OrNull(DOMAIN h)
  BY <1>11 DEF Intact
<1>13. /\ Len(B) \in Nat /\ \A k \in 1 .. Len(B) : B[k] \in Symbol
       /\ \A s \in Symbol : b[s] # NULL => \E k \in 1 .. Len(B) : B[k] = s
  BY BoundFacts
<1>14. ASSUME NEW i \in 1 .. Count(B, r), Root(B, l, b, r, i) \in OrNull(DOMAIN h)
       PROVE  Identity(Root(B, loc, bindings, registers, i)) = Name(e, Root(B, l, b, r, i))
  BY <1>10, <1>11, <1>14
<1>15. \A x \in DOMAIN l : Identity(loc[x]) = Name(e, l[x])
  <2>1. 1 \in 1 .. Count(B, r) /\ 2 \in 1 .. Count(B, r)
    BY <1>12, <1>13 DEF Count
  <2>2. \A m, d, s : Root(B, m, d, s, 1) = m["ds"] /\ Root(B, m, d, s, 2) = m["cs"]
    BY DEF Root
  <2> QED
    BY <1>12, <1>14, <2>1, <2>2 DEF Stacks
<1>16. \A k \in DOMAIN r : Identity(registers[k]) = Name(e, r[k])
  <2> SUFFICES ASSUME NEW k \in 1 .. Len(r) PROVE Identity(registers[k]) = Name(e, r[k])
    BY <1>12
  <2> PICK i : i = 2 + Len(B) + k
    OBVIOUS
  <2>1. i \in 1 .. Count(B, r) /\ i # 1 /\ i # 2 /\ ~ (i <= 2 + Len(B)) /\ i - 2 - Len(B) = k
    BY <1>12, <1>13 DEF Count
  <2>2. Root(B, l, b, r, i) = r[k] /\ Root(B, loc, bindings, registers, i) = registers[k]
    BY <2>1 DEF Root
  <2> QED
    BY <1>12, <1>14, <2>1, <2>2 DEF OrNull
<1>17. ASSUME NEW t \in Symbol PROVE Identity(bindings[t]) = Name(e, b[t])
  <2>1. CASE b[t] = NULL
    BY <1>10, <1>11, <2>1 DEF OrNull
  <2>2. CASE b[t] # NULL
    <3>1. PICK k \in 1 .. Len(B) : B[k] = t
      BY <1>13, <2>2
    <3> PICK i : i = 2 + k
      OBVIOUS
    <3>2. i \in 1 .. Count(B, r) /\ i # 1 /\ i # 2 /\ i <= 2 + Len(B) /\ i - 2 = k
      BY <1>12, <1>13 DEF Count
    <3>3. Root(B, l, b, r, i) = b[t] /\ Root(B, loc, bindings, registers, i) = bindings[t]
      BY <3>1, <3>2 DEF Root
    <3> QED
      BY <1>12, <1>14, <3>2, <3>3
  <2> QED
    BY <2>1, <2>2
<1>18. DOMAIN loc = DOMAIN l /\ DOMAIN registers = DOMAIN r
  BY <1>11, <1>12
<1>19. /\ loc_seen = NamesOf(e, l) /\ registers_seen = NamesOf(e, r)
       /\ bindings_seen = [s \in Symbol |-> Name(e, b[s])]
  BY <1>15, <1>16, <1>17, <1>18 DEF loc_seen, registers_seen, bindings_seen, NamesOf
<1> QED
  BY <1>9, <1>19 DEF Shows

-----------------------------------------------------------------------------
(* A collection cannot be seen.                                            *)

(* The program works on the heap h, with the locals l, the registers r and *)
(* the bindings b: those there are, or those a collection began with.      *)
Works(e, h, l, r, b) ==
  /\ Intact(h, l, r, b) /\ Naming(e, h) /\ Trimmed(h, l, r, b)
  /\ IF root = 0 THEN frames = <<>> /\ e = id /\ h = heap /\ l = loc /\ r = registers /\ b = bindings
     ELSE Asks(h, l, r, b) /\ \E fin : Copying(h, l, r, b, fin) /\ KeptNames(e, h, fin)

LEMMA WorksShows ==
  ASSUME PointerSize = 4, NEW e, NEW h, NEW l, NEW r, NEW b, Works(e, h, l, r, b)
  PROVE  Shows(e, h, l, r, b)
<1>1. CASE root = 0
  BY <1>1, ShowsItself DEF Works
<1>2. CASE root # 0
  BY <1>2, ShowsOriginal DEF Works, Asks
<1> QED
  BY <1>1, <1>2

LEMMA KeptStored ==
  ASSUME NEW new, NEW g, NEW outer, Stored(new, g, outer), root \in Nat, DOMAIN g = DOMAIN heap,
         outer \in Seq([old : Nat, new : Nat, next : Nat]),
         NEW e, NEW h, NEW fin, KeptNames(e, h, fin),
         NEW more, \A x \in DOMAIN more : id[x] = e[more[x]],
         \A k \in 1 .. Len(outer) : id[outer[k].new] = e[outer[k].old]
  PROVE  KeptNames(e, h, more)'
<1>1. id' = id /\ DOMAIN heap' = DOMAIN heap
  BY StoredFacts
<1>2. ASSUME NEW k \in 1 .. Len(frames') PROVE id[frames'[k].new] = e[frames'[k].old]
  <2>1. CASE outer = <<>>
    <3>1. frames' = <<>>
      BY <2>1 DEF Stored, StoreInRoot
    <3> QED
      BY <1>2, <3>1
  <2>2. CASE outer # <<>>
    <3> PICK fs : fs = frames'
      OBVIOUS
    <3>1. Stepped(fs, outer)
      BY <2>2 DEF Stored, Stepped
    <3>2. /\ Len(fs) = Len(outer)
          /\ \A i \in 1 .. Len(outer) : fs[i].old = outer[i].old /\ fs[i].new = outer[i].new
      BY <2>2, <3>1, SteppedFacts
    <3> QED
      BY <1>2, <3>2
  <2> QED
    BY <2>1, <2>2
<1> QED
  BY <1>1, <1>2 DEF KeptNames

LEMMA KeptEntered ==
  ASSUME NEW e, NEW h, NEW fin, KeptNames(e, h, fin), frames \in Seq([old : Nat, new : Nat, next : Nat]),
         DOMAIN h \subseteq DOMAIN heap, DOMAIN fin \subseteq DOMAIN heap,
         \A k \in 1 .. Len(frames) : frames[k].new \in DOMAIN heap,
         NEW n, n \notin DOMAIN heap, NEW p, p \in DOMAIN h,
         heap' = With(heap, n, heap[p]), id' = With(id, n, id[p]),
         frames' = Append(frames, [old |-> p, new |-> n, next |-> 1])
  PROVE  KeptNames(e, h, fin)'
<1>1. /\ DOMAIN heap' = DOMAIN heap \cup {n} /\ DOMAIN id' = DOMAIN heap' /\ DOMAIN id = DOMAIN heap
      /\ id'[n] = id[p] /\ \A x \in DOMAIN heap : id'[x] = id[x]
  BY DEF With, KeptNames
<1> PICK f : f = [old |-> p, new |-> n, next |-> 1]
  OBVIOUS
<1> PICK fs : fs = frames'
  OBVIOUS
<1>2. Len(fs) = Len(frames) + 1 /\ fs[Len(fs)] = f /\ \A k \in 1 .. Len(frames) : fs[k] = frames[k]
  OBVIOUS
<1>3. ASSUME NEW k \in 1 .. Len(fs) PROVE id'[fs[k].new] = e[fs[k].old]
  <2>1. CASE k = Len(fs)
    <3>1. fs[k].new = n /\ fs[k].old = p
      BY <1>2, <2>1
    <3> QED
      BY <1>1, <3>1 DEF KeptNames
  <2>2. CASE k # Len(fs)
    <3>1. k \in 1 .. Len(frames) /\ fs[k] = frames[k]
      BY <1>2, <2>2
    <3> QED
      BY <1>1, <3>1 DEF KeptNames
  <2> QED
    BY <2>1, <2>2
<1> QED
  BY <1>1, <1>3 DEF KeptNames

LEMMA MoveHidden ==
  ASSUME SetupFits, SpaceInv, Null \/ Known \/ Enter \/ Leave,
         NEW e, NEW h, NEW l, NEW r, NEW b, Works(e, h, l, r, b)
  PROVE  Works(e, h, l, r, b)'
<1>1. root # 0
  BY DEF Null, Known, Enter, Leave, Pointer, Moving
<1> PICK fin : Copying(h, l, r, b, fin) /\ KeptNames(e, h, fin)
  BY <1>1 DEF Works
<1>2. Asks(h, l, r, b)
  BY <1>1 DEF Works
<1> PICK o : Sane(h, l, r, b, o)
  BY <1>2 DEF Asks
<1>3. Memory(h, fin, heap, frames, current_heap, heap_position) /\ root \in Nat
  <2>1. RootsMoved(fin, BoundOf(b), root, l, b, r, loc, bindings, registers)
    BY DEF Copying
  <2>2. root \in 1 .. Count(BoundOf(b), r) + 1 /\ Count(BoundOf(b), r) \in Nat
    BY <2>1, RootsMovedFacts
  <2> QED
    BY <2>2 DEF Copying
<1>4. /\ frames \in Seq([old : Nat, new : Nat, next : Nat])
      /\ Space(h, fin, heap, frames, current_heap, heap_position)
      /\ \A k \in 1 .. Len(frames) : id[frames[k].new] = e[frames[k].old]
      /\ \A x \in DOMAIN fin : id[x] = e[fin[x]]
  BY <1>3 DEF Memory, KeptNames
<1>5. /\ \E more : Copying(h, l, r, b, more)' /\ KeptNames(e, h, more)'
      /\ todo' = todo /\ root' # 0
  <2>1. CASE Null
    <3>1. Stored(NULL, heap, frames) /\ Copying(h, l, r, b, fin)'
      BY <2>1, NullCopies DEF Null
    <3>2. KeptNames(e, h, fin)'
      BY <1>3, <1>4, <3>1, KeptStored
    <3> QED
      BY <1>1, <1>3, <3>1, <3>2, StoredFacts
  <2>2. CASE Known
    <3>1. PICK new : Stored(new, heap, frames)
      BY <2>2 DEF Known
    <3>2. KeptNames(e, h, fin)'
      BY <1>3, <1>4, <3>1, KeptStored
    <3>3. Copying(h, l, r, b, fin)'
      BY <2>2, KnownCopies
    <3> QED
      BY <1>1, <1>3, <3>1, <3>2, <3>3, StoredFacts
  <2>3. CASE Enter
    <3>1. Copying(h, l, r, b, fin)' /\ UNCHANGED <<todo, root>>
      BY <2>3, EnterCopies DEF Enter
    <3>2. PICK p \in DOMAIN heap :
            /\ Pointer(p)
            /\ \/ UNCHANGED <<heap, id, frames>>
               \/ /\ ~ heap_position + sizeof_chunk(heap[p].type) > free_heap + Half
                  /\ heap' = With(heap, heap_position, heap[p])
                  /\ id' = With(id, heap_position, id[p])
                  /\ frames' = Append(frames, [old |-> p, new |-> heap_position, next |-> 1])
      BY <2>3 DEF Enter
    <3>3. KeptNames(e, h, fin)'
      <4>1. CASE UNCHANGED <<heap, id, frames>>
        BY <4>1 DEF KeptNames
      <4>2. CASE /\ ~ heap_position + sizeof_chunk(heap[p].type) > free_heap + Half
                 /\ heap' = With(heap, heap_position, heap[p])
                 /\ id' = With(id, heap_position, id[p])
                 /\ frames' = Append(frames, [old |-> p, new |-> heap_position, next |-> 1])
        <5> PICK n : n = heap_position
          OBVIOUS
        <5>1. /\ NULL \notin DOMAIN heap /\ DOMAIN h \subseteq DOMAIN heap /\ DOMAIN fin \subseteq DOMAIN heap
              /\ \A k \in 1 .. Len(frames) : frames[k].new \in DOMAIN heap
              /\ heap_position < Half - current_heap + Half => heap_position \notin DOMAIN heap
              /\ heap_position \in Nat
          BY <1>4, SpaceApart
        <5>2. n \notin DOMAIN heap
          <6>1. current_heap \in {0, Half}
            BY <1>4 DEF Space
          <6>2. free_heap = Half - current_heap
            BY <6>1, HalvesAre
          <6>3. sizeof_chunk(heap[p].type) \in Nat \ {0}
            BY SizeIs
          <6>4. \A x \in Nat \ {0} : ~ heap_position + x > Half - current_heap + Half => heap_position < Half - current_heap + Half
            BY <5>1, <6>1, HalfAssumption
          <6> QED
            BY <4>2, <5>1, <6>2, <6>3, <6>4
        <5>3. p \in DOMAIN h
          <6>1. p \in OrNull(DOMAIN h)
            BY <3>2, PointerIs
          <6> QED
            BY <5>1, <6>1 DEF OrNull
        <5>4. /\ heap' = With(heap, n, heap[p]) /\ id' = With(id, n, id[p])
              /\ frames' = Append(frames, [old |-> p, new |-> n, next |-> 1])
          BY <4>2
        <5> QED
          BY <1>4, <5>1, <5>2, <5>3, <5>4, KeptEntered
      <4> QED
        BY <3>2, <4>1, <4>2
    <3> QED
      BY <1>1, <3>1, <3>3
  <2>4. CASE Leave
    <3>1. /\ frames # <<>> /\ Stored(top.new, Marked(top.old, top.new), Front(frames))
          /\ DOMAIN Marked(top.old, top.new) = DOMAIN heap
      BY <2>4 DEF Leave, Marked
    <3>2. PICK more : more = With(fin, top.new, top.old) /\ Copying(h, l, r, b, more)'
      BY <2>4, LeaveCopies
    <3> PICK outer : outer = Front(frames)
      OBVIOUS
    <3> PICK fs : fs = frames
      OBVIOUS
    <3>3. /\ outer \in Seq([old : Nat, new : Nat, next : Nat]) /\ Len(fs) \in 1 .. Len(fs)
          /\ Len(outer) = Len(fs) - 1 /\ \A k \in 1 .. Len(outer) : outer[k] = fs[k] /\ k \in 1 .. Len(fs) - 1
      <4>1. Dropped(outer, fs)
        BY DEF Dropped
      <4>2. fs \in Seq([old : Nat, new : Nat, next : Nat]) /\ fs # <<>>
        BY <1>4, <3>1
      <4> QED
        BY ONLY <4>1, <4>2, DroppedFacts
    <3>4. top = fs[Len(fs)]
      BY DEF top, Last
    <3>5. ASSUME NEW k \in 1 .. Len(outer) PROVE id[outer[k].new] = e[outer[k].old]
      <4>1. outer[k] = fs[k] /\ k \in 1 .. Len(fs) - 1
        BY <3>3
      <4>2. k \in 1 .. Len(fs)
        BY <4>1
      <4>3. k \in 1 .. Len(frames) /\ outer[k] = frames[k]
        BY <4>1, <4>2
      <4> QED
        BY <1>4, <4>3
    <3>6. ASSUME NEW x \in DOMAIN more PROVE id[x] = e[more[x]]
      <4>1. id[top.new] = e[top.old]
        BY <1>4, <3>3, <3>4
      <4> QED
        BY <1>4, <3>2, <4>1 DEF With
    <3>7. KeptNames(e, h, more)'
      BY <1>3, <3>1, <3>3, <3>5, <3>6, KeptStored
    <3> QED
      BY <1>1, <1>3, <3>1, <3>2, <3>7, StoredFacts
  <2> QED
    BY <2>1, <2>2, <2>3, <2>4
<1>6. Asks(h, l, r, b)'
  BY <1>2, <1>5 DEF Asks
<1> QED
  BY <1>5, <1>6 DEF Works

ShowsWork == \A e, h, l, r, b : Works(e, h, l, r, b) => Shows(e, h, l, r, b)

LEMMA ShownWhenWorking == PointerSize = 4 => ShowsWork
  BY WorksShows DEF ShowsWork

(* ... and in the next state *)
LEMMA WorksShowsNext ==
  ASSUME PointerSize = 4, NEW e, NEW h, NEW l, NEW r, NEW b, Works(e, h, l, r, b)'
  PROVE  Shows(e, h, l, r, b)'
<1>1. (PointerSize = 4 => ShowsWork)'
  BY ShownWhenWorking, PTL
<1>2. ShowsWork'
  BY <1>1
<1> QED
  BY <1>2 DEF ShowsWork

NothingSeen == UNCHANGED <<heap_seen, loc_seen, registers_seen, bindings_seen>>

LEMMA ShowsSame ==
  ASSUME NEW e, NEW h, NEW l, NEW r, NEW b, Shows(e, h, l, r, b), Shows(e, h, l, r, b)'
  PROVE  NothingSeen
<1>1. heap_seen' = heap_seen
  BY AlikeSame DEF Shows
<1> QED
  BY <1>1 DEF Shows, NothingSeen

(* The program works on a heap, and its locals are the ones it still uses. *)
WorkInv ==
  /\ DOMAIN loc \subseteq Stacks \cup StillUsed(todo)
  /\ \E e, h, l, r, b : Works(e, h, l, r, b)

LEMMA StartHidden ==
  ASSUME SetupFits, SpaceInv, StartCollection,
         NEW e, NEW h, NEW l, NEW r, NEW b, Works(e, h, l, r, b)
  PROVE  Works(e, h, l, r, b)'
<1>1. /\ root = 0 /\ allocating /\ heap_position' = free_heap /\ root' = 1
      /\ UNCHANGED <<heap, loc, registers, bindings, todo, allocating, process, current_heap, frames, collected, id>>
  BY DEF StartCollection, Asked, machineVars
<1> PICK fin : fin = [x \in {} |-> NULL]
  OBVIOUS
<1>2. /\ e = id /\ h = heap /\ l = loc /\ r = registers /\ b = bindings
      /\ Intact(h, l, r, b) /\ Naming(e, h) /\ Trimmed(h, l, r, b)
  BY <1>1 DEF Works
<1>3. /\ current_heap \in {0, Half} /\ heap_position \in current_heap .. current_heap + Half
      /\ DOMAIN heap \subseteq current_heap .. heap_position - 1
      /\ Asks(h, l, r, b) /\ frames = <<>>
  BY <1>1, <1>2 DEF SpaceInv, Ranges, Contained, Filled, MachineFits
<1> PICK o : Sane(h, l, r, b, o) /\ DOMAIN l = Stacks
  BY <1>3 DEF Asks
<1>4. Copying(h, l, r, b, fin)'
  BY <1>2, <1>3, StartCopies
<1>5. Asks(h, l, r, b)'
  BY <1>1, <1>3 DEF Asks
<1>6. KeptNames(e, h, fin)'
  <2>1. DOMAIN fin = {} /\ 1 .. Len(frames') = {} /\ DOMAIN id = DOMAIN heap
    BY <1>1, <1>2, <1>3 DEF Naming
  <2> QED
    BY <1>1, <1>2, <2>1 DEF KeptNames
<1> QED
  BY <1>1, <1>2, <1>4, <1>5, <1>6 DEF Works

(* The chunks have moved; what the user sees has not. *)
LEMMA EndHidden ==
  ASSUME SetupFits, PointerSize = 4, SpaceInv, EndCollection,
         NEW e, NEW h, NEW l, NEW r, NEW b, Works(e, h, l, r, b)
  PROVE  (\E e2, h2, l2, r2, b2 : Works(e2, h2, l2, r2, b2))' /\ Shows(e, h, l, r, b)'
<1>1. /\ root # 0 /\ frames = <<>> /\ root > Len(Roots) /\ root' = 0
      /\ heap' = Reachable(heap, loc, registers, bindings) /\ id' = [x \in DOMAIN heap' |-> id[x]]
      /\ UNCHANGED <<loc, registers, bindings, todo, allocating, process, frames, heap_position>>
  BY DEF EndCollection, Moving, Stays
<1> PICK fin : Copying(h, l, r, b, fin) /\ KeptNames(e, h, fin)
  BY <1>1 DEF Works
<1>2. Asks(h, l, r, b) /\ Intact(h, l, r, b) /\ Naming(e, h) /\ Trimmed(h, l, r, b)
  BY <1>1 DEF Works
<1> PICK o : Sane(h, l, r, b, o) /\ DOMAIN l = Stacks
  BY <1>2 DEF Asks
<1> PICK g, fs, c, n, m, d, s, k, g2 :
       /\ g = heap /\ fs = frames /\ c = current_heap /\ n = heap_position
       /\ m = loc /\ d = bindings /\ s = registers /\ k = root /\ g2 = heap'
  OBVIOUS
<1>3. Memory(h, fin, g, fs, c, n) /\ RootsMoved(fin, BoundOf(b), k, l, b, r, m, d, s)
  BY DEF Copying
<1>4. k > Count(BoundOf(b), r)
  BY <1>1, <1>3, RootsMovedFacts
<1>5. g2 = Reachable(g, m, s, d) /\ fs = <<>>
  BY <1>1
<1> PICK src : /\ Injects(src, h) /\ CopiedHeap(src, g2, h) /\ CopiedRoots(src, m, s, d, l, r, b)
               /\ \A x \in DOMAIN src : x \in DOMAIN fin /\ src[x] = fin[x]
  BY <1>3, <1>4, <1>5, EndIsImage
<1>6. (\A i \in DOMAIN h : \E y \in DOMAIN src : src[y] = i) /\ Trimmed(g2, m, s, d)
  BY <1>2, ImageTrimmed
<1> PICK e2 : e2 = [y \in DOMAIN g2 |-> e[src[y]]]
  OBVIOUS
<1>7. /\ Naming(e2, g2) /\ \A f : Alike(e2, g2, f) => Alike(e, h, f)
      /\ NamesOf(e2, m) = NamesOf(e, l) /\ NamesOf(e2, s) = NamesOf(e, r)
      /\ [t \in Symbol |-> Name(e2, d[t])] = [t \in Symbol |-> Name(e, b[t])]
  BY <1>2, <1>6, ImageShows
<1>8. Intact(g2, m, s, d)
  BY ImageSane, SaneWhole
<1>9. id' = e2
  <2>1. DOMAIN g2 = DOMAIN src
    BY DEF CopiedHeap
  <2>2. \A x \in DOMAIN g2 : id[x] = e[src[x]]
    BY <2>1 DEF KeptNames
  <2>3. e2 = [x \in DOMAIN g2 |-> id[x]]
    BY <2>2
  <2> QED
    BY <1>1, <2>3
<1>10. Works(e2, g2, m, s, d)'
  BY <1>1, <1>6, <1>7, <1>8, <1>9 DEF Works
<1>11. Shows(e2, g2, m, s, d)'
  BY <1>10, WorksShowsNext
<1>12. Shows(e, h, l, r, b)'
  BY <1>7, <1>11 DEF Shows
<1> QED
  BY <1>10, <1>12

-----------------------------------------------------------------------------
(* An operation on the chunks is one on their names.                       *)

NamesBound(e, b) == [s \in Symbol |-> Name(e, b[s])]

LEMMA NameFacts ==
  ASSUME NEW e, NEW h, Naming(e, h), NULL \notin DOMAIN h, NEW g, Alike(e, h, g)
  PROVE  /\ \A i : i \in DOMAIN g <=> \E x \in DOMAIN h : i = e[x]
         /\ NULL \notin DOMAIN g /\ DOMAIN g \subseteq 0 .. Half
         /\ \A p \in DOMAIN h : Name(e, p) = e[p] /\ Name(e, p) \in DOMAIN g /\ g[Name(e, p)] = NamedChunk(e, h[p])
         /\ \A p \in OrNull(DOMAIN h) : (Name(e, p) = NULL <=> p = NULL) /\ Name(e, p) \in OrNull(DOMAIN g)
         /\ \A p, q \in OrNull(DOMAIN h) : Name(e, p) = Name(e, q) => p = q
<1>1. DOMAIN g = {e[x] : x \in DOMAIN h}
  BY DEF Alike
<1>2. \A x \in DOMAIN h : e[x] \in 0 .. Half
  BY DEF Naming
<1>3. NULL \notin 0 .. Half
  BY DEF NULL
<1>4. \A p \in DOMAIN h : Name(e, p) = e[p] /\ e[p] # NULL
  BY <1>2, <1>3 DEF Name
<1>5. Name(e, NULL) = NULL
  BY DEF Name
<1> QED
  BY <1>1, <1>2, <1>3, <1>4, <1>5 DEF OrNull, Naming, Alike

LEMMA NamedWhole ==
  ASSUME NEW h, NEW l, NEW r, NEW b, Intact(h, l, r, b), NEW e, Naming(e, h), NEW g, Alike(e, h, g)
  PROVE  Intact(g, NamesOf(e, l), NamesOf(e, r), NamesBound(e, b))
<1>1. /\ Fine(h) /\ \A x \in DOMAIN l : l[x] \in OrNull(DOMAIN h)
      /\ r \in Seq(DOMAIN h) /\ Len(r) \in Nat /\ DOMAIN r = 1 .. Len(r) /\ \A k \in 1 .. Len(r) : r[k] \in DOMAIN h
      /\ b \in [Symbol -> OrNull(DOMAIN h)] /\ NULL \notin DOMAIN h
  BY DEF Intact, Fine, NULL
<1>2. /\ \A i : i \in DOMAIN g <=> \E x \in DOMAIN h : i = e[x]
      /\ NULL \notin DOMAIN g /\ DOMAIN g \subseteq 0 .. Half
      /\ \A p \in DOMAIN h : Name(e, p) = e[p] /\ Name(e, p) \in DOMAIN g /\ g[Name(e, p)] = NamedChunk(e, h[p])
      /\ \A p \in OrNull(DOMAIN h) : Name(e, p) \in OrNull(DOMAIN g)
  BY <1>1, NameFacts
<1>3. IsFiniteSet(DOMAIN g) /\ DOMAIN g \subseteq Nat
  <2>1. IsFiniteSet(0 .. Half) /\ 0 .. Half \subseteq Nat
    BY HalfAssumption, FS_Interval
  <2> QED
    BY <1>2, <2>1, FS_Subset
<1>4. ASSUME NEW i \in DOMAIN g
      PROVE  /\ g[i] = Record(g[i]) /\ g[i].type \in Types
             /\ g[i].type \in Refers => g[i].a \in OrNull(DOMAIN g) /\ g[i].b \in OrNull(DOMAIN g)
  <2>1. PICK x \in DOMAIN h : i = e[x] /\ g[i] = NamedChunk(e, h[x])
    BY <1>2
  <2>2. CASE h[x].type \in Refers
    <3>1. h[x].a \in OrNull(DOMAIN h) /\ h[x].b \in OrNull(DOMAIN h) /\ h[x].type \in Types
      BY <1>1, <2>2 DEF Fine
    <3>2. g[i] = [type |-> h[x].type, a |-> Name(e, h[x].a), b |-> Name(e, h[x].b)]
      BY <2>1, <2>2 DEF NamedChunk
    <3> QED
      BY <1>2, <3>1, <3>2 DEF Record
  <2>3. CASE h[x].type \notin Refers
    <3>1. h[x].type \in Types
      BY <1>1 DEF Fine
    <3>2. g[i] = [type |-> h[x].type, a |-> h[x].a, b |-> NULL]
      BY <2>1, <2>3 DEF NamedChunk
    <3> QED
      BY <2>3, <3>1, <3>2 DEF Record
  <2> QED
    BY <2>2, <2>3
<1>5. Fine(g)
  BY <1>3, <1>4 DEF Fine, Records
<1>6. NamesOf(e, r) \in Seq(DOMAIN g)
  <2>1. NamesOf(e, r) = [k \in 1 .. Len(r) |-> Name(e, r[k])]
    BY <1>1 DEF NamesOf
  <2>2. \A k \in 1 .. Len(r) : Name(e, r[k]) \in DOMAIN g
    BY <1>1, <1>2
  <2> QED
    BY <1>1, <2>1, <2>2
<1>7. \A x \in DOMAIN NamesOf(e, l) : NamesOf(e, l)[x] \in OrNull(DOMAIN g)
  BY <1>1, <1>2 DEF NamesOf
<1>8. NamesBound(e, b) \in [Symbol -> OrNull(DOMAIN g)]
  BY <1>1, <1>2 DEF NamesBound
<1> QED
  BY <1>3, <1>5, <1>6, <1>7, <1>8 DEF Intact

(* What is kept on one side is kept on the other. *)
LEMMA NamedKeeps ==
  ASSUME NEW h, NEW l, NEW r, NEW b, Intact(h, l, r, b), NEW e, Naming(e, h), NEW g, Alike(e, h, g),
         NEW S, S \subseteq DOMAIN h, NEW T, T = {e[x] : x \in S}
  PROVE  Keeps(h, l, r, b, S) <=> Keeps(g, NamesOf(e, l), NamesOf(e, r), NamesBound(e, b), T)
<1>1. /\ Fine(h) /\ \A x \in DOMAIN l : l[x] \in OrNull(DOMAIN h)
      /\ r \in Seq(DOMAIN h) /\ Len(r) \in Nat /\ DOMAIN r = 1 .. Len(r) /\ \A k \in 1 .. Len(r) : r[k] \in DOMAIN h
      /\ b \in [Symbol -> OrNull(DOMAIN h)] /\ NULL \notin DOMAIN h
  BY DEF Intact, Fine, NULL
<1>2. /\ \A i : i \in DOMAIN g <=> \E x \in DOMAIN h : i = e[x]
      /\ NULL \notin DOMAIN g
      /\ \A p \in DOMAIN h : Name(e, p) = e[p] /\ Name(e, p) \in DOMAIN g /\ g[Name(e, p)] = NamedChunk(e, h[p])
      /\ \A p \in OrNull(DOMAIN h) : Name(e, p) = NULL <=> p = NULL
      /\ \A p, q \in OrNull(DOMAIN h) : Name(e, p) = Name(e, q) => p = q
  BY <1>1, NameFacts
<1>3. T \subseteq DOMAIN g /\ NULL \notin T
  BY <1>2
<1>4. \A p \in DOMAIN h : p \in S <=> Name(e, p) \in T
  BY <1>2 DEF OrNull
<1>5. \A p \in OrNull(DOMAIN h) : p \in OrNull(S) <=> Name(e, p) \in OrNull(T)
  BY <1>1, <1>2, <1>3, <1>4 DEF OrNull
<1> PICK L, R, B : L = NamesOf(e, l) /\ R = NamesOf(e, r) /\ B = NamesBound(e, b)
  OBVIOUS
<1>6. /\ DOMAIN L = DOMAIN l /\ \A x \in DOMAIN l : L[x] = Name(e, l[x])
      /\ Len(R) = Len(r) /\ \A k \in 1 .. Len(r) : R[k] = Name(e, r[k])
      /\ \A t \in Symbol : B[t] = Name(e, b[t])
  <2>1. R = [k \in 1 .. Len(r) |-> Name(e, r[k])]
    BY <1>1 DEF NamesOf
  <2>2. Len(R) = Len(r)
    BY <1>1, <2>1
  <2> QED
    BY <2>1, <2>2 DEF NamesOf, NamesBound
<1>7. (\A x \in DOMAIN l : l[x] \in OrNull(S)) <=> \A x \in DOMAIN L : L[x] \in OrNull(T)
  <2>1. \A x \in DOMAIN l : l[x] \in OrNull(S) <=> L[x] \in OrNull(T)
    BY <1>1, <1>5, <1>6
  <2>2. DOMAIN L = DOMAIN l
    BY <1>6
  <2> QED
    BY ONLY <2>1, <2>2
<1>8. (\A k \in 1 .. Len(r) : r[k] \in S) <=> \A k \in 1 .. Len(R) : R[k] \in T
  BY <1>1, <1>4, <1>6
<1>9. (\A t \in Symbol : b[t] \in OrNull(S)) <=> \A t \in Symbol : B[t] \in OrNull(T)
  <2>1. \A t \in Symbol : b[t] \in OrNull(S) <=> B[t] \in OrNull(T)
    BY <1>1, <1>5, <1>6
  <2> QED
    BY <2>1
<1>10. ASSUME NEW x \in S
       PROVE  (h[x].type \in Refers => h[x].a \in OrNull(S) /\ h[x].b \in OrNull(S))
              <=> (g[e[x]].type \in Refers => g[e[x]].a \in OrNull(T) /\ g[e[x]].b \in OrNull(T))
  <2>1. g[e[x]] = NamedChunk(e, h[x])
    BY <1>2
  <2>2. CASE h[x].type \in Refers
    <3>1. h[x].a \in OrNull(DOMAIN h) /\ h[x].b \in OrNull(DOMAIN h)
      BY <1>1, <2>2 DEF Fine
    <3>2. g[e[x]] = [type |-> h[x].type, a |-> Name(e, h[x].a), b |-> Name(e, h[x].b)]
      BY <2>1, <2>2 DEF NamedChunk
    <3> QED
      BY <1>5, <2>2, <3>1, <3>2
  <2>3. CASE h[x].type \notin Refers
    BY <2>1, <2>3 DEF NamedChunk
  <2> QED
    BY <2>2, <2>3
<1>11. (\A i \in S : h[i].type \in Refers => h[i].a \in OrNull(S) /\ h[i].b \in OrNull(S))
       <=> \A i \in T : g[i].type \in Refers => g[i].a \in OrNull(T) /\ g[i].b \in OrNull(T)
  BY <1>10
<1> QED
  BY <1>3, <1>7, <1>8, <1>9, <1>11 DEF Keeps

(* Dropping what cannot be reached is the same on both sides. *)
LEMMA NamedReach ==
  ASSUME NEW h, NEW l, NEW r, NEW b, Intact(h, l, r, b), NEW e, Naming(e, h), NEW g, Alike(e, h, g),
         NEW h2, h2 = Reachable(h, l, r, b), NEW e2, e2 = [x \in DOMAIN h2 |-> e[x]], NEW g2, Alike(e2, h2, g2)
  PROVE  g2 = Reachable(g, NamesOf(e, l), NamesOf(e, r), NamesBound(e, b))
<1> PICK L, R, B : L = NamesOf(e, l) /\ R = NamesOf(e, r) /\ B = NamesBound(e, b)
  OBVIOUS
<1>1. Intact(g, L, R, B)
  BY NamedWhole
<1>2. Least(Reachable(g, L, R, B), g, L, R, B)
  BY <1>1, ReachableLeast
<1>3. Least(h2, h, l, r, b)
  BY ReachableLeast
<1>4. DOMAIN h2 \subseteq DOMAIN h /\ \A x \in DOMAIN h2 : h2[x] = h[x]
  BY <1>3 DEF Least, Keeps
<1>5. NULL \notin DOMAIN h
  BY DEF Intact, Fine, NULL
<1>6. DOMAIN g = {e[x] : x \in DOMAIN h} /\ \A x \in DOMAIN h : g[e[x]] = NamedChunk(e, h[x])
  BY DEF Alike
<1> PICK T : T = {e[x] : x \in DOMAIN h2}
  OBVIOUS
<1>7. DOMAIN g2 = T /\ \A x \in DOMAIN h2 : g2[e[x]] = NamedChunk(e2, h2[x])
  BY DEF Alike
<1>8. ASSUME NEW x \in DOMAIN h2 PROVE NamedChunk(e2, h2[x]) = NamedChunk(e, h[x])
  <2>1. h2[x].type \in Refers => h2[x].a \in OrNull(DOMAIN h2) /\ h2[x].b \in OrNull(DOMAIN h2)
    BY <1>3, <1>4 DEF Least, Keeps
  <2>2. \A p \in OrNull(DOMAIN h2) : Name(e2, p) = Name(e, p)
    BY <1>4, <1>5 DEF OrNull, Name
  <2> QED
    BY <1>4, <2>1, <2>2 DEF NamedChunk
<1>9. g2 = [i \in T |-> g[i]]
  <2>1. \A i \in T : g2[i] = g[i]
    BY <1>4, <1>6, <1>7, <1>8
  <2>2. g2 = [i \in T |-> g2[i]]
    BY DEF Alike
  <2> QED
    BY <2>1, <2>2
<1>10. Keeps(g, L, R, B, T)
  <2>1. Keeps(h, l, r, b, DOMAIN h2)
    BY <1>3 DEF Least
  <2> QED
    BY <1>4, <2>1, NamedKeeps
<1>11. ASSUME NEW U, Keeps(g, L, R, B, U) PROVE T \subseteq U
  <2> PICK S : S = {x \in DOMAIN h : e[x] \in U}
    OBVIOUS
  <2>1. U = {e[x] : x \in S}
    <3>1. U \subseteq {e[x] : x \in DOMAIN h}
      BY <1>6, <1>11 DEF Keeps
    <3> QED
      BY <3>1
  <2>2. Keeps(h, l, r, b, S)
    BY <1>11, <2>1, NamedKeeps
  <2>3. DOMAIN h2 \subseteq S
    BY <1>3, <2>2 DEF Least
  <2> QED
    BY <2>3
<1>12. Least(g2, g, L, R, B)
  BY <1>7, <1>9, <1>10, <1>11 DEF Least
<1> QED
  BY <1>2, <1>12, LeastSame

LEMMA LeastWhole ==
  ASSUME NEW h, NEW l, NEW r, NEW b, Intact(h, l, r, b), NEW g, Least(g, h, l, r, b)
  PROVE  Intact(g, l, r, b) /\ DOMAIN g \subseteq DOMAIN h
<1>1. /\ DOMAIN g \subseteq DOMAIN h /\ \A i \in DOMAIN g : g[i] = h[i]
      /\ \A x \in DOMAIN l : l[x] \in OrNull(DOMAIN g)
      /\ \A k \in 1 .. Len(r) : r[k] \in DOMAIN g
      /\ \A t \in Symbol : b[t] \in OrNull(DOMAIN g)
      /\ \A i \in DOMAIN g : g[i].type \in Refers => g[i].a \in OrNull(DOMAIN g) /\ g[i].b \in OrNull(DOMAIN g)
  BY DEF Least, Keeps
<1>2. /\ Fine(h) /\ IsFiniteSet(DOMAIN h) /\ r \in Seq(DOMAIN h) /\ b \in [Symbol -> OrNull(DOMAIN h)]
  BY DEF Intact
<1>3. IsFiniteSet(DOMAIN g)
  BY <1>1, <1>2, FS_Subset
<1>4. Fine(g)
  BY <1>1, <1>2 DEF Fine, Records
<1>5. r \in Seq(DOMAIN g)
  <2>1. r = [k \in 1 .. Len(r) |-> r[k]] /\ Len(r) \in Nat
    BY <1>2
  <2> QED
    BY <1>1, <2>1
<1>6. b \in [Symbol -> OrNull(DOMAIN g)]
  BY <1>1, <1>2
<1> QED
  BY <1>1, <1>3, <1>4, <1>5, <1>6 DEF Intact

LEMMA ReachableSame ==
  ASSUME NEW h, NEW l, NEW r, NEW b PROVE Ideal!Reachable(h, l, r, b) = Reachable(h, l, r, b)
BY DEF Ideal!Reachable, Reachable, Ideal!ReachIn, ReachIn, Ideal!Closure, Closure,
       Ideal!SuccessorsIn, SuccessorsIn, Ideal!NULL, NULL, Ideal!Range, Range

LEMMA UsesSame == ASSUME NEW ops PROVE Ideal!StillUsed(ops) = StillUsed(ops)
BY DEF Ideal!StillUsed, StillUsed, Ideal!Uses, Uses

LEMMA FinishSeen ==
  ASSUME PointerSize = 4, root = 0, frames = <<>>, UNCHANGED <<root, frames>>,
         NEW h, NEW l, NEW r, NEW b, Finish(h, l, r, b), Intact(h, l, r, b),
         NEW e, Naming(e, h), id' = [x \in DOMAIN heap' |-> e[x]], NEW g, Alike(e, h, g)
  PROVE  WorkInv' /\ Ideal!Finish(g, NamesOf(e, l), NamesOf(e, r), NamesBound(e, b))
<1> PICK l2 : l2 = Locals(l, Tail(todo))
  OBVIOUS
<1>1. /\ todo' = Tail(todo) /\ loc' = l2 /\ registers' = r /\ bindings' = b
      /\ heap' = Reachable(h, l2, r, b) /\ allocating' = FALSE /\ UNCHANGED <<process, calls>>
  BY DEF Finish
<1>2. DOMAIN l2 = DOMAIN l \cap ({"cs", "ds"} \cup StillUsed(Tail(todo))) /\ \A x \in DOMAIN l2 : l2[x] = l[x]
  BY DEF Locals
<1>3. Intact(h, l2, r, b)
  BY <1>2 DEF Intact
<1> PICK h2 : h2 = Reachable(h, l2, r, b)
  OBVIOUS
<1> PICK e2 : e2 = [x \in DOMAIN h2 |-> e[x]]
  OBVIOUS
<1>4. Least(h2, h, l2, r, b)
  BY <1>3, ReachableLeast
<1>5. Intact(h2, l2, r, b) /\ Trimmed(h2, l2, r, b) /\ DOMAIN h2 \subseteq DOMAIN h
  BY <1>3, <1>4, LeastWhole, LeastTrimmed
<1>6. Naming(e2, h2)
  BY <1>5 DEF Naming
<1>7. Works(e2, h2, l2, r, b)'
  BY <1>1, <1>5, <1>6 DEF Works
<1>8. Shows(e2, h2, l2, r, b)'
  BY <1>7, WorksShowsNext
<1>9. /\ Alike(e2, h2, heap_seen') /\ loc_seen' = NamesOf(e2, l2) /\ registers_seen' = NamesOf(e2, r)
      /\ bindings_seen' = NamesBound(e2, b)
  BY <1>8 DEF Shows, NamesBound
<1>10. \A p \in OrNull(DOMAIN h2) : Name(e2, p) = Name(e, p)
  BY DEF OrNull, Name
<1>11. /\ \A x \in DOMAIN l2 : l2[x] \in OrNull(DOMAIN h2)
       /\ DOMAIN r = 1 .. Len(r) /\ \A k \in 1 .. Len(r) : r[k] \in OrNull(DOMAIN h2)
       /\ \A t \in Symbol : b[t] \in OrNull(DOMAIN h2)
  BY <1>5 DEF Intact, OrNull
<1>12. loc_seen' = NamesOf(e, l2) /\ registers_seen' = NamesOf(e, r) /\ bindings_seen' = NamesBound(e, b)
  BY <1>9, <1>10, <1>11 DEF NamesOf, NamesBound
<1>13. heap_seen' = Reachable(g, NamesOf(e, l2), NamesOf(e, r), NamesBound(e, b))
  BY <1>3, <1>9, NamedReach
<1>14. Ideal!Locals(NamesOf(e, l), Tail(todo)) = NamesOf(e, l2)
  <2>1. Ideal!Locals(NamesOf(e, l), Tail(todo)) =
          [x \in DOMAIN NamesOf(e, l) \cap ({"cs", "ds"} \cup StillUsed(Tail(todo))) |-> NamesOf(e, l)[x]]
    BY UsesSame DEF Ideal!Locals
  <2>2. DOMAIN NamesOf(e, l) = DOMAIN l /\ \A x \in DOMAIN l : NamesOf(e, l)[x] = Name(e, l[x])
    BY DEF NamesOf
  <2> QED
    BY <1>2, <2>1, <2>2 DEF NamesOf
<1>15. Ideal!Finish(g, NamesOf(e, l), NamesOf(e, r), NamesBound(e, b))
  <2>1. process_seen' = process_seen
    BY <1>1 DEF process_seen
  <2> QED
    BY <1>1, <1>12, <1>13, <1>14, <2>1, ReachableSame DEF Ideal!Finish
<1>16. DOMAIN loc' \subseteq Stacks \cup StillUsed(todo')
  BY <1>1, <1>2 DEF Stacks
<1> QED
  BY <1>7, <1>15, <1>16 DEF WorkInv

(* What the user sees between two operations *)
LEMMA SeenFacts ==
  ASSUME PointerSize = 4, root = 0, NEW e, NEW h, NEW l, NEW r, NEW b, Works(e, h, l, r, b)
  PROVE  /\ Intact(heap, loc, registers, bindings) /\ Naming(id, heap) /\ Alike(id, heap, heap_seen)
         /\ Trimmed(heap, loc, registers, bindings)
         /\ loc_seen = NamesOf(id, loc) /\ registers_seen = NamesOf(id, registers)
         /\ bindings_seen = NamesBound(id, bindings) /\ NULL \notin DOMAIN heap /\ frames = <<>>
<1>1. Shows(id, heap, loc, registers, bindings) /\ Intact(heap, loc, registers, bindings) /\ Naming(id, heap)
      /\ Trimmed(heap, loc, registers, bindings) /\ frames = <<>>
  BY WorksShows DEF Works
<1> QED
  BY <1>1 DEF Shows, NamesBound, Intact, Fine, NULL

(* A program works: nothing is collected. *)
Working ==
  /\ PointerSize = 4 /\ root = 0 /\ UNCHANGED spaceVars
  /\ \E e, h, l, r, b : Works(e, h, l, r, b)

(* The operation is over: seen from both sides. *)
LEMMA FinishNow ==
  ASSUME Working, id' = Stays, NEW h, NEW l, NEW r, NEW b, Finish(h, l, r, b),
         Intact(h, l, r, b), DOMAIN h = DOMAIN heap, NEW g, Alike(id, h, g)
  PROVE  WorkInv' /\ Ideal!Finish(g, NamesOf(id, l), NamesOf(id, r), NamesBound(id, b))
<1>1. Naming(id, heap) /\ frames = <<>>
  BY SeenFacts DEF Working
<1> PICK e : e = id
  OBVIOUS
<1>2. Naming(e, h)
  BY <1>1 DEF Naming
<1>3. id' = [x \in DOMAIN heap' |-> e[x]]
  BY DEF Stays
<1> QED
  BY <1>1, <1>2, <1>3, FinishSeen DEF Working, spaceVars

LEMMA ReadNamed ==
  ASSUME NEW h, NULL \notin DOMAIN h, NEW e, Naming(e, h), NEW g, Alike(e, h, g), NEW p \in DOMAIN h
  PROVE  /\ g[Name(e, p)].type = h[p].type
         /\ IF h[p].type \in Refers THEN g[Name(e, p)].a = Name(e, h[p].a) /\ g[Name(e, p)].b = Name(e, h[p].b)
            ELSE g[Name(e, p)].a = h[p].a
<1>1. g[Name(e, p)] = NamedChunk(e, h[p])
  BY NameFacts
<1> QED
  BY <1>1 DEF NamedChunk

LEMMA AssignedNamed ==
  ASSUME NEW e, loc_seen = NamesOf(e, loc), NEW x, NEW i
  PROVE  Ideal!Assigned(x, Name(e, i)) = NamesOf(e, Assigned(x, i))
BY DEF Ideal!Assigned, Assigned, NamesOf

LEMMA SequenceNames ==
  ASSUME NEW T, NEW r, r \in Seq(T), NEW e, NEW S, \A x \in T : Name(e, x) \in S
  PROVE  /\ NamesOf(e, r) \in Seq(S) /\ Len(NamesOf(e, r)) = Len(r)
         /\ \A k \in 1 .. Len(r) : NamesOf(e, r)[k] = Name(e, r[k])
<1>1. DOMAIN r = 1 .. Len(r) /\ Len(r) \in Nat /\ \A k \in 1 .. Len(r) : r[k] \in T
  OBVIOUS
<1>2. NamesOf(e, r) = [k \in 1 .. Len(r) |-> Name(e, r[k])]
  BY <1>1 DEF NamesOf
<1> QED
  BY <1>1, <1>2

(* Sequences of the same length with the same items are the same. *)
LEMMA SameSequence ==
  ASSUME NEW S, NEW T, NEW s, s \in Seq(S), NEW t, t \in Seq(T), Len(s) = Len(t),
         \A k \in 1 .. Len(s) : s[k] = t[k]
  PROVE  s = t
<1>1. s = [k \in 1 .. Len(s) |-> s[k]] /\ t = [k \in 1 .. Len(t) |-> t[k]]
  OBVIOUS
<1> QED
  BY <1>1

LEMMA AppendNames ==
  ASSUME NEW T, NEW r, r \in Seq(T), NEW e, NEW x, x \in T
  PROVE  NamesOf(e, Append(r, x)) = Append(NamesOf(e, r), Name(e, x))
<1> PICK R, y : R = NamesOf(e, r) /\ y = Name(e, x)
  OBVIOUS
<1> PICK S : \A z \in T : Name(e, z) \in S
  <2>1. \A z \in T : Name(e, z) \in {Name(e, a) : a \in T}
    OBVIOUS
  <2> QED
    BY <2>1
<1>a. DOMAIN r = 1 .. Len(r) /\ Len(r) \in Nat /\ \A k \in 1 .. Len(r) : r[k] \in T
  OBVIOUS
<1>b. R = [k \in 1 .. Len(r) |-> Name(e, r[k])]
  BY <1>a DEF NamesOf
<1>1. R \in Seq(S) /\ Len(R) = Len(r) /\ (\A k \in 1 .. Len(r) : R[k] = Name(e, r[k]))
  BY <1>a, <1>b
<1>0. y \in S
  OBVIOUS
<1> PICK u, v, w : u = Append(r, x) /\ v = NamesOf(e, u) /\ w = Append(R, y)
  OBVIOUS
<1>2. u \in Seq(T) /\ Len(u) = Len(r) + 1 /\ Len(r) \in Nat /\ u[Len(r) + 1] = x /\ \A k \in 1 .. Len(r) : u[k] = r[k]
  BY AppendFacts
<1>3. w \in Seq(S) /\ Len(w) = Len(r) + 1 /\ w[Len(r) + 1] = y /\ \A k \in 1 .. Len(r) : w[k] = R[k]
  BY <1>0, <1>1, AppendFacts
<1>4. v \in Seq(S) /\ Len(v) = Len(r) + 1 /\ \A k \in 1 .. Len(r) + 1 : v[k] = Name(e, u[k])
  BY ONLY <1>2, v = NamesOf(e, u), \A z \in T : Name(e, z) \in S, SequenceNames
<1>5. \A k \in 1 .. Len(r) + 1 : v[k] = w[k]
  <2> SUFFICES ASSUME NEW k \in 1 .. Len(r) + 1 PROVE v[k] = w[k]
    OBVIOUS
  <2>1. CASE k = Len(r) + 1
    BY <1>2, <1>3, <1>4, <2>1
  <2>2. CASE k # Len(r) + 1
    <3>1. k \in 1 .. Len(r)
      BY <1>2, <2>2
    <3> QED
      BY <1>1, <1>2, <1>3, <1>4, <3>1
  <2> QED
    BY <2>1, <2>2
<1>6. v = w
  BY <1>3, <1>4, <1>5, SameSequence
<1> QED
  BY <1>6

LEMMA CutNames ==
  ASSUME NEW T, NEW r, r \in Seq(T), NEW e, NEW n \in Nat, n <= Len(r)
  PROVE  NamesOf(e, SubSeq(r, 1, n)) = SubSeq(NamesOf(e, r), 1, n)
<1> PICK R : R = NamesOf(e, r)
  OBVIOUS
<1> PICK S : \A z \in T : Name(e, z) \in S
  <2>1. \A z \in T : Name(e, z) \in {Name(e, a) : a \in T}
    OBVIOUS
  <2> QED
    BY <2>1
<1>a. DOMAIN r = 1 .. Len(r) /\ Len(r) \in Nat /\ \A k \in 1 .. Len(r) : r[k] \in T
  OBVIOUS
<1>b. R = [k \in 1 .. Len(r) |-> Name(e, r[k])]
  BY <1>a DEF NamesOf
<1>1. R \in Seq(S) /\ Len(R) = Len(r) /\ \A k \in 1 .. Len(r) : R[k] = Name(e, r[k])
  BY <1>a, <1>b
<1> PICK u, v, w : u = SubSeq(r, 1, n) /\ v = NamesOf(e, u) /\ w = SubSeq(R, 1, n)
  OBVIOUS
<1>2. u \in Seq(T) /\ Len(u) = n /\ \A k \in 1 .. n : u[k] = r[k]
  BY CutFacts
<1>3. w \in Seq(S) /\ Len(w) = n /\ \A k \in 1 .. n : w[k] = R[k]
  BY <1>1, CutFacts
<1>4. v \in Seq(S) /\ Len(v) = n /\ \A k \in 1 .. n : v[k] = Name(e, u[k])
  BY ONLY <1>2, v = NamesOf(e, u), \A z \in T : Name(e, z) \in S, SequenceNames
<1>5. \A k \in 1 .. n : v[k] = w[k] /\ k \in 1 .. Len(r)
  BY <1>1, <1>2, <1>3, <1>4
<1>6. v = w
  BY <1>3, <1>4, <1>5, SameSequence
<1> QED
  BY <1>6

LEMMA LastNames ==
  ASSUME NEW T, NEW r, r \in Seq(T), Len(r) >= 1, NEW e
  PROVE  NamesOf(e, Front(r)) = Front(NamesOf(e, r)) /\ Name(e, Last(r)) = Last(NamesOf(e, r))
<1> PICK R : R = NamesOf(e, r)
  OBVIOUS
<1> PICK S : \A z \in T : Name(e, z) \in S
  <2>1. \A z \in T : Name(e, z) \in {Name(e, a) : a \in T}
    OBVIOUS
  <2> QED
    BY <2>1
<1>a. DOMAIN r = 1 .. Len(r) /\ Len(r) \in Nat /\ \A k \in 1 .. Len(r) : r[k] \in T
  OBVIOUS
<1>b. R = [k \in 1 .. Len(r) |-> Name(e, r[k])]
  BY <1>a DEF NamesOf
<1>1. Len(R) = Len(r) /\ \A k \in 1 .. Len(r) : R[k] = Name(e, r[k])
  BY <1>a, <1>b
<1>2. Len(r) - 1 \in Nat /\ Len(r) - 1 <= Len(r) /\ Len(r) \in 1 .. Len(r)
  OBVIOUS
<1>3. NamesOf(e, SubSeq(r, 1, Len(r) - 1)) = SubSeq(R, 1, Len(r) - 1)
  BY <1>2, CutNames
<1> QED
  BY <1>1, <1>2, <1>3 DEF Front, Last

-----------------------------------------------------------------------------
(* Operations that do not allocate, seen from both sides.                  *)

LEMMA UsedHere ==
  ASSUME NEW o, NEW c, Ready(o, c), todo # <<>>, NEW x \in Uses(now)
  PROVE  x \in DOMAIN loc /\ loc[x] \in DOMAIN heap
<1>1. PICK d : Typed(Literal, now, c, d)
  BY ReadyFacts DEF Leads
<1>2. x \in Names(c) \/ x \in Stacks
  <2>1. Uses(now) \subseteq Names(c) \cup Stacks
    BY <1>1, TypedUses
  <2> QED
    BY <2>1
<1>3. Sane(heap, loc, registers, bindings, o) /\ loc["ds"] # NULL /\ loc["cs"] # NULL
  BY DEF Ready, Knows
<1>4. CASE x \in Stacks
  BY <1>3, <1>4 DEF Sane, Rooted, OrNull, Lists, Stacks
<1>5. CASE x \in Names(c)
  <2>1. Certified(Literal, todo, c) /\ KnowsLocals(heap, loc, c, todo)
    BY DEF Ready, Knows
  <2> PICK ops : ops = todo
    OBVIOUS
  <2>2. PICK T : ops \in Seq(T)
    BY <2>1 DEF Certified
  <2>3. x \in StillUsed(ops)
    BY <2>2, UsesNow DEF now
  <2>4. PICK e \in c.loc : e[1] = x
    BY <1>5 DEF Names
  <2> QED
    BY <2>1, <2>3, <2>4 DEF KnowsLocals, Values
<1> QED
  BY <1>2, <1>4, <1>5

LEMMA KeepSeen ==
  ASSUME Working, id' = Stays, NEW o, NEW c, Ready(o, c), Keep
  PROVE  WorkInv' /\ Ideal!Keep
<1>1. todo # <<>> /\ now.op \in {"push_register", "release"} /\ process = "running" /\ ~ allocating
  BY DEF Keep, In
<1>2. /\ Intact(heap, loc, registers, bindings) /\ Alike(id, heap, heap_seen)
      /\ loc_seen = NamesOf(id, loc) /\ registers_seen = NamesOf(id, registers)
      /\ bindings_seen = NamesBound(id, bindings)
  BY SeenFacts DEF Working
<1>3. registers \in Seq(DOMAIN heap)
  BY <1>2 DEF Intact
<1> PICK s : s = IF now.op = "release" THEN Front(registers) ELSE Append(registers, P)
  OBVIOUS
<1>4. /\ s \in Seq(DOMAIN heap)
      /\ NamesOf(id, s) = IF now.op = "release" THEN Front(registers_seen) ELSE Append(registers_seen, loc_seen[now.p])
  <2>1. CASE now.op = "release"
    <3>1. PICK d : Leads(c, d)
      BY <1>1, ReadyFacts
    <3>2. TypedRelease(now, c, d) /\ RegistersKnown(heap, loc, registers, c)
      BY <1>1, <2>1, <3>1, ReadyFacts, TypedAs DEF Leads
    <3>a. Gives(c, d, "any") \/ Gives(c, d, "list") \/ Gives(c, d, "block")
      BY <3>2 DEF TypedRelease
    <3>3. PICK kind : Gives(c, d, kind)
      BY <3>a
    <3>4. Len(c.regs) = Len(d.regs) + 1 /\ Len(d.regs) \in Nat /\ Len(registers) = Len(c.regs)
      BY <3>2, <3>3, GivesFacts DEF RegistersKnown
    <3>5. Len(registers) >= 1
      BY <3>4
    <3> QED
      BY <1>2, <1>3, <2>1, <3>5, LastFacts, LastNames
  <2>2. CASE now.op = "push_register"
    <3>1. now.p \in Uses(now)
      BY <2>2 DEF Uses
    <3>2. now.p \in DOMAIN loc /\ P \in DOMAIN heap
      BY <1>1, <3>1, UsedHere DEF P
    <3>3. loc_seen[now.p] = Name(id, P)
      BY <1>2, <3>2 DEF NamesOf, P
    <3>4. s = Append(registers, P)
      BY <2>2
    <3>5. NamesOf(id, Append(registers, P)) = Append(NamesOf(id, registers), Name(id, P))
      BY <1>3, <3>2, AppendNames
    <3>6. s \in Seq(DOMAIN heap)
      <4>1. Append(registers, P) \in Seq(DOMAIN heap)
        BY <1>3, <3>2, AppendFacts
      <4> QED
        BY <3>4, <4>1
    <3> QED
      BY <1>2, <2>2, <3>3, <3>4, <3>5, <3>6
  <2> QED
    BY <1>1, <2>1, <2>2
<1>5. Intact(heap, loc, s, bindings)
  BY <1>2, <1>4 DEF Intact
<1>6. Finish(heap, loc, s, bindings)
  BY DEF Keep
<1>7. WorkInv' /\ Ideal!Finish(heap_seen, NamesOf(id, loc), NamesOf(id, s), NamesBound(id, bindings))
  BY <1>2, <1>5, <1>6, FinishNow
<1>8. process_seen = "running"
  BY <1>1 DEF process_seen
<1> QED
  BY <1>1, <1>2, <1>4, <1>7, <1>8 DEF Ideal!Keep, Ideal!In, Ideal!now, now, Ideal!P, Ideal!Front, Front

LEMMA BindSeen ==
  ASSUME Working, id' = Stays, NEW o, NEW c, Ready(o, c), BindSymbol
  PROVE  WorkInv' /\ Ideal!BindSymbol
<1>1. todo # <<>> /\ now.op = "bind" /\ process = "running" /\ ~ allocating
  BY DEF BindSymbol, In
<1>2. /\ Intact(heap, loc, registers, bindings) /\ Alike(id, heap, heap_seen) /\ Naming(id, heap)
      /\ loc_seen = NamesOf(id, loc) /\ registers_seen = NamesOf(id, registers)
      /\ bindings_seen = NamesBound(id, bindings) /\ NULL \notin DOMAIN heap
  BY SeenFacts DEF Working
<1>3. now.p \in DOMAIN loc /\ P \in DOMAIN heap /\ now.x \in DOMAIN loc /\ X \in DOMAIN heap
  <2>1. Uses(now) = {now.p, now.x}
    BY <1>1 DEF Uses
  <2> QED
    BY <1>1, <2>1, UsedHere DEF P, X
<1>4. heap[P].type = "symbol"
  <2>1. PICK d : Leads(c, d)
    BY <1>1, ReadyFacts
  <2>2. TypedBind(now, c, d)
    BY <1>1, <2>1, TypedAs DEF Leads
  <2>3. now.p \in Uses(now)
    BY <1>1 DEF Uses
  <2>4. LocalKnown(now.p, "symbol")
    BY <1>1, <2>2, <2>3, ReadyFacts DEF TypedBind, Is
  <2> QED
    BY <2>4 DEF LocalKnown, P, Means, IsA
<1> PICK t : t = heap[P].a
  OBVIOUS
<1>5. t \in Symbol
  BY <1>3, <1>4 DEF Ready, Sane, Words
<1>6. heap_seen[loc_seen[now.p]].a = t /\ loc_seen[now.x] = Name(id, X)
  <2>1. loc_seen[now.p] = Name(id, P) /\ loc_seen[now.x] = Name(id, X)
    BY <1>2, <1>3 DEF NamesOf, P, X
  <2> QED
    BY <1>2, <1>3, <1>4, <2>1, ReadNamed DEF Refers
<1> PICK d2 : d2 = [bindings EXCEPT ![t] = X]
  OBVIOUS
<1>7. /\ Intact(heap, loc, registers, d2)
      /\ NamesBound(id, d2) = [bindings_seen EXCEPT ![t] = Name(id, X)]
  <2>1. bindings \in [Symbol -> OrNull(DOMAIN heap)]
    BY <1>2 DEF Intact
  <2>2. d2 \in [Symbol -> OrNull(DOMAIN heap)]
    BY <1>3, <1>5, <2>1 DEF OrNull
  <2> QED
    BY <1>2, <1>5, <2>1, <2>2 DEF Intact, NamesBound
<1>8. Finish(heap, loc, registers, d2)
  BY DEF BindSymbol
<1>9. WorkInv' /\ Ideal!Finish(heap_seen, NamesOf(id, loc), NamesOf(id, registers), NamesBound(id, d2))
  BY <1>2, <1>7, <1>8, FinishNow
<1>10. process_seen = "running"
  BY <1>1 DEF process_seen
<1> QED
  BY <1>1, <1>2, <1>6, <1>7, <1>9, <1>10 DEF Ideal!BindSymbol, Ideal!In, Ideal!now, now, Ideal!P, Ideal!X

(* A chunk is written to. *)
LEMMA WrittenSeen ==
  ASSUME NEW h, NEW l, NEW r, NEW b, Intact(h, l, r, b), NEW e, Naming(e, h), NEW g, Alike(e, h, g),
         NEW x, x \in DOMAIN h, h[x].type \in Refers, NEW v, v \in OrNull(DOMAIN h)
  PROVE  /\ Intact(PutA(h, x, v), l, r, b) /\ DOMAIN PutA(h, x, v) = DOMAIN h
         /\ Alike(e, PutA(h, x, v), PutA(g, Name(e, x), Name(e, v)))
         /\ Intact(PutB(h, x, v), l, r, b) /\ DOMAIN PutB(h, x, v) = DOMAIN h
         /\ Alike(e, PutB(h, x, v), PutB(g, Name(e, x), Name(e, v)))
<1> PICK A : A = PutA(h, x, v)
  OBVIOUS
<1> PICK B : B = PutB(h, x, v)
  OBVIOUS
<1>1. /\ Records(h) /\ DOMAIN h \subseteq Nat /\ IsFiniteSet(DOMAIN h) /\ \A i \in DOMAIN h : h[i].type \in Types
      /\ \A i \in DOMAIN h : h[i].type \in Refers => h[i].a \in OrNull(DOMAIN h) /\ h[i].b \in OrNull(DOMAIN h)
  BY DEF Intact, Fine
<1>2. /\ DOMAIN A = DOMAIN h /\ \A i \in DOMAIN h : A[i].type = h[i].type /\ A[i] = Record(A[i])
      /\ \A i \in DOMAIN h : i # x => A[i] = h[i]
      /\ A[x].b = h[x].b /\ A[x].a = v
  BY <1>1, WrittenA DEF SameTypes
<1>3. /\ DOMAIN B = DOMAIN h /\ \A i \in DOMAIN h : B[i].type = h[i].type /\ B[i] = Record(B[i])
      /\ \A i \in DOMAIN h : i # x => B[i] = h[i]
      /\ B[x].a = h[x].a /\ B[x].b = v
  BY <1>1, WrittenB DEF SameTypes
<1>4. Fine(A) /\ Fine(B)
  BY <1>1, <1>2, <1>3 DEF Fine, Records
<1>5. Intact(A, l, r, b) /\ Intact(B, l, r, b)
  BY <1>2, <1>3, <1>4 DEF Intact
<1> PICK n, w : n = Name(e, x) /\ w = Name(e, v)
  OBVIOUS
<1>6. n = e[x] /\ \A y \in DOMAIN h : e[y] = n => y = x
  BY <1>1 DEF Naming, Name, NULL
<1> PICK D : D = {e[y] : y \in DOMAIN h}
  OBVIOUS
<1>7. /\ g = [i \in D |-> g[i]] /\ \A y \in DOMAIN h : e[y] \in D /\ g[e[y]] = NamedChunk(e, h[y])
  BY DEF Alike
<1>8. n \in D /\ g[n] = [type |-> h[x].type, a |-> Name(e, h[x].a), b |-> Name(e, h[x].b)]
  BY <1>6, <1>7 DEF NamedChunk
<1> PICK G : G = PutA(g, n, w)
  OBVIOUS
<1> PICK H : H = PutB(g, n, w)
  OBVIOUS
<1>9. G = [i \in D |-> G[i]] /\ \A i \in D : i # n => G[i] = g[i]
  BY <1>7 DEF PutA
<1>10. H = [i \in D |-> H[i]] /\ \A i \in D : i # n => H[i] = g[i]
  BY <1>7 DEF PutB
<1>11. G[n] = [type |-> h[x].type, a |-> w, b |-> Name(e, h[x].b)]
  <2>1. G[n] = [g[n] EXCEPT !.a = w]
    BY <1>7, <1>8 DEF PutA
  <2> QED
    BY <1>8, <2>1
<1>12. H[n] = [type |-> h[x].type, a |-> Name(e, h[x].a), b |-> w]
  <2>1. H[n] = [g[n] EXCEPT !.b = w]
    BY <1>7, <1>8 DEF PutB
  <2> QED
    BY <1>8, <2>1
<1>13. \A y \in DOMAIN h : G[e[y]] = NamedChunk(e, A[y])
  <2> SUFFICES ASSUME NEW y \in DOMAIN h PROVE G[e[y]] = NamedChunk(e, A[y])
    OBVIOUS
  <2>1. CASE y = x
    BY <1>2, <1>6, <1>11, <2>1 DEF NamedChunk
  <2>2. CASE y # x
    BY <1>2, <1>6, <1>7, <1>9, <2>2
  <2> QED
    BY <2>1, <2>2
<1>14. \A y \in DOMAIN h : H[e[y]] = NamedChunk(e, B[y])
  <2> SUFFICES ASSUME NEW y \in DOMAIN h PROVE H[e[y]] = NamedChunk(e, B[y])
    OBVIOUS
  <2>1. CASE y = x
    BY <1>3, <1>6, <1>12, <2>1 DEF NamedChunk
  <2>2. CASE y # x
    BY <1>3, <1>6, <1>7, <1>10, <2>2
  <2> QED
    BY <2>1, <2>2
<1>15. Alike(e, A, G)
  BY <1>2, <1>9, <1>13 DEF Alike
<1>16. Alike(e, B, H)
  BY <1>3, <1>10, <1>14 DEF Alike
<1> QED
  BY <1>2, <1>3, <1>5, <1>15, <1>16

LEMMA RewindSeen ==
  ASSUME Working, id' = Stays, NEW o, NEW c, Ready(o, c), Rewinds
  PROVE  WorkInv' /\ Ideal!Rewinds
<1>1. todo # <<>> /\ now.op = "rewind" /\ process = "running" /\ ~ allocating
  BY DEF Rewinds, In
<1>2. /\ Intact(heap, loc, registers, bindings) /\ Alike(id, heap, heap_seen) /\ Naming(id, heap)
      /\ loc_seen = NamesOf(id, loc) /\ registers_seen = NamesOf(id, registers)
      /\ bindings_seen = NamesBound(id, bindings) /\ NULL \notin DOMAIN heap
  BY SeenFacts DEF Working
<1>3. now.p \in Uses(now) /\ now.p \in DOMAIN loc /\ P \in DOMAIN heap
  <2>1. Uses(now) = {now.p}
    BY <1>1 DEF Uses
  <2> QED
    BY <1>1, <2>1, UsedHere DEF P
<1>4. heap[P].type = "block"
  <2>1. PICK d : Leads(c, d)
    BY <1>1, ReadyFacts
  <2>2. TypedRewind(now, c, d)
    BY <1>1, <2>1, TypedAs DEF Leads
  <2>3. LocalKnown(now.p, "block")
    BY <1>1, <1>3, <2>2, ReadyFacts DEF TypedRewind, Is
  <2> QED
    BY <2>3 DEF LocalKnown, P, Means, IsA
<1>5. heap[P].a \in Lists(heap)
  BY <1>3, <1>4 DEF Ready, Sane, Words
<1> PICK q : q = heap[P].a
  OBVIOUS
<1> PICK v : v = heap[q].a
  OBVIOUS
<1>6. q \in DOMAIN heap /\ heap[q].type = "list" /\ v \in OrNull(DOMAIN heap)
  BY <1>5 DEF Ready, Sane, Words, Lists, Nodes, OrNull
<1>7. loc_seen[now.p] = Name(id, P)
  BY <1>2, <1>3 DEF NamesOf, P
<1>8. heap_seen[Name(id, P)].a = Name(id, q) /\ heap_seen[Name(id, q)].a = Name(id, v)
  BY <1>2, <1>3, <1>4, <1>6, ReadNamed DEF Refers
<1> PICK h2 : h2 = PutB(heap, P, v)
  OBVIOUS
<1> PICK g2 : g2 = PutB(heap_seen, Name(id, P), Name(id, v))
  OBVIOUS
<1>9. Intact(h2, loc, registers, bindings) /\ DOMAIN h2 = DOMAIN heap /\ Alike(id, h2, g2)
  BY <1>2, <1>3, <1>4, <1>6, WrittenSeen DEF Refers
<1>10. Finish(h2, loc, registers, bindings)
  BY DEF Rewinds, PutB
<1>11. WorkInv' /\ Ideal!Finish(g2, NamesOf(id, loc), NamesOf(id, registers), NamesBound(id, bindings))
  BY <1>9, <1>10, FinishNow
<1>12. process_seen = "running"
  BY <1>1 DEF process_seen
<1> QED
  BY <1>1, <1>2, <1>7, <1>8, <1>11, <1>12 DEF Ideal!Rewinds, Ideal!In, Ideal!now, now, Ideal!P, PutB

(* The first item is taken off a list. *)
LEMMA PoppedSeen ==
  ASSUME NEW h, NEW l, NEW r, NEW b, Intact(h, l, r, b), NEW e, Naming(e, h), NEW g, Alike(e, h, g),
         NEW x, x \in DOMAIN h, h[x].type = "list", h[x].a # NULL, h[h[x].a].type = "node"
  PROVE  Alike(e, Popped(h, x), Popped(g, Name(e, x)))
<1> PICK A : A = Popped(h, x)
  OBVIOUS
<1> PICK n : n = Name(e, x)
  OBVIOUS
<1> PICK G : G = Popped(g, n)
  OBVIOUS
<1> PICK D : D = {e[y] : y \in DOMAIN h}
  OBVIOUS
<1>1. /\ Records(h) /\ NULL \notin DOMAIN h
      /\ \A i \in DOMAIN h : h[i].type \in Refers => h[i].a \in OrNull(DOMAIN h) /\ h[i].b \in OrNull(DOMAIN h)
  BY DEF Intact, Fine, NULL
<1>2. n = e[x] /\ \A y \in DOMAIN h : e[y] = n => y = x
  BY <1>1 DEF Naming, Name
<1>3. /\ g = [i \in D |-> g[i]] /\ \A y \in DOMAIN h : e[y] \in D /\ g[e[y]] = NamedChunk(e, h[y])
      /\ \A i \in D : \E y \in DOMAIN h : i = e[y]
  BY DEF Alike
<1>4. Records(g) /\ DOMAIN g = D
  <2>1. \A y \in DOMAIN h : NamedChunk(e, h[y]) = Record(NamedChunk(e, h[y]))
    BY DEF NamedChunk, Record
  <2>2. DOMAIN g = D
    BY <1>3
  <2>3. ASSUME NEW i \in D PROVE g[i] = Record(g[i])
    <3> PICK y \in DOMAIN h : i = e[y]
      BY <1>3
    <3> QED
      BY <1>3, <2>1
  <2> QED
    BY <2>2, <2>3 DEF Records
<1>5. n \in D /\ x \in DOMAIN h
  BY <1>2, <1>3
<1>6. /\ SameTypes(A, h) /\ \A i \in DOMAIN h : i # x => A[i] = h[i]
      /\ IF h[x].a = h[x].b THEN A[x].a = NULL /\ A[x].b = NULL
         ELSE A[x].a = h[h[x].a].b /\ A[x].b = h[x].b
  BY <1>1, PoppedWords
<1>7. /\ SameTypes(G, g) /\ \A i \in DOMAIN g : i # n => G[i] = g[i]
      /\ IF g[n].a = g[n].b THEN G[n].a = NULL /\ G[n].b = NULL
         ELSE G[n].a = g[g[n].a].b /\ G[n].b = g[n].b
  BY <1>4, <1>5, PoppedWords
<1>8. G = [i \in D |-> G[i]]
  BY <1>3 DEF Popped
<1> PICK f, k, m : f = h[x].a /\ k = h[x].b /\ m = h[f].b
  OBVIOUS
<1>9. f \in DOMAIN h /\ k \in OrNull(DOMAIN h) /\ m \in OrNull(DOMAIN h)
  <2>1. f \in DOMAIN h /\ k \in OrNull(DOMAIN h)
    BY <1>1 DEF OrNull, Refers
  <2> QED
    BY <1>1, <2>1 DEF Refers
<1>10. /\ g[n].type = "list" /\ g[n].a = Name(e, f) /\ g[n].b = Name(e, k)
       /\ g[Name(e, f)].b = Name(e, m) /\ Name(e, NULL) = NULL
  <2>1. g[n] = NamedChunk(e, h[x]) /\ NamedChunk(e, h[x]) = [type |-> "list", a |-> Name(e, f), b |-> Name(e, k)]
    <3>1. g[e[x]] = NamedChunk(e, h[x])
      BY <1>3
    <3>2. h[x].type \in Refers
      BY DEF Refers
    <3> QED
      BY <1>2, <3>1, <3>2 DEF NamedChunk
  <2>2. Name(e, f) = e[f]
    BY <1>1, <1>9 DEF Name
  <2>3. g[e[f]].b = Name(e, m)
    <3>1. g[e[f]] = NamedChunk(e, h[f])
      BY <1>3, <1>9
    <3>2. h[f].type \in Refers
      BY DEF Refers
    <3> QED
      BY <3>1, <3>2 DEF NamedChunk
  <2>4. Name(e, NULL) = NULL
    BY DEF Name
  <2> QED
    BY <2>1, <2>2, <2>3, <2>4
<1>11. Name(e, f) = Name(e, k) <=> f = k
  BY <1>1, <1>9, NameFacts DEF OrNull
<1>12. G[n] = NamedChunk(e, A[x])
  <2>1. A[x].type = "list" /\ A[x] = Record(A[x])
    BY <1>5, <1>6 DEF SameTypes
  <2>2. G[n].type = "list" /\ G[n] = Record(G[n])
    BY <1>4, <1>5, <1>7, <1>10 DEF SameTypes
  <2>3. G[n].a = Name(e, A[x].a) /\ G[n].b = Name(e, A[x].b)
    BY <1>6, <1>7, <1>10, <1>11
  <2> QED
    BY <2>1, <2>2, <2>3 DEF NamedChunk, Record, Refers
<1>13. DOMAIN A = DOMAIN h
  BY <1>6 DEF SameTypes
<1>14. \A y \in DOMAIN h : G[e[y]] = NamedChunk(e, A[y])
  <2> SUFFICES ASSUME NEW y \in DOMAIN h PROVE G[e[y]] = NamedChunk(e, A[y])
    OBVIOUS
  <2>1. CASE y = x
    BY <1>2, <1>12, <2>1
  <2>2. CASE y # x
    BY <1>2, <1>3, <1>4, <1>6, <1>7, <2>2
  <2> QED
    BY <2>1, <2>2
<1> QED
  BY <1>8, <1>13, <1>14 DEF Alike

(* sinavm_pop_front_to_register and sinavm_pop_front, seen from both sides *)
LEMMA PopSeen ==
  ASSUME Working, id' = Stays, NEW o, NEW c, Ready(o, c), Pop
  PROVE  WorkInv' /\ Ideal!Pop
<1>1. todo # <<>> /\ now.op \in {"pop_to_register", "pop_front"} /\ process = "running" /\ ~ allocating
  BY DEF Pop, In
<1>2. /\ Intact(heap, loc, registers, bindings) /\ Alike(id, heap, heap_seen) /\ Naming(id, heap)
      /\ loc_seen = NamesOf(id, loc) /\ registers_seen = NamesOf(id, registers)
      /\ bindings_seen = NamesBound(id, bindings) /\ NULL \notin DOMAIN heap
  BY SeenFacts DEF Working
<1>3. now.p \in DOMAIN loc /\ P \in DOMAIN heap
  <2>1. Uses(now) = {now.p}
    BY <1>1 DEF Uses
  <2> QED
    BY <1>1, <2>1, UsedHere DEF P
<1>4. P \in Lists(heap)
  <2>1. PICK d : Leads(c, d)
    BY <1>1, ReadyFacts
  <2>2. CASE now.op = "pop_front"
    <3>1. now.p \in Stacks
      BY <2>1, <2>2, TypedAs DEF Leads, TypedDrop
    <3>2. loc["ds"] \in OrNull(Lists(heap)) /\ loc["cs"] \in OrNull(Lists(heap))
      BY DEF Ready, Sane, Rooted
    <3> QED
      BY <1>2, <1>3, <3>1, <3>2 DEF OrNull, Stacks, P
  <2>3. CASE now.op = "pop_to_register"
    <3>1. TypedPop(now, c, d)
      BY <2>1, <2>3, TypedAs DEF Leads
    <3> QED
      BY <1>1, <2>3, <3>1, PopNonEmpty
  <2> QED
    BY <1>1, <2>2, <2>3
<1>5. loc_seen[now.p] = Name(id, P) /\ heap[P].type = "list"
  BY <1>2, <1>3, <1>4 DEF NamesOf, P, Lists
<1> PICK first, last : first = heap[P].a /\ last = heap[P].b
  OBVIOUS
<1>6. heap_seen[Name(id, P)].a = Name(id, first) /\ heap_seen[Name(id, P)].b = Name(id, last)
  BY <1>2, <1>3, <1>5, ReadNamed DEF Refers
<1>7. first \in OrNull(DOMAIN heap) /\ last \in OrNull(DOMAIN heap)
  BY <1>2, <1>3, <1>5 DEF Intact, Fine, Refers
<1>8. Name(id, first) = NULL <=> first = NULL
  BY <1>2, <1>7, NameFacts
<1>9. process_seen = "running"
  BY <1>1 DEF process_seen
<1>10. CASE first = NULL
  <2>1. Finish(heap, loc, registers, bindings)
    BY <1>10 DEF Pop
  <2>2. WorkInv' /\ Ideal!Finish(heap_seen, NamesOf(id, loc), NamesOf(id, registers), NamesBound(id, bindings))
    BY <1>2, <2>1, FinishNow
  <2>3. Ideal!In({"pop_to_register", "pop_front"})
    BY <1>1, <1>9 DEF Ideal!In, Ideal!now, now
  <2>4. heap_seen[Ideal!P].a = NULL
    BY <1>5, <1>6, <1>8, <1>10 DEF Ideal!P, Ideal!now, now
  <2> QED
    BY <1>2, <2>2, <2>3, <2>4 DEF Ideal!Pop, Ideal!NULL, NULL
<1>11. CASE first # NULL
  <2> PICK h2 : h2 = Popped(heap, P)
    OBVIOUS
  <2> PICK g2 : g2 = Popped(heap_seen, Name(id, P))
    OBVIOUS
  <2>1. Sane(heap, loc, registers, bindings, o)
    BY DEF Ready
  <2>2. /\ \E q : Sane(h2, loc, registers, bindings, q)
        /\ SameTypes(h2, heap) /\ first \in Nodes(heap) /\ heap[first].a \in Values(heap, loc)
    BY <1>4, <1>11, <2>1, PoppedSane
  <2>3. DOMAIN h2 = DOMAIN heap /\ first \in DOMAIN heap /\ heap[first].type = "node"
        /\ heap[first].a \in DOMAIN heap
    BY <2>2 DEF SameTypes, Nodes, Values
  <2>4. Intact(h2, loc, registers, bindings)
    BY <2>2, SaneWhole
  <2>5. Alike(id, h2, g2)
    BY <1>2, <1>3, <1>5, <1>11, <2>3, PoppedSeen
  <2> PICK item : item = heap[first].a
    OBVIOUS
  <2>6. heap_seen[Name(id, first)].a = Name(id, item)
    BY <1>2, <2>3, ReadNamed DEF Refers
  <2>7. Ideal!In({"pop_to_register", "pop_front"})
    BY <1>1, <1>9 DEF Ideal!In, Ideal!now, now
  <2>8. Ideal!P = Name(id, P) /\ Ideal!now = now /\ Ideal!NULL = NULL
    BY <1>5 DEF Ideal!P, Ideal!now, now, Ideal!NULL, NULL
  <2>9. CASE now.op = "pop_front"
    <3>1. Finish(h2, loc, registers, bindings)
      BY <1>11, <2>9, PoppedHere DEF Pop
    <3>2. WorkInv' /\ Ideal!Finish(g2, NamesOf(id, loc), NamesOf(id, registers), NamesBound(id, bindings))
      BY <2>3, <2>4, <2>5, <3>1, FinishNow
    <3> QED
      BY <1>2, <1>6, <1>8, <1>11, <2>7, <2>8, <2>9, <3>2 DEF Ideal!Pop, Popped
  <2>10. CASE now.op = "pop_to_register"
    <3>1. Finish(h2, Assigned(now.x, item), Append(registers, item), bindings)
      BY <1>11, <2>10, PoppedHere DEF Pop
    <3>2. registers \in Seq(DOMAIN heap)
      BY <1>2 DEF Intact
    <3> PICK s : s = Append(registers, item)
      OBVIOUS
    <3>3. s \in Seq(DOMAIN heap) /\ NamesOf(id, s) = Append(registers_seen, Name(id, item))
      <4>1. NamesOf(id, Append(registers, item)) = Append(NamesOf(id, registers), Name(id, item))
        BY <2>3, <3>2, AppendNames
      <4>2. Append(registers, item) \in Seq(DOMAIN heap)
        BY <2>3, <3>2
      <4> QED
        BY <1>2, <4>1, <4>2
    <3> PICK m : m = Assigned(now.x, item)
      OBVIOUS
    <3>4. \A x \in DOMAIN m : m[x] \in OrNull(DOMAIN h2)
      BY <2>3, <2>4 DEF Assigned, Intact, OrNull
    <3>5. Intact(h2, m, s, bindings)
      BY <2>3, <2>4, <3>3, <3>4 DEF Intact
    <3>6. WorkInv' /\ Ideal!Finish(g2, NamesOf(id, m), NamesOf(id, s), NamesBound(id, bindings))
      BY <2>3, <2>5, <3>1, <3>5, FinishNow
    <3>7. NamesOf(id, m) = Ideal!Assigned(now.x, Name(id, item))
      BY <1>2, AssignedNamed
    <3> QED
      BY <1>2, <1>6, <1>8, <1>11, <2>6, <2>7, <2>8, <2>10, <3>3, <3>6, <3>7 DEF Ideal!Pop, Popped
  <2> QED
    BY <1>1, <2>9, <2>10
<1> QED
  BY <1>10, <1>11

(* What is moved into a local is there. *)
LEMMA FetchFacts ==
  ASSUME NEW o, NEW c, Ready(o, c), Fetch
  PROVE  /\ todo # <<>> /\ now.op \in {"pop_register", "front", "code", "dereference"}
         /\ now.op = "pop_register" => Len(registers) >= 1
         /\ now.op = "front" => /\ now.p \in DOMAIN loc /\ P \in DOMAIN heap /\ heap[P].type = "list"
                                /\ heap[P].a \in DOMAIN heap /\ heap[heap[P].a].type = "node"
                                /\ heap[heap[P].a].a \in DOMAIN heap
         /\ now.op = "code" => /\ now.p \in DOMAIN loc /\ P \in DOMAIN heap /\ heap[P].type = "block"
                               /\ heap[P].a \in DOMAIN heap
         /\ now.op = "dereference" => now.v \in Symbol /\ bindings[now.v] \in DOMAIN heap
<1>1. todo # <<>> /\ now.op \in {"pop_register", "front", "current_data", "code", "dereference", "argument"}
  BY DEF Fetch, In
<1>2. PICK d : Leads(c, d)
  BY <1>1, ReadyFacts
<1>3. /\ RegistersKnown(heap, loc, registers, c) /\ KnowsBound(heap, loc, bindings, c) /\ KnowsItems(heap, loc, c)
      /\ Sane(heap, loc, registers, bindings, o) /\ loc["ds"] # NULL /\ loc["cs"] # NULL
      /\ c.code => heap[loc["cs"]].a # NULL
  BY <1>1, ReadyFacts DEF Ready, Knows
<1>4. /\ now.op = "pop_register" => TypedPopRegister(now, c, d)
      /\ now.op = "front" => TypedFront(now, c, d)
      /\ now.op = "dereference" => TypedDereference(now, c, d)
      /\ now.op = "code" => TypedCode(now, c, d)
      /\ now.op \notin {"current_data", "argument"}
  BY <1>2, TypedAs DEF Leads
<1>5. now.op \in {"front", "code"} => now.p \in DOMAIN loc /\ P \in DOMAIN heap
  <2>1. now.op \in {"front", "code"} => Uses(now) = {now.p}
    BY DEF Uses
  <2> QED
    BY <1>1, <2>1, UsedHere DEF P
<1>6. CASE now.op = "pop_register"
  <2>1. Gives(c, d, "any") \/ Gives(c, d, "list") \/ Gives(c, d, "block")
    BY <1>4, <1>6 DEF TypedPopRegister
  <2>2. PICK kind : Gives(c, d, kind)
    BY <2>1
  <2>3. Len(c.regs) = Len(d.regs) + 1 /\ Len(d.regs) \in Nat
    BY <2>2, GivesFacts
  <2> QED
    BY <1>1, <1>3, <1>6, <2>3 DEF RegistersKnown
<1>7. CASE now.op = "front"
  <2>1. heap[P].a # NULL /\ P \in OrNull(Lists(heap))
    <3>1. loc["ds"] \in OrNull(Lists(heap)) /\ loc["cs"] \in OrNull(Lists(heap))
      BY <1>3 DEF Sane, Rooted
    <3>2. CASE now.p = "ds" /\ c.top # <<>>
      <4>1. c.top \in Seq(Kinds)
        BY <1>3 DEF KnowsItems
      <4>2. Len(c.top) >= 1
        BY <3>2, <4>1
      <4> QED
        BY <1>3, <3>1, <3>2, <4>2 DEF KnowsItems, KnowsItem, P
    <3>3. CASE now.p = "cs" /\ c.code
      BY <1>3, <3>1, <3>3 DEF P
    <3> QED
      BY <1>4, <1>7, <3>2, <3>3 DEF TypedFront
  <2>2. Words(heap, loc) /\ P \in Lists(heap)
    <3>1. NULL \notin DOMAIN heap
      BY <1>3 DEF Sane, Words, NULL
    <3> QED
      BY <1>3, <1>5, <1>7, <2>1, <3>1 DEF Sane, OrNull
  <2>3. heap[P].a \in Nodes(heap)
    BY <2>1, <2>2 DEF Words, OrNull
  <2>4. heap[heap[P].a].a \in Values(heap, loc)
    BY <2>2, <2>3 DEF Words
  <2> QED
    BY <1>1, <1>5, <1>7, <2>2, <2>3, <2>4 DEF Lists, Nodes, Values
<1>8. CASE now.op = "code"
  <2>1. Is(c, now.p, "block") /\ now.p \in Uses(now)
    BY <1>4, <1>8 DEF TypedCode, Uses
  <2>2. LocalKnown(now.p, "block")
    BY <1>1, <2>1, ReadyFacts DEF Is
  <2>3. heap[P].type = "block"
    BY <2>2 DEF LocalKnown, P, Means, IsA
  <2>4. heap[P].a \in Lists(heap)
    BY <1>3, <1>5, <1>8, <2>3 DEF Sane, Words
  <2> QED
    BY <1>1, <1>5, <1>8, <2>3, <2>4 DEF Lists
<1>9. CASE now.op = "dereference"
  <2>1. PICK kind : <<now.v, kind>> \in c.bound
    BY <1>4, <1>9 DEF TypedDereference
  <2>2. <<now.v, kind>>[1] = now.v
    OBVIOUS
  <2>3. now.v \in Symbol /\ bindings[now.v] \in Values(heap, loc)
    BY <1>3, <2>1, <2>2 DEF KnowsBound
  <2> QED
    BY <1>1, <1>9, <2>3 DEF Values
<1> QED
  BY <1>1, <1>4, <1>6, <1>7, <1>8, <1>9

LEMMA FetchSeen ==
  ASSUME Working, id' = Stays, NEW o, NEW c, Ready(o, c), Fetch
  PROVE  WorkInv' /\ Ideal!Fetch
<1>1. /\ In({"pop_register", "front", "current_data", "code", "dereference", "argument"})
      /\ process = "running" /\ ~ allocating /\ todo # <<>>
  BY DEF Fetch, In
<1>2. /\ Intact(heap, loc, registers, bindings) /\ Alike(id, heap, heap_seen) /\ Naming(id, heap)
      /\ loc_seen = NamesOf(id, loc) /\ registers_seen = NamesOf(id, registers)
      /\ bindings_seen = NamesBound(id, bindings) /\ NULL \notin DOMAIN heap
  BY SeenFacts DEF Working
<1> PICK i : i = CASE now.op = "pop_register" -> Last(registers)
                   [] now.op = "front"        -> heap[heap[P].a].a
                   [] now.op = "current_data" -> heap[heap[P].b].a
                   [] now.op = "code"         -> heap[P].a
                   [] now.op = "dereference"  -> bindings[now.v]
                   [] now.op = "argument"     -> P
  OBVIOUS
<1> PICK s : s = IF now.op = "pop_register" THEN Front(registers) ELSE registers
  OBVIOUS
<1> PICK j : j = CASE now.op = "pop_register" -> Last(registers_seen)
                   [] now.op = "front"        -> heap_seen[heap_seen[loc_seen[now.p]].a].a
                   [] now.op = "current_data" -> heap_seen[heap_seen[loc_seen[now.p]].b].a
                   [] now.op = "code"         -> heap_seen[loc_seen[now.p]].a
                   [] now.op = "dereference"  -> bindings_seen[now.v]
                   [] now.op = "argument"     -> loc_seen[now.p]
  OBVIOUS
<1> PICK t : t = IF now.op = "pop_register" THEN Front(registers_seen) ELSE registers_seen
  OBVIOUS
<1>3. Finish(heap, Assigned(now.x, i), s, bindings)
  BY DEF Fetch
<1>4. registers \in Seq(DOMAIN heap)
  BY <1>2 DEF Intact
<1>5. i \in DOMAIN heap /\ j = Name(id, i) /\ s \in Seq(DOMAIN heap) /\ t = NamesOf(id, s)
  <2>1. CASE now.op = "pop_register"
    <3>1. Len(registers) >= 1
      BY <2>1, FetchFacts
    <3>2. i = Last(registers) /\ s = Front(registers) /\ j = Last(registers_seen) /\ t = Front(registers_seen)
      BY <2>1
    <3>3. NamesOf(id, Front(registers)) = Front(NamesOf(id, registers))
          /\ Name(id, Last(registers)) = Last(NamesOf(id, registers))
      BY <1>4, <3>1, LastNames
    <3>4. Front(registers) \in Seq(DOMAIN heap) /\ Last(registers) = registers[Len(registers)]
      BY <1>4, <3>1, LastFacts
    <3>5. registers[Len(registers)] \in DOMAIN heap
      BY <1>4, <3>1
    <3> QED
      BY <1>2, <3>2, <3>3, <3>4, <3>5
  <2>2. CASE now.op = "front"
    <3> PICK f : f = heap[P].a
      OBVIOUS
    <3>1. /\ now.p \in DOMAIN loc /\ P \in DOMAIN heap /\ heap[P].type = "list"
          /\ f \in DOMAIN heap /\ heap[f].type = "node" /\ heap[f].a \in DOMAIN heap
      BY <2>2, FetchFacts
    <3>2. i = heap[f].a /\ j = heap_seen[heap_seen[loc_seen[now.p]].a].a /\ s = registers /\ t = registers_seen
      BY <2>2
    <3>3. loc_seen[now.p] = Name(id, P)
      BY <1>2, <3>1 DEF NamesOf, P
    <3>4. heap_seen[Name(id, P)].a = Name(id, f)
      BY <1>2, <3>1, ReadNamed DEF Refers
    <3>5. heap_seen[Name(id, f)].a = Name(id, heap[f].a)
      BY <1>2, <3>1, ReadNamed DEF Refers
    <3> QED
      BY <1>2, <1>4, <3>1, <3>2, <3>3, <3>4, <3>5
  <2>3. CASE now.op = "code"
    <3>1. /\ now.p \in DOMAIN loc /\ P \in DOMAIN heap /\ heap[P].type = "block" /\ heap[P].a \in DOMAIN heap
      BY <2>3, FetchFacts
    <3>2. i = heap[P].a /\ j = heap_seen[loc_seen[now.p]].a /\ s = registers /\ t = registers_seen
      BY <2>3
    <3>3. loc_seen[now.p] = Name(id, P)
      BY <1>2, <3>1 DEF NamesOf, P
    <3>4. heap_seen[Name(id, P)].a = Name(id, heap[P].a)
      BY <1>2, <3>1, ReadNamed DEF Refers
    <3> QED
      BY <1>2, <1>4, <3>1, <3>2, <3>3, <3>4
  <2>4. CASE now.op = "dereference"
    <3>1. now.v \in Symbol /\ bindings[now.v] \in DOMAIN heap
      BY <2>4, FetchFacts
    <3>2. i = bindings[now.v] /\ j = bindings_seen[now.v] /\ s = registers /\ t = registers_seen
      BY <2>4
    <3>3. bindings_seen[now.v] = Name(id, bindings[now.v])
      BY <1>2, <3>1 DEF NamesBound
    <3> QED
      BY <1>2, <1>4, <3>1, <3>2, <3>3
  <2> QED
    BY <2>1, <2>2, <2>3, <2>4, FetchFacts
<1> PICK m : m = Assigned(now.x, i)
  OBVIOUS
<1>6. \A x \in DOMAIN m : m[x] \in OrNull(DOMAIN heap)
  BY <1>2, <1>5 DEF Assigned, Intact, OrNull
<1>7. Intact(heap, m, s, bindings)
  BY <1>2, <1>5, <1>6 DEF Intact
<1>8. WorkInv' /\ Ideal!Finish(heap_seen, NamesOf(id, m), NamesOf(id, s), NamesBound(id, bindings))
  BY <1>2, <1>3, <1>7, FinishNow
<1>9. NamesOf(id, m) = Ideal!Assigned(now.x, j)
  BY <1>2, <1>5, AssignedNamed
<1>10. Ideal!Finish(heap_seen, Ideal!Assigned(now.x, j), t, bindings_seen)
  BY <1>2, <1>5, <1>8, <1>9
<1>11. Ideal!In({"pop_register", "front", "current_data", "code", "dereference", "argument"})
  <2>1. process_seen = "running"
    BY <1>1 DEF process_seen
  <2> QED
    BY <1>1, <2>1 DEF Ideal!In, Ideal!now, now, In
<1>12. Ideal!Fetch
  BY <1>10, <1>11 DEF Ideal!Fetch, Ideal!now, now, Ideal!P, Ideal!Last, Last, Ideal!Front, Front
<1> QED
  BY <1>8, <1>12

-----------------------------------------------------------------------------
(* An operation asks for a chunk: seen from both sides.                    *)

(* What is still used before an operation is used by it or still used      *)
(* after it.                                                               *)
LEMMA UsedNowOrLater ==
  ASSUME NEW T, NEW ops \in Seq(T), ops # <<>>, NEW x \in StillUsed(ops)
  PROVE  x \in Uses(Head(ops)) \/ (x \in StillUsed(Tail(ops)) /\ x # Head(ops).x)
<1>1. /\ Head(ops) = ops[1] /\ Len(ops) \in Nat /\ DOMAIN ops = 1 .. Len(ops)
      /\ DOMAIN Tail(ops) = 1 .. Len(ops) - 1
      /\ \A k \in 1 .. Len(ops) - 1 : Tail(ops)[k] = ops[k + 1]
  OBVIOUS
<1>2. PICK k \in 1 .. Len(ops) :
        x \in Uses(ops[k]) /\ \A j \in 1 .. k - 1 : ops[j].x # x \/ x \in Uses(ops[j])
  BY <1>1 DEF StillUsed
<1>3. CASE k = 1 \/ x \in Uses(ops[1])
  BY <1>1, <1>2, <1>3
<1>4. CASE k # 1 /\ x \notin Uses(ops[1])
  <2>1. k - 1 \in 1 .. Len(ops) - 1 /\ (k - 1) + 1 = k /\ 1 \in 1 .. k - 1
    BY <1>1, <1>4
  <2>2. ops[1].x # x
    BY <1>2, <1>4, <2>1
  <2>3. ASSUME NEW j \in 1 .. (k - 1) - 1 PROVE Tail(ops)[j].x # x \/ x \in Uses(Tail(ops)[j])
    <3>1. j + 1 \in 1 .. k - 1 /\ j \in 1 .. Len(ops) - 1
      BY <1>1, <2>1
    <3>2. Tail(ops)[j] = ops[j + 1]
      BY <1>1, <3>1
    <3> QED
      BY <1>2, <3>1, <3>2
  <2>4. x \in Uses(Tail(ops)[k - 1])
    BY <1>1, <1>2, <2>1
  <2>5. x \in StillUsed(Tail(ops))
    BY <1>1, <2>1, <2>3, <2>4 DEF StillUsed
  <2> QED
    BY <1>1, <2>2, <2>5
<1> QED
  BY <1>3, <1>4

(* The locals that are dropped are in the registers. *)
HoldDrops ==
  /\ DOMAIN loc' = Stacks /\ Stacks \subseteq DOMAIN loc /\ \A x \in Stacks : loc'[x] = loc[x]
  /\ HeldValues \in Seq(DOMAIN heap)
  /\ \A k \in DOMAIN Held(now) : Held(now)[k] \in DOMAIN loc
  /\ \A x \in DOMAIN loc \ Stacks : \E k \in 1 .. Len(HeldValues) : HeldValues[k] = loc[x]

LEMMA HoldGives ==
  ASSUME NEW o, NEW c, Ready(o, c), Hold, DOMAIN loc \subseteq Stacks \cup StillUsed(todo)
  PROVE  HoldDrops
<1>1. todo # <<>> /\ now.op \in Allocates
  BY DEF Hold, In
<1>2. StillUsed(Tail(todo)) \subseteq Stacks \cup Result
  BY <1>1, HoldLocals
<1>3. Stacks \subseteq DOMAIN loc
  BY <1>1, ReadyFacts
<1>4. DOMAIN loc' = Stacks /\ \A x \in Stacks : loc'[x] = loc[x]
  <2>1. loc' = [x \in ((DOMAIN loc \ Result) \cup {"cs", "ds"}) \cap ({"cs", "ds"} \cup StillUsed(Tail(todo))) |-> loc[x]]
    BY DEF Hold, Locals
  <2>2. ((DOMAIN loc \ Result) \cup {"cs", "ds"}) \cap ({"cs", "ds"} \cup StillUsed(Tail(todo))) = Stacks
    BY <1>2 DEF Stacks
  <2> QED
    BY <2>1, <2>2 DEF Stacks
<1>5. /\ HeldValues \in Seq(DOMAIN heap) /\ Len(HeldValues) = Len(Held(now)) /\ Len(Held(now)) \in Nat
      /\ now.op = "new" => Len(Held(now)) = 0
      /\ now.op = "new_block" => Len(Held(now)) = 1 /\ HeldValues[1] = P
      /\ now.op \in Pushes => Len(Held(now)) = 2 /\ HeldValues[1] = P /\ HeldValues[2] = X
  BY <1>1, HeldValuesFacts
<1>6. /\ now.op = "new" => Uses(now) = {} /\ Result = {now.x} /\ Held(now) = <<>>
      /\ now.op = "new_block" => Uses(now) = {now.p} /\ Result = {now.x} /\ Held(now) = <<now.p>>
      /\ now.op \in Pushes => Uses(now) = {now.p, now.x} /\ Result \subseteq {now.p} /\ Held(now) = <<now.p, now.x>>
      /\ now.op \in {"new", "new_block"} \cup Pushes
  <2>1. /\ now.op = "new" => Held(now) = <<>>
        /\ now.op = "new_block" => Held(now) = <<now.p>>
        /\ now.op \in Pushes => Held(now) = <<now.p, now.x>>
        /\ now.op \in {"new", "new_block"} \cup Pushes
    BY <1>1, HeldLength
  <2>2. /\ now.op = "new" => Uses(now) = {} /\ Result = {now.x}
        /\ now.op = "new_block" => Uses(now) = {now.p} /\ Result = {now.x}
        /\ now.op \in Pushes => Uses(now) = {now.p, now.x} /\ Result \subseteq {now.p}
    BY DEF Uses, Result, Pushes
  <2> QED
    BY <2>1, <2>2
<1>7. \A x \in Uses(now) : x \in DOMAIN loc
  BY <1>1, UsedHere
<1>8. \A k \in DOMAIN Held(now) : Held(now)[k] \in DOMAIN loc
  BY <1>6, <1>7
<1>9. \A x \in DOMAIN loc \ Stacks : \E k \in 1 .. Len(HeldValues) : HeldValues[k] = loc[x]
  <2> SUFFICES ASSUME NEW x \in DOMAIN loc \ Stacks PROVE \E k \in 1 .. Len(HeldValues) : HeldValues[k] = loc[x]
    OBVIOUS
  <2> PICK ops : ops = todo
    OBVIOUS
  <2>1. PICK T : ops \in Seq(T)
    BY DEF Ready, Knows, Certified
  <2>2. x \in StillUsed(ops)
    OBVIOUS
  <2>3. x \in Uses(now) \/ (x \in StillUsed(Tail(todo)) /\ x # now.x)
    BY <1>1, <2>1, <2>2, UsedNowOrLater DEF now
  <2>4. x \in Uses(now)
    BY <1>2, <1>6, <2>3
  <2>5. CASE now.op = "new_block"
    BY <1>5, <1>6, <2>4, <2>5 DEF P
  <2>6. CASE now.op \in Pushes
    BY <1>5, <1>6, <2>4, <2>6 DEF P, X
  <2> QED
    BY <1>6, <2>4, <2>5, <2>6
<1> QED
  BY <1>3, <1>4, <1>5, <1>8, <1>9 DEF HoldDrops

LEMMA BootGives ==
  ASSUME SetupFits, Booting(loc, registers, todo), Hold
  PROVE  HoldDrops
<1>1. todo # <<>> /\ now.x \in Stacks /\ Held(now) = <<>> /\ Result = {now.x}
  BY BootNew
<1>2. DOMAIN loc = Stacks
  BY DEF Booting
<1>3. DOMAIN loc' = Stacks /\ \A x \in Stacks : loc'[x] = loc[x]
  <2>1. loc' = [x \in ((DOMAIN loc \ Result) \cup {"cs", "ds"}) \cap ({"cs", "ds"} \cup StillUsed(Tail(todo))) |-> loc[x]]
    BY DEF Hold, Locals
  <2>2. ((DOMAIN loc \ Result) \cup {"cs", "ds"}) \cap ({"cs", "ds"} \cup StillUsed(Tail(todo))) = Stacks
    BY <1>2 DEF Stacks
  <2> QED
    BY <2>1, <2>2 DEF Stacks
<1>4. HeldValues = <<>>
  BY <1>1 DEF HeldValues
<1>5. HeldValues \in Seq(DOMAIN heap) /\ DOMAIN Held(now) = {}
  BY <1>1, <1>4
<1> QED
  BY <1>2, <1>3, <1>5 DEF HoldDrops

LEMMA JoinNames ==
  ASSUME NEW T, NEW r, r \in Seq(T), NEW t, t \in Seq(T), NEW e
  PROVE  NamesOf(e, r \o t) = NamesOf(e, r) \o NamesOf(e, t)
<1> PICK R, Q : R = NamesOf(e, r) /\ Q = NamesOf(e, t)
  OBVIOUS
<1> PICK S : \A z \in T : Name(e, z) \in S
  <2>1. \A z \in T : Name(e, z) \in {Name(e, a) : a \in T}
    OBVIOUS
  <2> QED
    BY <2>1
<1>a. DOMAIN r = 1 .. Len(r) /\ Len(r) \in Nat /\ \A k \in 1 .. Len(r) : r[k] \in T
  OBVIOUS
<1>b. DOMAIN t = 1 .. Len(t) /\ Len(t) \in Nat /\ \A k \in 1 .. Len(t) : t[k] \in T
  OBVIOUS
<1>c. R = [k \in 1 .. Len(r) |-> Name(e, r[k])] /\ Q = [k \in 1 .. Len(t) |-> Name(e, t[k])]
  BY <1>a, <1>b DEF NamesOf
<1>1. R \in Seq(S) /\ Len(R) = Len(r) /\ \A k \in 1 .. Len(r) : R[k] = Name(e, r[k])
  BY <1>a, <1>c
<1>2. Q \in Seq(S) /\ Len(Q) = Len(t) /\ \A k \in 1 .. Len(t) : Q[k] = Name(e, t[k])
  BY <1>b, <1>c
<1> PICK u, v, w : u = r \o t /\ v = NamesOf(e, u) /\ w = R \o Q
  OBVIOUS
<1>3. u \in Seq(T) /\ Len(u) = Len(r) + Len(t) /\ Len(r) \in Nat /\ Len(t) \in Nat
      /\ (\A k \in 1 .. Len(r) : u[k] = r[k]) /\ \A k \in 1 .. Len(t) : u[Len(r) + k] = t[k]
  OBVIOUS
<1>d. w \in Seq(S) /\ Len(w) = Len(R) + Len(Q)
      /\ (\A k \in 1 .. Len(R) : w[k] = R[k]) /\ \A k \in 1 .. Len(Q) : w[Len(R) + k] = Q[k]
  <2>1. R \in Seq(S) /\ Q \in Seq(S)
    BY <1>1, <1>2
  <2> QED
    BY ONLY <2>1, w = R \o Q
<1>4. w \in Seq(S) /\ Len(w) = Len(r) + Len(t)
      /\ (\A k \in 1 .. Len(r) : w[k] = R[k]) /\ \A k \in 1 .. Len(t) : w[Len(r) + k] = Q[k]
  <2>1. Len(R) = Len(r) /\ Len(Q) = Len(t)
    BY <1>1, <1>2
  <2> QED
    BY ONLY <1>d, <2>1
<1>5. v \in Seq(S) /\ Len(v) = Len(u) /\ \A k \in 1 .. Len(u) : v[k] = Name(e, u[k])
  <2>1. u \in Seq(T)
    BY <1>3
  <2>2. DOMAIN u = 1 .. Len(u) /\ Len(u) \in Nat /\ \A k \in 1 .. Len(u) : u[k] \in T
    BY ONLY <2>1
  <2>3. v = [k \in 1 .. Len(u) |-> Name(e, u[k])]
    BY <2>2 DEF NamesOf
  <2> QED
    BY ONLY <2>2, <2>3, \A z \in T : Name(e, z) \in S
<1>6. \A k \in 1 .. Len(v) : v[k] = w[k]
  <2> SUFFICES ASSUME NEW k \in 1 .. Len(v) PROVE v[k] = w[k]
    OBVIOUS
  <2>1. CASE k <= Len(r)
    <3>1. k \in 1 .. Len(r)
      BY <1>3, <1>5, <2>1
    <3> QED
      BY <1>1, <1>3, <1>4, <1>5, <3>1
  <2>2. CASE k > Len(r)
    <3>1. Len(v) = Len(r) + Len(t) /\ Len(r) \in Nat /\ Len(t) \in Nat
      BY <1>3, <1>5
    <3> PICK j \in 1 .. Len(t) : k = Len(r) + j
      <4>1. k - Len(r) \in 1 .. Len(t) /\ k = Len(r) + (k - Len(r))
        BY ONLY <2>2, <3>1, k \in 1 .. Len(v)
      <4> QED
        BY <4>1
    <3>2. u[Len(r) + j] = t[j] /\ w[Len(r) + j] = Q[j] /\ Q[j] = Name(e, t[j])
      BY <1>2, <1>3, <1>4
    <3>3. v[k] = Name(e, u[k])
      BY <1>5
    <3> QED
      BY <3>2, <3>3
  <2> QED
    <3>1. Len(r) \in Nat
      BY <1>3
    <3> QED
      BY ONLY <2>1, <2>2, <3>1, k \in 1 .. Len(v)
<1>7. v = w
  BY <1>3, <1>4, <1>5, <1>6, SameSequence
<1> QED
  BY <1>7

LEMMA HoldSeen ==
  ASSUME Working, id' = Stays, Hold, HoldDrops
  PROVE  WorkInv' /\ Ideal!Hold
<1>1. /\ todo # <<>> /\ now.op \in Allocates /\ process = "running" /\ ~ allocating
      /\ allocating' = TRUE /\ UNCHANGED <<heap, bindings, todo, process, calls>>
  BY DEF Hold, In
<1>2. /\ Intact(heap, loc, registers, bindings) /\ Alike(id, heap, heap_seen) /\ Naming(id, heap)
      /\ Trimmed(heap, loc, registers, bindings) /\ frames = <<>>
      /\ loc_seen = NamesOf(id, loc) /\ registers_seen = NamesOf(id, registers)
      /\ bindings_seen = NamesBound(id, bindings) /\ NULL \notin DOMAIN heap
  BY SeenFacts DEF Working
<1>3. /\ DOMAIN loc' = Stacks /\ Stacks \subseteq DOMAIN loc /\ \A x \in Stacks : loc'[x] = loc[x]
      /\ HeldValues \in Seq(DOMAIN heap)
      /\ \A k \in DOMAIN Held(now) : Held(now)[k] \in DOMAIN loc
      /\ \A x \in DOMAIN loc \ Stacks : \E k \in 1 .. Len(HeldValues) : HeldValues[k] = loc[x]
  BY DEF HoldDrops
<1> PICK h, l, r, b, e, more : h = heap /\ l = loc /\ r = registers /\ b = bindings /\ e = id /\ more = HeldValues
  OBVIOUS
<1> PICK m, s, e2 : m = loc' /\ s = registers' /\ e2 = id'
  OBVIOUS
<1>4. s = r \o more /\ r \in Seq(DOMAIN h) /\ more \in Seq(DOMAIN h)
  BY <1>2, <1>3 DEF Hold, HeldValues, Intact
<1>5. /\ s \in Seq(DOMAIN h) /\ Len(s) = Len(r) + Len(more) /\ Len(r) \in Nat /\ Len(more) \in Nat
      /\ (\A k \in 1 .. Len(r) : s[k] = r[k]) /\ \A k \in 1 .. Len(more) : s[Len(r) + k] = more[k]
  BY <1>4
<1>6. e2 = [x \in DOMAIN h |-> e[x]] /\ heap' = h
  BY <1>1 DEF Stays
<1>7. Intact(h, m, s, b)
  BY <1>2, <1>3, <1>5 DEF Intact
<1>8. Trimmed(h, m, s, b)
  <2> SUFFICES ASSUME NEW S, Keeps(h, m, s, b, S) PROVE S = DOMAIN h
    BY DEF Trimmed
  <2>1. \A k \in 1 .. Len(r) : r[k] \in S
    BY <1>5 DEF Keeps
  <2>2. \A k \in 1 .. Len(more) : more[k] \in S
    <3> SUFFICES ASSUME NEW k \in 1 .. Len(more) PROVE more[k] \in S
      OBVIOUS
    <3>1. Len(r) + k \in 1 .. Len(s)
      BY <1>5
    <3> QED
      BY <1>5, <3>1 DEF Keeps
  <2>3. \A x \in DOMAIN l : l[x] \in OrNull(S)
    <3> SUFFICES ASSUME NEW x \in DOMAIN l PROVE l[x] \in OrNull(S)
      OBVIOUS
    <3>1. CASE x \in Stacks
      BY <1>3, <3>1 DEF Keeps
    <3>2. CASE x \notin Stacks
      BY <1>3, <2>2, <3>2 DEF OrNull
    <3> QED
      BY <3>1, <3>2
  <2>4. Keeps(h, l, r, b, S)
    BY <2>1, <2>3 DEF Keeps
  <2> QED
    BY <1>2, <2>4 DEF Trimmed
<1>9. Naming(e2, h)
  BY <1>2, <1>6 DEF Naming
<1>10. root' = 0 /\ frames' = <<>>
  BY <1>2 DEF Working, spaceVars
<1>11. Works(e2, h, m, s, b)'
  BY <1>1, <1>6, <1>7, <1>8, <1>9, <1>10 DEF Works
<1>12. Shows(e2, h, m, s, b)'
  BY <1>11, WorksShowsNext DEF Working
<1>13. /\ Alike(e2, h, heap_seen') /\ loc_seen' = NamesOf(e2, m) /\ registers_seen' = NamesOf(e2, s)
       /\ bindings_seen' = NamesBound(e2, b)
  BY <1>12 DEF Shows, NamesBound
<1>14. \A p \in OrNull(DOMAIN h) : Name(e2, p) = Name(e, p)
  BY <1>6 DEF OrNull, Name
<1>15. heap_seen' = heap_seen
  <2>1. \A x \in DOMAIN h : e2[x] = e[x] /\ NamedChunk(e2, h[x]) = NamedChunk(e, h[x])
    <3> SUFFICES ASSUME NEW x \in DOMAIN h PROVE e2[x] = e[x] /\ NamedChunk(e2, h[x]) = NamedChunk(e, h[x])
      OBVIOUS
    <3>1. h[x].type \in Refers => h[x].a \in OrNull(DOMAIN h) /\ h[x].b \in OrNull(DOMAIN h)
      BY <1>2 DEF Intact, Fine
    <3> QED
      BY <1>6, <1>14, <3>1 DEF NamedChunk
  <2> PICK g : g = heap_seen
    OBVIOUS
  <2>2. g = [i \in {e[x] : x \in DOMAIN h} |-> g[i]] /\ \A x \in DOMAIN h : g[e[x]] = NamedChunk(e, h[x])
    BY <1>2 DEF Alike
  <2>3. {e[x] : x \in DOMAIN h} = {e2[x] : x \in DOMAIN h}
    BY <2>1
  <2>4. Alike(e2, h, g)
    BY <2>1, <2>2, <2>3 DEF Alike
  <2> QED
    BY <1>13, <2>4, AlikeSame
<1>16. bindings_seen' = bindings_seen /\ process_seen' = process_seen /\ process_seen = "running"
  <2>1. \A t \in Symbol : b[t] \in OrNull(DOMAIN h)
    BY <1>2 DEF Intact
  <2>2. NamesBound(e2, b) = NamesBound(e, b)
    BY <1>14, <2>1 DEF NamesBound
  <2> QED
    BY <1>1, <1>2, <1>13, <2>2 DEF process_seen
<1>17. registers_seen' = registers_seen \o [k \in DOMAIN Held(now) |-> loc_seen[Held(now)[k]]]
  <2>1. \A k \in 1 .. Len(s) : s[k] \in OrNull(DOMAIN h)
    BY <1>5 DEF OrNull
  <2>2. NamesOf(e2, s) = NamesOf(e, s)
    BY <1>5, <1>14, <2>1 DEF NamesOf
  <2>3. NamesOf(e, s) = NamesOf(e, r) \o NamesOf(e, more)
    <3>1. NamesOf(e, r \o more) = NamesOf(e, r) \o NamesOf(e, more)
      <4>1. r \in Seq(DOMAIN h) /\ more \in Seq(DOMAIN h)
        BY <1>4
      <4> QED
        BY ONLY <4>1, JoinNames
    <3> QED
      BY <1>4, <3>1
  <2>4. NamesOf(e, more) = [k \in DOMAIN Held(now) |-> loc_seen[Held(now)[k]]]
    <3>1. DOMAIN more = DOMAIN Held(now) /\ \A k \in DOMAIN more : more[k] = l[Held(now)[k]]
      BY DEF HeldValues
    <3>2. \A k \in DOMAIN Held(now) : loc_seen[Held(now)[k]] = Name(e, l[Held(now)[k]])
      BY <1>2, <1>3 DEF NamesOf
    <3> QED
      BY <3>1, <3>2 DEF NamesOf
  <2> QED
    BY <1>2, <1>13, <2>2, <2>3, <2>4
<1>18. loc_seen' = Ideal!Locals([x \in (DOMAIN loc_seen \ Result) \cup {"cs", "ds"} |-> loc_seen[x]], Tail(todo))
  <2>1. m = [x \in ((DOMAIN l \ Result) \cup {"cs", "ds"}) \cap ({"cs", "ds"} \cup StillUsed(Tail(todo))) |-> l[x]]
    BY DEF Hold, Locals
  <2>2. ((DOMAIN l \ Result) \cup {"cs", "ds"}) \cap ({"cs", "ds"} \cup StillUsed(Tail(todo))) = Stacks
    BY <1>3, <2>1
  <2>3. DOMAIN loc_seen = DOMAIN l /\ \A x \in DOMAIN l : loc_seen[x] = Name(e, l[x])
    BY <1>2 DEF NamesOf
  <2>4. Ideal!Locals([x \in (DOMAIN loc_seen \ Result) \cup {"cs", "ds"} |-> loc_seen[x]], Tail(todo))
          = [x \in Stacks |-> loc_seen[x]]
    <3> PICK D : D = (DOMAIN l \ Result) \cup {"cs", "ds"}
      OBVIOUS
    <3> PICK f : f = [x \in D |-> loc_seen[x]]
      OBVIOUS
    <3>1. Ideal!Locals(f, Tail(todo)) = [x \in DOMAIN f \cap ({"cs", "ds"} \cup StillUsed(Tail(todo))) |-> f[x]]
      BY UsesSame DEF Ideal!Locals
    <3>2. DOMAIN f \cap ({"cs", "ds"} \cup StillUsed(Tail(todo))) = Stacks /\ Stacks \subseteq D
      BY <2>2
    <3>3. Ideal!Locals(f, Tail(todo)) = [x \in Stacks |-> loc_seen[x]]
      BY <3>1, <3>2
    <3> QED
      BY <2>3, <3>3
  <2>5. \A x \in Stacks : Name(e2, m[x]) = loc_seen[x]
    <3>1. \A x \in Stacks : m[x] = l[x] /\ x \in DOMAIN l /\ l[x] \in OrNull(DOMAIN h)
      BY <1>2, <1>3 DEF Intact
    <3> QED
      BY <1>14, <2>3, <3>1
  <2>6. NamesOf(e2, m) = [x \in Stacks |-> loc_seen[x]]
    BY <1>3, <2>5 DEF NamesOf
  <2> QED
    BY <1>13, <2>4, <2>6
<1>19. WorkInv'
  <2>1. DOMAIN loc' \subseteq Stacks \cup StillUsed(todo')
    BY <1>3
  <2> QED
    BY <1>11, <2>1 DEF WorkInv
<1>20. Ideal!Hold
  BY <1>1, <1>15, <1>16, <1>17, <1>18
     DEF Ideal!Hold, Ideal!In, Ideal!now, now, Ideal!Allocates, Allocates, Ideal!Held, Held, Ideal!Result, Result
<1> QED
  BY <1>19, <1>20

-----------------------------------------------------------------------------
(* A chunk comes: seen from both sides.                                    *)

(* There is a name left for the chunk that comes. *)
LEMMA NameLeft ==
  ASSUME NEW e, NEW c \in Nat, NEW n \in Nat, n - c < Half, DOMAIN e \subseteq c .. n - 1
  PROVE  \E i \in 0 .. Half : i \notin Range(e) /\ 0 .. (i - 1) \subseteq Range(e)
<1> PICK D : D = DOMAIN e
  OBVIOUS
<1>1. \A i : i \in Range(e) <=> \E x \in D : e[x] = i
  BY DEF Range
<1>2. \E i \in 0 .. Half : i \notin Range(e)
  <2> SUFFICES ASSUME \A i \in 0 .. Half : \E x \in D : e[x] = i PROVE FALSE
    BY <1>1
  <2> PICK f : f = [i \in 0 .. Half |-> CHOOSE x \in D : e[x] = i]
    OBVIOUS
  <2>1. \A i \in 0 .. Half : f[i] \in D /\ e[f[i]] = i
    OBVIOUS
  <2>2. f \in [0 .. Half -> c .. n - 1]
    BY <2>1
  <2>3. IsFiniteSet(0 .. Half) /\ Cardinality(0 .. Half) = Half + 1
    <3>1. 0 \in Int /\ Half \in Int /\ Half > 0
      BY HalfAssumption
    <3> QED
      BY <3>1, FS_Interval
  <2>4. IsFiniteSet(c .. n - 1) /\ Cardinality(c .. n - 1) < Half + 1
    <3>1. c \in Int /\ n - 1 \in Int
      OBVIOUS
    <3>2. IsFiniteSet(c .. n - 1) /\ Cardinality(c .. n - 1) = IF c > n - 1 THEN 0 ELSE (n - 1) - c + 1
      BY <3>1, FS_Interval
    <3> QED
      BY <3>2, HalfAssumption
  <2>5. \E x, y \in 0 .. Half : x # y /\ f[x] = f[y]
    <3> PICK S, T : S = 0 .. Half /\ T = c .. n - 1
      OBVIOUS
    <3>1. /\ IsFiniteSet(S) /\ IsFiniteSet(T) /\ Cardinality(T) < Cardinality(S) /\ f \in [S -> T]
      BY <2>2, <2>3, <2>4
    <3>2. \E x, y \in S : x # y /\ f[x] = f[y]
      BY ONLY <3>1, FS_PigeonHole
    <3> QED
      BY <3>2
  <2> QED
    BY <2>1, <2>5
<1> PICK J : J = {i \in 0 .. Half : i \notin Range(e)}
  OBVIOUS
<1>3. J \in SUBSET Nat /\ J # {}
  BY <1>2
<1>4. PICK j \in J : \A i \in J : j <= i
  BY <1>3, Smallest
<1>5. \A i \in 0 .. (j - 1) : i \in Range(e)
  <2> SUFFICES ASSUME NEW i \in 0 .. (j - 1), i \notin Range(e) PROVE FALSE
    OBVIOUS
  <2>1. i \in 0 .. Half /\ i < j /\ i \in Nat /\ j \in Nat
    BY HalfAssumption
  <2>2. i \in J
    BY <2>1
  <2> QED
    BY <1>4, <2>1, <2>2
<1> QED
  BY <1>5

(* A chunk comes to n, and i is its name: e are the names then. *)
Filling(n, i, e) ==
  /\ PointerSize = 4 /\ root = 0 /\ UNCHANGED <<root, frames>>
  /\ \E e2, h, l, r, b : Works(e2, h, l, r, b)
  /\ n \in Nat /\ n \notin DOMAIN heap
  /\ i \in 0 .. Half /\ \A x \in DOMAIN heap : id[x] # i
  /\ e = [x \in DOMAIN heap \cup {n} |-> IF x = n THEN i ELSE id[x]]
  /\ id' = [x \in DOMAIN heap' |-> e[x]]

LEMMA FillingFacts ==
  ASSUME NEW n, NEW i, NEW e, Filling(n, i, e)
  PROVE  /\ Intact(heap, loc, registers, bindings) /\ Alike(id, heap, heap_seen) /\ Naming(id, heap)
         /\ NULL \notin DOMAIN heap /\ frames = <<>>
         /\ \A p \in OrNull(DOMAIN heap) : Name(e, p) = Name(id, p)
         /\ Name(e, n) = i /\ i \notin DOMAIN heap_seen
         /\ loc_seen = NamesOf(e, loc) /\ bindings_seen = NamesBound(e, bindings)
         /\ registers_seen = NamesOf(id, registers)
         /\ \A s \in Seq(DOMAIN heap) : NamesOf(e, s) = NamesOf(id, s)
<1>1. /\ Intact(heap, loc, registers, bindings) /\ Alike(id, heap, heap_seen) /\ Naming(id, heap)
      /\ loc_seen = NamesOf(id, loc) /\ registers_seen = NamesOf(id, registers)
      /\ bindings_seen = NamesBound(id, bindings) /\ NULL \notin DOMAIN heap /\ frames = <<>>
  BY SeenFacts DEF Filling
<1>2. /\ n \in Nat /\ n \notin DOMAIN heap /\ \A x \in DOMAIN heap : id[x] # i
      /\ e = [x \in DOMAIN heap \cup {n} |-> IF x = n THEN i ELSE id[x]]
  BY DEF Filling
<1>3. \A p \in OrNull(DOMAIN heap) : Name(e, p) = Name(id, p)
  BY <1>2 DEF OrNull, Name
<1>4. Name(e, n) = i
  BY <1>2 DEF Name, NULL
<1>5. i \notin DOMAIN heap_seen
  <2>1. \A j : j \in DOMAIN heap_seen <=> \E x \in DOMAIN heap : j = id[x]
    BY <1>1, NameFacts
  <2> QED
    BY <1>2, <2>1
<1>6. NamesOf(e, loc) = NamesOf(id, loc) /\ NamesBound(e, bindings) = NamesBound(id, bindings)
  <2>1. (\A x \in DOMAIN loc : loc[x] \in OrNull(DOMAIN heap)) /\ \A t \in Symbol : bindings[t] \in OrNull(DOMAIN heap)
    BY <1>1 DEF Intact
  <2> QED
    BY <1>3, <2>1 DEF NamesOf, NamesBound
<1>7. ASSUME NEW s \in Seq(DOMAIN heap) PROVE NamesOf(e, s) = NamesOf(id, s)
  <2>1. \A k \in DOMAIN s : s[k] \in OrNull(DOMAIN heap)
    BY DEF OrNull
  <2> QED
    BY <1>3, <2>1 DEF NamesOf
<1> QED
  BY <1>1, <1>3, <1>4, <1>5, <1>6, <1>7

(* The chunk before anything refers to it *)
LEMMA FillingJoins ==
  ASSUME NEW n, NEW i, NEW e, Filling(n, i, e),
         NEW chunk, chunk = Record(chunk), chunk.type \in Types,
         chunk.type \in Refers => chunk.a \in OrNull(DOMAIN heap) /\ chunk.b \in OrNull(DOMAIN heap),
         NEW h, h = With(heap, n, chunk), NEW g, g = With(heap_seen, i, NamedChunk(id, chunk))
  PROVE  /\ Intact(h, loc, registers, bindings) /\ Naming(e, h) /\ Alike(e, h, g)
         /\ DOMAIN h = DOMAIN heap \cup {n} /\ h[n] = chunk /\ \A x \in DOMAIN heap : h[x] = heap[x]
<1>1. /\ Intact(heap, loc, registers, bindings) /\ Alike(id, heap, heap_seen) /\ Naming(id, heap)
      /\ NULL \notin DOMAIN heap
      /\ \A p \in OrNull(DOMAIN heap) : Name(e, p) = Name(id, p)
      /\ Name(e, n) = i /\ i \notin DOMAIN heap_seen
  BY FillingFacts
<1>2. /\ n \in Nat /\ n \notin DOMAIN heap /\ i \in 0 .. Half /\ \A x \in DOMAIN heap : id[x] # i
      /\ e = [x \in DOMAIN heap \cup {n} |-> IF x = n THEN i ELSE id[x]]
  BY DEF Filling
<1>3. DOMAIN h = DOMAIN heap \cup {n} /\ h[n] = chunk /\ \A x \in DOMAIN heap : h[x] = heap[x]
  BY <1>2 DEF With
<1>4. Fine(h)
  <2>1. Records(h) /\ DOMAIN h \subseteq Nat
    BY <1>1, <1>2, <1>3 DEF Intact, Fine, Records
  <2>2. \A x \in DOMAIN h : h[x].type \in Types
    BY <1>1, <1>3 DEF Intact, Fine
  <2>3. ASSUME NEW x \in DOMAIN h, h[x].type \in Refers
        PROVE  h[x].a \in OrNull(DOMAIN h) /\ h[x].b \in OrNull(DOMAIN h)
    <3>1. h[x].a \in OrNull(DOMAIN heap) /\ h[x].b \in OrNull(DOMAIN heap)
      BY <1>1, <1>3, <2>3 DEF Intact, Fine
    <3> QED
      BY <1>3, <3>1 DEF OrNull
  <2> QED
    BY <2>1, <2>2, <2>3 DEF Fine
<1>5. Intact(h, loc, registers, bindings)
  <2>1. IsFiniteSet(DOMAIN h)
    <3>1. IsFiniteSet(DOMAIN heap)
      BY <1>1 DEF Intact
    <3> QED
      BY <1>3, <3>1, FS_AddElement
  <2>2. DOMAIN heap \subseteq DOMAIN h
    BY <1>3
  <2>3. registers \in Seq(DOMAIN h)
    <3>1. registers \in Seq(DOMAIN heap)
      BY <1>1 DEF Intact
    <3> QED
      BY <2>2, <3>1
  <2>4. (\A x \in DOMAIN loc : loc[x] \in OrNull(DOMAIN h)) /\ bindings \in [Symbol -> OrNull(DOMAIN h)]
    BY <1>1, <2>2 DEF Intact, OrNull
  <2> QED
    BY <1>4, <2>1, <2>3, <2>4 DEF Intact
<1>6. Naming(e, h)
  BY <1>1, <1>2, <1>3 DEF Naming
<1>7. e[n] = i /\ \A x \in DOMAIN heap : e[x] = id[x]
  BY <1>2
<1> PICK D : D = {id[x] : x \in DOMAIN heap}
  OBVIOUS
<1> PICK G : G = heap_seen
  OBVIOUS
<1>8. G = [j \in D |-> G[j]] /\ \A x \in DOMAIN heap : id[x] \in D /\ G[id[x]] = NamedChunk(id, heap[x])
  BY <1>1 DEF Alike
<1>9. \A x \in DOMAIN heap : NamedChunk(e, heap[x]) = NamedChunk(id, heap[x])
  <2> SUFFICES ASSUME NEW x \in DOMAIN heap PROVE NamedChunk(e, heap[x]) = NamedChunk(id, heap[x])
    OBVIOUS
  <2>1. heap[x].type \in Refers => heap[x].a \in OrNull(DOMAIN heap) /\ heap[x].b \in OrNull(DOMAIN heap)
    BY <1>1 DEF Intact, Fine
  <2> QED
    BY <1>1, <2>1 DEF NamedChunk
<1>10. NamedChunk(e, chunk) = NamedChunk(id, chunk)
  BY <1>1 DEF NamedChunk
<1>11. g = [j \in D \cup {i} |-> IF j = i THEN NamedChunk(id, chunk) ELSE G[j]] /\ i \notin D
  <2>1. DOMAIN G = D
    BY <1>8
  <2> QED
    BY <1>1, <2>1 DEF With
<1>12. \A x \in DOMAIN h : g[e[x]] = NamedChunk(e, h[x])
  <2> SUFFICES ASSUME NEW x \in DOMAIN h PROVE g[e[x]] = NamedChunk(e, h[x])
    OBVIOUS
  <2>1. CASE x = n
    BY <1>3, <1>7, <1>10, <1>11, <2>1
  <2>2. CASE x # n
    <3>1. x \in DOMAIN heap
      BY <1>3, <2>2
    <3>2. g[id[x]] = G[id[x]]
      BY <1>8, <1>11, <3>1
    <3> QED
      BY <1>3, <1>7, <1>8, <1>9, <3>1, <3>2
  <2> QED
    BY <2>1, <2>2
<1>13. D \cup {i} = {e[x] : x \in DOMAIN h}
  BY <1>3, <1>7
<1>14. g = [j \in {e[x] : x \in DOMAIN h} |-> g[j]]
  BY <1>11, <1>13
<1>15. Alike(e, h, g)
  BY <1>12, <1>14 DEF Alike
<1> QED
  BY <1>3, <1>5, <1>6, <1>15

LEMMA FillingEnds ==
  ASSUME NEW n, NEW i, NEW e, Filling(n, i, e),
         NEW h, NEW m, NEW s, Finish(h, m, s, bindings), Intact(h, m, s, bindings),
         DOMAIN h = DOMAIN heap \cup {n}, NEW g, Alike(e, h, g)
  PROVE  WorkInv' /\ Ideal!Finish(g, NamesOf(e, m), NamesOf(e, s), bindings_seen)
<1>1. /\ Naming(id, heap) /\ frames = <<>> /\ bindings_seen = NamesBound(e, bindings)
  BY FillingFacts
<1>2. /\ PointerSize = 4 /\ root = 0 /\ UNCHANGED <<root, frames>>
      /\ n \in Nat /\ n \notin DOMAIN heap /\ i \in 0 .. Half /\ \A x \in DOMAIN heap : id[x] # i
      /\ e = [x \in DOMAIN heap \cup {n} |-> IF x = n THEN i ELSE id[x]]
      /\ id' = [x \in DOMAIN heap' |-> e[x]]
  BY DEF Filling
<1>3. Naming(e, h)
  BY <1>1, <1>2 DEF Naming
<1>4. WorkInv' /\ Ideal!Finish(g, NamesOf(e, m), NamesOf(e, s), NamesBound(e, bindings))
  BY <1>1, <1>2, <1>3, FinishSeen
<1> QED
  BY <1>1, <1>4

(* What waits for the chunk *)
Due ==
  /\ todo # <<>> /\ now.op \in Allocates /\ Len(Held(now)) \in 0 .. Len(registers)
  /\ registers \in Seq(DOMAIN heap)
  /\ now.op = "new" => now.p \in {"list", "integer", "symbol", "escaped"}
  /\ now.op = "new_block" => HeldAt(1) \in Lists(heap)
  /\ now.op \in Pushes => HeldAt(1) \in Lists(heap) /\ HeldAt(2) \in DOMAIN heap
  /\ \A i \in Lists(heap) : /\ heap[i].a \in OrNull(Nodes(heap)) /\ heap[i].b \in OrNull(Nodes(heap))
                            /\ heap[i].a = NULL <=> heap[i].b = NULL

LEMMA DueNow ==
  ASSUME SetupFits, Asks(heap, loc, registers, bindings)
  PROVE  Due
<1> PICK o : /\ Sane(heap, loc, registers, bindings, o)
             /\ Booting(loc, registers, todo) \/ \E c : Waits(heap, loc, registers, c, todo)
  BY DEF Asks
<1>1. /\ registers \in Seq(DOMAIN heap)
      /\ \A i \in Lists(heap) : /\ heap[i].a \in OrNull(Nodes(heap)) /\ heap[i].b \in OrNull(Nodes(heap))
                                /\ heap[i].a = NULL <=> heap[i].b = NULL
  BY DEF Sane, Words, Rooted, Owned
<1>2. CASE Booting(loc, registers, todo)
  <2>1. todo # <<>> /\ now.op = "new" /\ now.p = "list" /\ Len(Held(now)) = 0
    BY <1>2, BootNew
  <2>2. now.op \in Allocates /\ now.op \notin Pushes
    BY <2>1 DEF Allocates, Pushes
  <2>3. Len(Held(now)) \in 0 .. Len(registers)
    BY <1>1, <2>1
  <2> QED
    BY <1>1, <2>1, <2>2, <2>3 DEF Due
<1>3. ASSUME NEW c, Waits(heap, loc, registers, c, todo) PROVE Due
  <2>1. /\ todo # <<>> /\ now.op \in Allocates /\ \E d : Leads(c, d)
        /\ now.op = "new_block" => HeldAt(1) \in Lists(heap) \cap Values(heap, loc)
        /\ now.op \in Pushes => HeldAt(1) \in Lists(heap) /\ HeldAt(2) \in Values(heap, loc)
    BY <1>3, WaitingFacts
  <2>2. now.op = "new" => now.p \in {"list", "integer", "symbol", "escaped"}
    <3> SUFFICES ASSUME now.op = "new" PROVE now.p \in {"list", "integer", "symbol", "escaped"}
      OBVIOUS
    <3> PICK d : Leads(c, d)
      BY <2>1
    <3>1. TypedNew(Literal, now, c, d)
      BY TypedAs DEF Leads
    <3> QED
      BY <3>1 DEF TypedNew
  <2>3. Len(Held(now)) \in 0 .. Len(registers)
    <3> PICK op, len : op = now /\ len = Len(Held(op))
      OBVIOUS
    <3>1. len = 0 \/ len = 1 \/ len = 2
      BY <2>1, HeldLength
    <3>2. Len(registers) = Len(c.regs) + len /\ c.regs \in Seq(Kept)
      BY <1>3 DEF Waits, Holds, KnowsRegisters, now
    <3> QED
      BY <3>1, <3>2
  <2>4. \A x \in Values(heap, loc) : x \in DOMAIN heap
    BY DEF Values
  <2> QED
    BY <1>1, <2>1, <2>2, <2>3, <2>4 DEF Due
<1> QED
  BY <1>2, <1>3

(* What is taken out of the registers again *)
LEMMA ReleasedSeen ==
  ASSUME Due, registers_seen = NamesOf(id, registers)
  PROVE  /\ Released \in Seq(DOMAIN heap) /\ Ideal!Released = NamesOf(id, Released)
         /\ now.op \in {"new_block"} \cup Pushes => Ideal!HeldAt(1) = Name(id, HeldAt(1))
         /\ now.op \in Pushes => Ideal!HeldAt(2) = Name(id, HeldAt(2))
<1> PICK r, len, n : r = registers /\ len = Len(Held(now)) /\ n = Len(r) - len
  OBVIOUS
<1>1. r \in Seq(DOMAIN heap) /\ len \in 0 .. Len(r) /\ Len(r) \in Nat
  BY DEF Due
<1>2. /\ now.op \in {"new_block"} \cup Pushes => len >= 1
      /\ now.op \in Pushes => len = 2
  <2> PICK op : op = now
    OBVIOUS
  <2>1. /\ op.op = "new_block" => Len(Held(op)) = 1
        /\ op.op \in Pushes => Len(Held(op)) = 2
    BY HeldLength
  <2> QED
    BY <2>1
<1> PICK s, t, u : s = SubSeq(r, 1, n) /\ u = NamesOf(id, r) /\ t = SubSeq(u, 1, n)
  OBVIOUS
<1>3. n \in Nat /\ n <= Len(r)
  BY <1>1
<1>4. s \in Seq(DOMAIN heap) /\ Len(s) = n
  BY ONLY <1>1, <1>3, s = SubSeq(r, 1, n)
<1> PICK S : \A z \in DOMAIN heap : Name(id, z) \in S
  <2>1. \A z \in DOMAIN heap : Name(id, z) \in {Name(id, y) : y \in DOMAIN heap}
    OBVIOUS
  <2> QED
    BY <2>1
<1>5. u \in Seq(S) /\ Len(u) = Len(r) /\ \A k \in 1 .. Len(r) : u[k] = Name(id, r[k])
  <2>1. DOMAIN r = 1 .. Len(r) /\ \A k \in 1 .. Len(r) : Name(id, r[k]) \in S
    BY <1>1
  <2>2. u = [k \in 1 .. Len(r) |-> Name(id, r[k])]
    BY <2>1 DEF NamesOf
  <2> QED
    BY ONLY <1>1, <2>1, <2>2
<1>6. t \in Seq(S) /\ Len(t) = n
  BY ONLY <1>3, <1>5, t = SubSeq(u, 1, n)
<1>7. t = NamesOf(id, s)
  <2>1. NamesOf(id, SubSeq(r, 1, n)) = SubSeq(NamesOf(id, r), 1, n)
    BY ONLY <1>1, <1>3, CutNames
  <2> QED
    BY <2>1
<1>8. Released = s /\ Ideal!Released = t
  <2>1. Ideal!Held(Ideal!now) = Held(now)
    BY DEF Ideal!Held, Held, Ideal!now, now
  <2> QED
    BY <1>5, <2>1 DEF Released, Ideal!Released
<1>9. HeldAt(1) = r[n + 1] /\ HeldAt(2) = r[n + 2] /\ Ideal!HeldAt(1) = u[n + 1] /\ Ideal!HeldAt(2) = u[n + 2]
  BY <1>4, <1>6, <1>8 DEF HeldAt, Ideal!HeldAt
<1>10. len >= 1 => u[n + 1] = Name(id, r[n + 1])
  BY <1>1, <1>3, <1>5
<1>11. len = 2 => u[n + 2] = Name(id, r[n + 2])
  BY <1>1, <1>3, <1>5
<1> QED
  BY <1>2, <1>4, <1>7, <1>8, <1>9, <1>10, <1>11

LEMMA FilledSeen ==
  ASSUME NEW n, NEW i, NEW e, Filling(n, i, e), Due,
         NEW h, Intact(h, loc, registers, bindings), DOMAIN h = DOMAIN heap \cup {n}, NEW g, Alike(e, h, g),
         NEW m, m = loc \/ \E x, v : m = Assigned(x, v) /\ v \in DOMAIN h,
         Finish(h, m, Released, bindings)
  PROVE  WorkInv' /\ Ideal!Finish(g, NamesOf(e, m), Ideal!Released, bindings_seen)
<1>1. registers_seen = NamesOf(id, registers) /\ \A s \in Seq(DOMAIN heap) : NamesOf(e, s) = NamesOf(id, s)
  BY FillingFacts
<1> PICK s : s = Released
  OBVIOUS
<1>2. s \in Seq(DOMAIN heap) /\ Ideal!Released = NamesOf(e, s)
  <2>1. Released \in Seq(DOMAIN heap) /\ Ideal!Released = NamesOf(id, Released)
    BY <1>1, ReleasedSeen
  <2> QED
    BY <1>1, <2>1
<1>3. s \in Seq(DOMAIN h)
  <2>1. DOMAIN heap \subseteq DOMAIN h
    OBVIOUS
  <2> QED
    BY <1>2, <2>1
<1>4. \A x \in DOMAIN m : m[x] \in OrNull(DOMAIN h)
  <2>1. \A x \in DOMAIN loc : loc[x] \in OrNull(DOMAIN h)
    BY DEF Intact
  <2>2. ASSUME NEW x, NEW v, m = Assigned(x, v), v \in DOMAIN h PROVE \A y \in DOMAIN m : m[y] \in OrNull(DOMAIN h)
    BY <2>1, <2>2 DEF Assigned, OrNull
  <2> QED
    BY <2>1, <2>2
<1>5. Intact(h, m, s, bindings)
  BY <1>3, <1>4 DEF Intact
<1>6. WorkInv' /\ Ideal!Finish(g, NamesOf(e, m), NamesOf(e, s), bindings_seen)
  BY <1>5, FillingEnds
<1> QED
  BY <1>2, <1>6

(* sinavm_new_list and its like *)
LEMMA NewSeen ==
  ASSUME NEW n, NEW i, NEW e, Filling(n, i, e), Due, NewChunk(n)
  PROVE  WorkInv' /\ Ideal!NewChunk(i)
<1>1. now.op = "new" /\ process = "running" /\ allocating
  BY DEF NewChunk, Waiting
<1>2. now.p \in {"list", "integer", "symbol", "escaped"}
  BY <1>1 DEF Due
<1> PICK chunk : chunk = [type |-> now.p, a |-> IF now.p = "list" THEN NULL ELSE now.v, b |-> NULL]
  OBVIOUS
<1>3. /\ chunk = Record(chunk) /\ chunk.type \in Types /\ NamedChunk(id, chunk) = chunk
      /\ chunk.type \in Refers => chunk.a \in OrNull(DOMAIN heap) /\ chunk.b \in OrNull(DOMAIN heap)
  BY <1>2 DEF Record, Types, NamedChunk, Refers, OrNull, Name
<1> PICK h, g : h = With(heap, n, chunk) /\ g = With(heap_seen, i, chunk)
  OBVIOUS
<1>4. Intact(h, loc, registers, bindings) /\ Alike(e, h, g) /\ DOMAIN h = DOMAIN heap \cup {n}
  <2>1. g = With(heap_seen, i, NamedChunk(id, chunk))
    BY <1>3
  <2> QED
    BY ONLY <1>3, <2>1, h = With(heap, n, chunk), Filling(n, i, e), FillingJoins
<1> PICK m : m = Assigned(now.x, n)
  OBVIOUS
<1>5. Finish(h, m, Released, bindings)
  BY DEF NewChunk
<1>6. WorkInv' /\ Ideal!Finish(g, NamesOf(e, m), Ideal!Released, bindings_seen)
  <2>1. \E x, v : m = Assigned(x, v) /\ v \in DOMAIN h
    BY <1>4
  <2> QED
    BY <1>4, <1>5, <2>1, FilledSeen
<1>7. NamesOf(e, m) = Ideal!Assigned(now.x, i)
  <2>1. loc_seen = NamesOf(e, loc) /\ Name(e, n) = i
    BY FillingFacts
  <2>2. Ideal!Assigned(now.x, Name(e, n)) = NamesOf(e, Assigned(now.x, n))
    BY <2>1, AssignedNamed
  <2> QED
    BY <2>1, <2>2
<1>8. Ideal!With(heap_seen, i, chunk) = g
  BY DEF Ideal!With, With
<1>9. process_seen = "running"
  BY <1>1 DEF process_seen
<1> QED
  BY <1>1, <1>6, <1>7, <1>8, <1>9 DEF Ideal!NewChunk, Ideal!Waiting, Ideal!now, now, Ideal!NULL, NULL

(* sinavm_new_block *)
LEMMA NewBlockSeen ==
  ASSUME NEW n, NEW i, NEW e, Filling(n, i, e), Due, NewBlockChunk(n)
  PROVE  WorkInv' /\ Ideal!NewBlockChunk(i)
<1>1. now.op = "new_block" /\ process = "running" /\ allocating
  BY DEF NewBlockChunk, Waiting
<1> PICK code : code = HeldAt(1)
  OBVIOUS
<1>2. code \in DOMAIN heap /\ heap[code].type = "list" /\ heap[code].a \in OrNull(DOMAIN heap)
  BY <1>1 DEF Due, Lists, Nodes, OrNull
<1> PICK chunk : chunk = [type |-> "block", a |-> code, b |-> heap[code].a]
  OBVIOUS
<1>3. /\ chunk = Record(chunk) /\ chunk.type \in Types
      /\ chunk.type \in Refers => chunk.a \in OrNull(DOMAIN heap) /\ chunk.b \in OrNull(DOMAIN heap)
  BY <1>2 DEF Record, Types, Refers, OrNull
<1> PICK seen : seen = NamedChunk(id, chunk)
  OBVIOUS
<1>4. seen = [type |-> "block", a |-> Ideal!HeldAt(1), b |-> heap_seen[Ideal!HeldAt(1)].a]
  <2>1. registers_seen = NamesOf(id, registers) /\ Alike(id, heap, heap_seen) /\ Naming(id, heap) /\ NULL \notin DOMAIN heap
    BY FillingFacts
  <2>2. Ideal!HeldAt(1) = Name(id, code)
    BY <1>1, <2>1, ReleasedSeen
  <2>3. heap_seen[Name(id, code)].a = Name(id, heap[code].a)
    BY <1>2, <2>1, ReadNamed DEF Refers
  <2> QED
    BY <2>2, <2>3 DEF NamedChunk, Refers
<1> PICK h, g : h = With(heap, n, chunk) /\ g = With(heap_seen, i, seen)
  OBVIOUS
<1>5. Intact(h, loc, registers, bindings) /\ Alike(e, h, g) /\ DOMAIN h = DOMAIN heap \cup {n}
  BY ONLY <1>3, h = With(heap, n, chunk), g = With(heap_seen, i, seen), seen = NamedChunk(id, chunk),
     Filling(n, i, e), FillingJoins
<1> PICK m : m = Assigned(now.x, n)
  OBVIOUS
<1>6. Finish(h, m, Released, bindings)
  BY DEF NewBlockChunk
<1>7. WorkInv' /\ Ideal!Finish(g, NamesOf(e, m), Ideal!Released, bindings_seen)
  <2>1. \E x, v : m = Assigned(x, v) /\ v \in DOMAIN h
    BY <1>5
  <2> QED
    BY <1>5, <1>6, <2>1, FilledSeen
<1>8. NamesOf(e, m) = Ideal!Assigned(now.x, i)
  <2>1. loc_seen = NamesOf(e, loc) /\ Name(e, n) = i
    BY FillingFacts
  <2>2. Ideal!Assigned(now.x, Name(e, n)) = NamesOf(e, Assigned(now.x, n))
    BY <2>1, AssignedNamed
  <2> QED
    BY <2>1, <2>2
<1>9. Ideal!With(heap_seen, i, seen) = g
  BY DEF Ideal!With, With
<1>10. process_seen = "running"
  BY <1>1 DEF process_seen
<1> QED
  BY <1>1, <1>4, <1>7, <1>8, <1>9, <1>10 DEF Ideal!NewBlockChunk, Ideal!Waiting, Ideal!now, now

(* What is written and what is added can be so in either order. *)
LEMMA WrittenApart ==
  ASSUME NEW h, NEW x, x \in DOMAIN h, NEW n, n \notin DOMAIN h, NEW c, NEW v
  PROVE  /\ With(PutA(h, x, v), n, c) = PutA(With(h, n, c), x, v)
         /\ With(PutB(h, x, v), n, c) = PutB(With(h, n, c), x, v)
<1>1. With(PutA(h, x, v), n, c) = PutA(With(h, n, c), x, v)
  <2> PICK f, g : f = With(PutA(h, x, v), n, c) /\ g = PutA(With(h, n, c), x, v)
    OBVIOUS
  <2>1. f = [y \in DOMAIN h \cup {n} |-> IF y = n THEN c ELSE [h EXCEPT ![x].a = v][y]]
    BY DEF With, PutA
  <2>2. g = [y \in DOMAIN h \cup {n} |-> IF y = x THEN [h[x] EXCEPT !.a = v] ELSE IF y = n THEN c ELSE h[y]]
    BY DEF With, PutA
  <2>3. \A y \in DOMAIN h \cup {n} : f[y] = g[y]
    BY <2>1, <2>2
  <2> QED
    BY <2>1, <2>2, <2>3
<1>2. With(PutB(h, x, v), n, c) = PutB(With(h, n, c), x, v)
  <2> PICK f, g : f = With(PutB(h, x, v), n, c) /\ g = PutB(With(h, n, c), x, v)
    OBVIOUS
  <2>1. f = [y \in DOMAIN h \cup {n} |-> IF y = n THEN c ELSE [h EXCEPT ![x].b = v][y]]
    BY DEF With, PutB
  <2>2. g = [y \in DOMAIN h \cup {n} |-> IF y = x THEN [h[x] EXCEPT !.b = v] ELSE IF y = n THEN c ELSE h[y]]
    BY DEF With, PutB
  <2>3. \A y \in DOMAIN h \cup {n} : f[y] = g[y]
    BY <2>1, <2>2
  <2> QED
    BY <2>1, <2>2, <2>3
<1> QED
  BY <1>1, <1>2

LEMMA LinkedTwice ==
  ASSUME NEW h, NEW l, NEW r, NEW b, Intact(h, l, r, b), NEW e, Naming(e, h), NEW g, Alike(e, h, g),
         NEW x, x \in DOMAIN h, h[x].type \in Refers, NEW v, v \in OrNull(DOMAIN h),
         NEW y, y \in DOMAIN h, h[y].type \in Refers, NEW w, w \in OrNull(DOMAIN h)
  PROVE  /\ Intact(PutB(PutA(h, x, v), y, w), l, r, b) /\ DOMAIN PutB(PutA(h, x, v), y, w) = DOMAIN h
         /\ Alike(e, PutB(PutA(h, x, v), y, w), PutB(PutA(g, Name(e, x), Name(e, v)), Name(e, y), Name(e, w)))
         /\ Intact(PutB(PutB(h, x, v), y, w), l, r, b) /\ DOMAIN PutB(PutB(h, x, v), y, w) = DOMAIN h
         /\ Alike(e, PutB(PutB(h, x, v), y, w), PutB(PutB(g, Name(e, x), Name(e, v)), Name(e, y), Name(e, w)))
<1>1. Records(h)
  BY DEF Intact, Fine
<1> PICK A, B : A = PutA(h, x, v) /\ B = PutB(h, x, v)
  OBVIOUS
<1> PICK GA, GB : GA = PutA(g, Name(e, x), Name(e, v)) /\ GB = PutB(g, Name(e, x), Name(e, v))
  OBVIOUS
<1>2. /\ Intact(A, l, r, b) /\ DOMAIN A = DOMAIN h /\ Alike(e, A, GA)
      /\ Intact(B, l, r, b) /\ DOMAIN B = DOMAIN h /\ Alike(e, B, GB)
  BY WrittenSeen
<1>3. Naming(e, A) /\ Naming(e, B)
  BY <1>2 DEF Naming
<1>4. A[y].type \in Refers /\ B[y].type \in Refers
  <2>1. SameTypes(A, h) /\ SameTypes(B, h)
    BY <1>1, WrittenA, WrittenB
  <2> QED
    BY <2>1 DEF SameTypes
<1>5. /\ Intact(PutB(A, y, w), l, r, b) /\ DOMAIN PutB(A, y, w) = DOMAIN A
      /\ Alike(e, PutB(A, y, w), PutB(GA, Name(e, y), Name(e, w)))
  BY <1>2, <1>3, <1>4, WrittenSeen
<1>6. /\ Intact(PutB(B, y, w), l, r, b) /\ DOMAIN PutB(B, y, w) = DOMAIN B
      /\ Alike(e, PutB(B, y, w), PutB(GB, Name(e, y), Name(e, w)))
  BY <1>2, <1>3, <1>4, WrittenSeen
<1> QED
  BY <1>2, <1>5, <1>6

(* The heap as the user sees it is one of records. *)
LEMMA SeenRecords ==
  ASSUME NEW h, NEW e, NEW g, Alike(e, h, g)
  PROVE  Records(g) /\ g = [j \in DOMAIN g |-> g[j]]
<1> PICK D : D = {e[x] : x \in DOMAIN h}
  OBVIOUS
<1>1. g = [j \in D |-> g[j]] /\ \A j \in D : \E x \in DOMAIN h : j = e[x]
  BY DEF Alike
<1>2. \A x \in DOMAIN h : g[e[x]] = Record(g[e[x]])
  <2>1. \A x \in DOMAIN h : NamedChunk(e, h[x]) = Record(NamedChunk(e, h[x]))
    BY DEF NamedChunk, Record
  <2> QED
    BY <2>1 DEF Alike
<1> QED
  BY <1>1, <1>2 DEF Records

(* The node of a push, and what the user sees of it *)
Pushed(c, next) == c = [type |-> "node", a |-> HeldAt(2), b |-> next]
PushedSeen(c, next) == c = [type |-> "node", a |-> Ideal!HeldAt(2), b |-> next]

LEMMA NodeSeen ==
  ASSUME NEW n, NEW i, NEW e, Filling(n, i, e), Due, now.op \in Pushes,
         NEW next, next \in OrNull(DOMAIN heap),
         NEW node, Pushed(node, next),
         NEW seen, PushedSeen(seen, Name(id, next)),
         NEW h, h = With(heap, n, node), NEW g, g = With(heap_seen, i, seen)
  PROVE  /\ Intact(h, loc, registers, bindings) /\ Naming(e, h) /\ Alike(e, h, g)
<1>1. HeldAt(2) \in DOMAIN heap
  BY DEF Due
<1>2. /\ node = Record(node) /\ node.type \in Types
      /\ node.type \in Refers => node.a \in OrNull(DOMAIN heap) /\ node.b \in OrNull(DOMAIN heap)
  BY <1>1 DEF Record, Types, Refers, OrNull, Pushed
<1>3. Ideal!HeldAt(2) = Name(id, HeldAt(2))
  BY FillingFacts, ReleasedSeen
<1>4. seen = NamedChunk(id, node)
  BY <1>3 DEF NamedChunk, Refers, Pushed, PushedSeen
<1>5. Intact(h, loc, registers, bindings) /\ Alike(e, h, g) /\ DOMAIN h = DOMAIN heap \cup {n}
  BY ONLY <1>2, h = With(heap, n, node), g = With(heap_seen, i, seen), <1>4,
     Filling(n, i, e), FillingJoins
<1>6. Naming(e, h)
  BY ONLY <1>2, h = With(heap, n, node), g = With(heap_seen, i, seen), <1>4,
     Filling(n, i, e), FillingJoins
<1> QED
  BY <1>5, <1>6

(* The list as the user sees it *)
LEMMA ListSeen ==
  ASSUME NEW n, NEW i, NEW e, Filling(n, i, e), Due, now.op \in Pushes, NEW list, list = HeldAt(1)
  PROVE  /\ list \in DOMAIN heap /\ heap[list].type = "list" /\ Ideal!HeldAt(1) = Name(id, list)
         /\ heap[list].a \in OrNull(Nodes(heap)) /\ heap[list].b \in OrNull(Nodes(heap))
         /\ heap[list].a = NULL <=> heap[list].b = NULL
         /\ heap_seen[Name(id, list)].a = Name(id, heap[list].a)
         /\ heap_seen[Name(id, list)].b = Name(id, heap[list].b)
         /\ Name(id, list) \in DOMAIN heap_seen /\ Name(e, list) = Name(id, list) /\ Name(e, n) = i
         /\ \A p \in OrNull(DOMAIN heap) : Name(id, p) = NULL <=> p = NULL
<1>1. /\ Alike(id, heap, heap_seen) /\ Naming(id, heap) /\ NULL \notin DOMAIN heap
      /\ registers_seen = NamesOf(id, registers) /\ Name(e, n) = i
      /\ \A p \in OrNull(DOMAIN heap) : Name(e, p) = Name(id, p)
  BY FillingFacts
<1>2. /\ list \in DOMAIN heap /\ heap[list].type = "list"
      /\ heap[list].a \in OrNull(Nodes(heap)) /\ heap[list].b \in OrNull(Nodes(heap))
      /\ heap[list].a = NULL <=> heap[list].b = NULL
  BY DEF Due, Lists
<1>3. Ideal!HeldAt(1) = Name(id, list)
  BY <1>1, ReleasedSeen
<1>4. Name(id, list) \in DOMAIN heap_seen /\ \A p \in OrNull(DOMAIN heap) : Name(id, p) = NULL <=> p = NULL
  BY <1>1, <1>2, NameFacts
<1>5. heap_seen[Name(id, list)].a = Name(id, heap[list].a) /\ heap_seen[Name(id, list)].b = Name(id, heap[list].b)
  BY <1>1, <1>2, ReadNamed DEF Refers
<1>6. Name(e, list) = Name(id, list)
  BY <1>1, <1>2 DEF OrNull
<1> QED
  BY <1>1, <1>2, <1>3, <1>4, <1>5, <1>6

(* The heap the list machine describes: the node is added to a list that   *)
(* was written to.                                                         *)
LEMMA FrontWritten ==
  ASSUME NEW h, Records(h), NEW x, x \in DOMAIN h, NEW n, n \notin DOMAIN h, NEW c
  PROVE  With([h EXCEPT ![x].a = n, ![x].b = IF @ = NULL THEN n ELSE @], n, c)
           = PutB(PutA(With(h, n, c), x, n), x, IF h[x].b = NULL THEN n ELSE h[x].b)
<1> PICK A, v : A = PutA(h, x, n) /\ v = IF h[x].b = NULL THEN n ELSE h[x].b
  OBVIOUS
<1>1. DOMAIN A = DOMAIN h /\ A[x].b = h[x].b
  BY WrittenA DEF SameTypes
<1>2. [h EXCEPT ![x].a = n, ![x].b = IF @ = NULL THEN n ELSE @] = PutB(A, x, v)
  <2>1. [h EXCEPT ![x].a = n, ![x].b = IF @ = NULL THEN n ELSE @] = [A EXCEPT ![x].b = IF @ = NULL THEN n ELSE @]
    BY DEF PutA
  <2> QED
    BY <1>1, <2>1 DEF PutB
<1>3. With(PutB(A, x, v), n, c) = PutB(With(A, n, c), x, v)
  BY <1>1, WrittenApart
<1>4. With(A, n, c) = PutA(With(h, n, c), x, n)
  BY WrittenApart
<1> QED
  BY <1>2, <1>3, <1>4

(* y is followed by n, and n is the last of x. *)
Followed(h, y, x, n) == [h EXCEPT ![y].b = n, ![x].b = n]

LEMMA BackWritten ==
  ASSUME NEW h, NEW x, x \in DOMAIN h, NEW y, y \in DOMAIN h, NEW n, n \notin DOMAIN h, NEW c
  PROVE  With(Followed(h, y, x, n), n, c) = PutB(PutB(With(h, n, c), y, n), x, n)
<1> PICK A : A = PutB(h, y, n)
  OBVIOUS
<1>1. DOMAIN A = DOMAIN h
  BY DEF PutB
<1>2. Followed(h, y, x, n) = PutB(A, x, n)
  BY DEF PutB, Followed
<1>3. With(PutB(A, x, n), n, c) = PutB(With(A, n, c), x, n)
  BY <1>1, WrittenApart
<1>4. With(A, n, c) = PutB(With(h, n, c), y, n)
  BY WrittenApart
<1> QED
  BY <1>2, <1>3, <1>4

LEMMA FirstWritten ==
  ASSUME NEW h, NEW x, x \in DOMAIN h, NEW n, n \notin DOMAIN h, NEW c
  PROVE  With([h EXCEPT ![x].a = n, ![x].b = n], n, c) = PutB(PutA(With(h, n, c), x, n), x, n)
<1> PICK A : A = PutA(h, x, n)
  OBVIOUS
<1>1. DOMAIN A = DOMAIN h
  BY DEF PutA
<1>2. [h EXCEPT ![x].a = n, ![x].b = n] = PutB(A, x, n)
  BY DEF PutA, PutB
<1>3. With(PutB(A, x, n), n, c) = PutB(With(A, n, c), x, n)
  BY <1>1, WrittenApart
<1>4. With(A, n, c) = PutA(With(h, n, c), x, n)
  BY WrittenApart
<1> QED
  BY <1>2, <1>3, <1>4

(* What a push leaves in the locals *)
LEMMA PushedLocals ==
  ASSUME NEW n, NEW i, NEW e, Filling(n, i, e), Due, now.op \in Pushes,
         NEW m, m = IF now.v = 1 THEN Assigned(now.p, HeldAt(1)) ELSE loc
  PROVE  NamesOf(e, m) = IF Ideal!now.v = 1 THEN Ideal!Assigned(Ideal!now.p, Ideal!HeldAt(1)) ELSE loc_seen
<1> PICK list : list = HeldAt(1)
  OBVIOUS
<1>1. Ideal!HeldAt(1) = Name(e, list)
  <2>1. Ideal!HeldAt(1) = Name(id, list) /\ Name(e, list) = Name(id, list)
    BY ListSeen
  <2> QED
    BY <2>1
<1>2. loc_seen = NamesOf(e, loc)
  BY FillingFacts
<1>3. Ideal!Assigned(now.p, Name(e, list)) = NamesOf(e, Assigned(now.p, list))
  BY <1>2, AssignedNamed
<1> QED
  BY <1>1, <1>2, <1>3 DEF Ideal!now, now

(* sinavm_push_front *)
LEMMA FrontSeen ==
  ASSUME NEW n, NEW i, NEW e, Filling(n, i, e), Due, LinkFront(n)
  PROVE  WorkInv' /\ Ideal!LinkFront(i)
<1>1. now.op = "push_front" /\ now.op \in Pushes /\ process = "running" /\ allocating
  BY DEF LinkFront, Waiting, Pushes
<1> PICK list, L : list = HeldAt(1) /\ L = Name(id, list)
  OBVIOUS
<1> PICK first, last : first = heap[list].a /\ last = heap[list].b
  OBVIOUS
<1>2. /\ list \in DOMAIN heap /\ heap[list].type = "list" /\ Ideal!HeldAt(1) = L
      /\ first \in OrNull(Nodes(heap)) /\ last \in OrNull(Nodes(heap))
      /\ heap_seen[L].a = Name(id, first) /\ heap_seen[L].b = Name(id, last)
      /\ L \in DOMAIN heap_seen /\ Name(e, list) = L /\ Name(e, n) = i
      /\ \A p \in OrNull(DOMAIN heap) : Name(id, p) = NULL <=> p = NULL
  BY <1>1, ListSeen
<1>3. first \in OrNull(DOMAIN heap) /\ last \in OrNull(DOMAIN heap)
  BY <1>2 DEF OrNull, Nodes
<1> PICK node, seen : /\ node = [type |-> "node", a |-> HeldAt(2), b |-> first]
                      /\ seen = [type |-> "node", a |-> Ideal!HeldAt(2), b |-> heap_seen[L].a]
  OBVIOUS
<1> PICK j : j = With(heap, n, node)
  OBVIOUS
<1> PICK g : g = With(heap_seen, i, seen)
  OBVIOUS
<1>4. /\ Intact(j, loc, registers, bindings) /\ Naming(e, j) /\ Alike(e, j, g)
      /\ DOMAIN j = DOMAIN heap \cup {n} /\ \A x \in DOMAIN heap : j[x] = heap[x]
  <2>1. Pushed(node, first) /\ PushedSeen(seen, Name(id, first))
    BY <1>2 DEF Pushed, PushedSeen
  <2>2. Intact(j, loc, registers, bindings) /\ Naming(e, j) /\ Alike(e, j, g)
    BY ONLY <1>1, <1>3, <2>1, Filling(n, i, e), Due,
       j = With(heap, n, node), g = With(heap_seen, i, seen), NodeSeen
  <2>3. DOMAIN j = DOMAIN heap \cup {n} /\ \A x \in DOMAIN heap : j[x] = heap[x]
    BY DEF With, Filling
  <2> QED
    BY <2>2, <2>3
<1> PICK v, w : v = (IF last = NULL THEN n ELSE last) /\ w = IF heap_seen[L].b = NULL THEN i ELSE heap_seen[L].b
  OBVIOUS
<1>6. Name(e, v) = w /\ v \in OrNull(DOMAIN j) /\ n \in OrNull(DOMAIN j)
  <2>1. \A p \in OrNull(DOMAIN heap) : Name(e, p) = Name(id, p)
    BY FillingFacts
  <2> QED
    BY <1>2, <1>3, <1>4, <2>1 DEF OrNull
<1> PICK h, f : h = PutB(PutA(j, list, n), list, v) /\ f = PutB(PutA(g, L, i), L, w)
  OBVIOUS
<1>7. Intact(h, loc, registers, bindings) /\ DOMAIN h = DOMAIN j /\ Alike(e, h, f)
  <2>1. list \in DOMAIN j /\ j[list].type \in Refers
    BY <1>2, <1>4 DEF Refers
  <2>2. /\ Intact(h, loc, registers, bindings) /\ DOMAIN h = DOMAIN j
        /\ Alike(e, h, PutB(PutA(g, Name(e, list), Name(e, n)), Name(e, list), Name(e, v)))
    BY <1>4, <1>6, <2>1, LinkedTwice
  <2> QED
    BY <1>2, <1>6, <2>2
<1>8. h = With([heap EXCEPT ![list].a = n, ![list].b = IF @ = NULL THEN n ELSE @], n, node)
  <2>1. Records(heap) /\ n \notin DOMAIN heap
    <3>1. Intact(heap, loc, registers, bindings)
      BY FillingFacts
    <3> QED
      BY <3>1 DEF Intact, Fine, Filling
  <2> QED
    BY <1>2, <2>1, FrontWritten
<1>9. f = With([heap_seen EXCEPT ![L].a = i, ![L].b = IF @ = NULL THEN i ELSE @], i, seen)
  <2>1. Records(heap_seen) /\ i \notin DOMAIN heap_seen
    BY FillingFacts, SeenRecords
  <2> QED
    BY <1>2, <2>1, FrontWritten
<1> PICK m : m = IF now.v = 1 THEN Assigned(now.p, HeldAt(1)) ELSE loc
  OBVIOUS
<1>10. Finish(h, m, Released, bindings)
  BY <1>8 DEF LinkFront, Linked
<1>11. WorkInv' /\ Ideal!Finish(f, NamesOf(e, m), Ideal!Released, bindings_seen)
  <2>1. m = loc \/ \E x, y : m = Assigned(x, y) /\ y \in DOMAIN h
    BY <1>2, <1>4, <1>7
  <2>2. DOMAIN h = DOMAIN heap \cup {n}
    BY <1>4, <1>7
  <2> QED
    BY <1>7, <1>10, <2>1, <2>2, FilledSeen
<1>12. NamesOf(e, m) = IF Ideal!now.v = 1 THEN Ideal!Assigned(Ideal!now.p, Ideal!HeldAt(1)) ELSE loc_seen
  BY <1>1, PushedLocals
<1>13. Ideal!With([heap_seen EXCEPT ![L].a = i, ![L].b = IF @ = NULL THEN i ELSE @], i, seen) = f
  BY <1>9 DEF Ideal!With, With
<1>14. process_seen = "running" /\ Ideal!now.op = "push_front"
  BY <1>1 DEF process_seen, Ideal!now, now
<1> QED
  BY <1>1, <1>2, <1>11, <1>12, <1>13, <1>14 DEF Ideal!LinkFront, Ideal!Linked, Ideal!Waiting, Ideal!NULL, NULL

(* sinavm_push_back *)
LEMMA BackSeen ==
  ASSUME NEW n, NEW i, NEW e, Filling(n, i, e), Due, LinkBack(n)
  PROVE  WorkInv' /\ Ideal!LinkBack(i)
<1>1. now.op = "push_back" /\ now.op \in Pushes /\ process = "running" /\ allocating
  BY DEF LinkBack, Waiting, Pushes
<1> PICK list, L : list = HeldAt(1) /\ L = Name(id, list)
  OBVIOUS
<1> PICK first, last, M : first = heap[list].a /\ last = heap[list].b /\ M = Name(id, last)
  OBVIOUS
<1>2. /\ list \in DOMAIN heap /\ heap[list].type = "list" /\ Ideal!HeldAt(1) = L
      /\ first \in OrNull(Nodes(heap)) /\ last \in OrNull(Nodes(heap))
      /\ first = NULL <=> last = NULL
      /\ heap_seen[L].a = Name(id, first) /\ heap_seen[L].b = M
      /\ L \in DOMAIN heap_seen /\ Name(e, list) = L /\ Name(e, n) = i
      /\ \A p \in OrNull(DOMAIN heap) : Name(id, p) = NULL <=> p = NULL
  BY <1>1, ListSeen
<1>3. /\ first \in OrNull(DOMAIN heap) /\ last \in OrNull(DOMAIN heap)
      /\ last # NULL => last \in DOMAIN heap /\ heap[last].type = "node"
  BY <1>2 DEF OrNull, Nodes
<1> PICK node, seen : /\ node = [type |-> "node", a |-> HeldAt(2), b |-> NULL]
                      /\ seen = [type |-> "node", a |-> Ideal!HeldAt(2), b |-> NULL]
  OBVIOUS
<1> PICK j : j = With(heap, n, node)
  OBVIOUS
<1> PICK g : g = With(heap_seen, i, seen)
  OBVIOUS
<1>4. /\ Intact(j, loc, registers, bindings) /\ Naming(e, j) /\ Alike(e, j, g)
      /\ DOMAIN j = DOMAIN heap \cup {n} /\ \A x \in DOMAIN heap : j[x] = heap[x]
  <2> PICK next : next = NULL
    OBVIOUS
  <2>1. Pushed(node, next) /\ PushedSeen(seen, Name(id, next)) /\ next \in OrNull(DOMAIN heap)
    BY DEF Pushed, PushedSeen, Name, OrNull
  <2>2. Intact(j, loc, registers, bindings) /\ Naming(e, j) /\ Alike(e, j, g)
    BY ONLY <1>1, <2>1, Filling(n, i, e), Due,
       j = With(heap, n, node), g = With(heap_seen, i, seen), NodeSeen
  <2>3. DOMAIN j = DOMAIN heap \cup {n} /\ \A x \in DOMAIN heap : j[x] = heap[x]
    BY DEF With, Filling
  <2> QED
    BY <2>2, <2>3
<1>5. /\ n \in OrNull(DOMAIN j) /\ list \in DOMAIN j /\ j[list].type \in Refers
      /\ last # NULL => last \in DOMAIN j /\ j[last].type \in Refers /\ Name(e, last) = M /\ M \in DOMAIN heap_seen
  <2>1. /\ \A p \in OrNull(DOMAIN heap) : Name(e, p) = Name(id, p)
        /\ Alike(id, heap, heap_seen) /\ Naming(id, heap) /\ NULL \notin DOMAIN heap
    BY FillingFacts
  <2>2. last # NULL => M \in DOMAIN heap_seen
    BY <1>3, <2>1, NameFacts
  <2> QED
    BY <1>2, <1>3, <1>4, <2>1, <2>2 DEF OrNull, Refers
<1>6. Records(heap) /\ n \notin DOMAIN heap /\ Records(heap_seen) /\ i \notin DOMAIN heap_seen
  <2>1. Intact(heap, loc, registers, bindings)
    BY FillingFacts
  <2>2. Records(heap_seen) /\ i \notin DOMAIN heap_seen
    BY FillingFacts, SeenRecords
  <2> QED
    BY <2>1, <2>2 DEF Intact, Fine, Filling
<1> PICK h0 : h0 = IF first = NULL THEN [heap EXCEPT ![list].a = n, ![list].b = n]
                   ELSE [heap EXCEPT ![last].b = n, ![list].b = n]
  OBVIOUS
<1> PICK f0 : f0 = IF heap_seen[L].a = NULL THEN [heap_seen EXCEPT ![L].a = i, ![L].b = i]
                   ELSE [heap_seen EXCEPT ![heap_seen[L].b].b = i, ![L].b = i]
  OBVIOUS
<1> PICK h, f : h = With(h0, n, node) /\ f = With(f0, i, seen)
  OBVIOUS
<1>7. Intact(h, loc, registers, bindings) /\ DOMAIN h = DOMAIN j /\ Alike(e, h, f)
  <2>1. CASE first = NULL
    <3>1. h = PutB(PutA(j, list, n), list, n)
      <4>1. With([heap EXCEPT ![list].a = n, ![list].b = n], n, node)
              = PutB(PutA(With(heap, n, node), list, n), list, n)
        BY <1>2, <1>6, FirstWritten
      <4> QED
        BY <2>1, <4>1
    <3>2. heap_seen[L].a = NULL
      BY <1>2, <1>3, <2>1
    <3>3. f = PutB(PutA(g, L, i), L, i)
      <4>1. With([heap_seen EXCEPT ![L].a = i, ![L].b = i], i, seen)
              = PutB(PutA(With(heap_seen, i, seen), L, i), L, i)
        BY <1>2, <1>6, FirstWritten
      <4> QED
        BY <3>2, <4>1
    <3>4. /\ Intact(h, loc, registers, bindings) /\ DOMAIN h = DOMAIN j
          /\ Alike(e, h, PutB(PutA(g, Name(e, list), Name(e, n)), Name(e, list), Name(e, n)))
      BY <1>4, <1>5, <3>1, LinkedTwice
    <3> QED
      BY <1>2, <3>3, <3>4
  <2>2. CASE first # NULL
    <3>1. h = PutB(PutB(j, last, n), list, n)
      <4>1. With(Followed(heap, last, list, n), n, node)
              = PutB(PutB(With(heap, n, node), last, n), list, n)
        <5>1. list \in DOMAIN heap /\ last \in DOMAIN heap /\ n \notin DOMAIN heap
          BY <1>2, <1>3, <1>6, <2>2
        <5> QED
          BY ONLY <5>1, BackWritten
      <4> QED
        BY <2>2, <4>1 DEF Followed
    <3>2. heap_seen[L].a # NULL
      BY <1>2, <1>3, <2>2
    <3>3. f = PutB(PutB(g, M, i), L, i)
      <4>1. With(Followed(heap_seen, M, L, i), i, seen)
              = PutB(PutB(With(heap_seen, i, seen), M, i), L, i)
        <5>1. L \in DOMAIN heap_seen /\ M \in DOMAIN heap_seen /\ i \notin DOMAIN heap_seen
          BY <1>2, <1>5, <1>6, <2>2
        <5> QED
          BY ONLY <5>1, BackWritten
      <4> QED
        BY <1>2, <3>2, <4>1 DEF Followed
    <3>4. /\ Intact(h, loc, registers, bindings) /\ DOMAIN h = DOMAIN j
          /\ Alike(e, h, PutB(PutB(g, Name(e, last), Name(e, n)), Name(e, list), Name(e, n)))
      BY <1>2, <1>4, <1>5, <2>2, <3>1, LinkedTwice
    <3> QED
      BY <1>2, <1>5, <2>2, <3>3, <3>4
  <2> QED
    BY <2>1, <2>2
<1> PICK m : m = IF now.v = 1 THEN Assigned(now.p, HeldAt(1)) ELSE loc
  OBVIOUS
<1>8. Finish(h, m, Released, bindings)
  BY DEF LinkBack, Linked
<1>9. WorkInv' /\ Ideal!Finish(f, NamesOf(e, m), Ideal!Released, bindings_seen)
  <2>1. m = loc \/ \E x, y : m = Assigned(x, y) /\ y \in DOMAIN h
    BY <1>2, <1>4, <1>7
  <2>2. DOMAIN h = DOMAIN heap \cup {n}
    BY <1>4, <1>7
  <2> QED
    BY ONLY Filling(n, i, e), Due, <1>7, <1>8, <2>1, <2>2, FilledSeen
<1>10. NamesOf(e, m) = IF Ideal!now.v = 1 THEN Ideal!Assigned(Ideal!now.p, Ideal!HeldAt(1)) ELSE loc_seen
  BY <1>1, PushedLocals
<1>11. Ideal!With(f0, i, seen) = f
  BY DEF Ideal!With, With
<1>12. process_seen = "running" /\ Ideal!now.op = "push_back"
  BY <1>1 DEF process_seen, Ideal!now, now
<1> QED
  BY <1>1, <1>2, <1>9, <1>10, <1>11, <1>12 DEF Ideal!LinkBack, Ideal!Linked, Ideal!Waiting, Ideal!NULL, NULL

(* Whatever it was that waited for the chunk *)
LEMMA FillSeen ==
  ASSUME NEW n, NEW i, NEW e, Filling(n, i, e), Due, Fills(n)
  PROVE  WorkInv' /\ Ideal!Allocate
<1>1. WorkInv' /\ Ideal!Fills(i)
  BY NewSeen, NewBlockSeen, FrontSeen, BackSeen DEF Fills, Ideal!Fills
<1>2. i \in (0 .. Half) \ DOMAIN heap_seen
  <2>1. i \notin DOMAIN heap_seen
    BY FillingFacts
  <2> QED
    BY <2>1 DEF Filling
<1> QED
  BY <1>1, <1>2 DEF Ideal!Allocate

(* allocate_chunk returns a chunk that is nobody else's. *)
LEMMA AllocateSeen ==
  ASSUME SetupFits, PointerSize = 4, SpaceInv, WorkInv, Allocate
  PROVE  WorkInv' /\ Ideal!Allocate
<1> PICK n, c, size : n = heap_position /\ c = current_heap /\ size = sizeof_chunk(NewType)
  OBVIOUS
<1> PICK i : i = CHOOSE j \in 0 .. Half : j \notin Range(id) /\ 0 .. (j - 1) \subseteq Range(id)
  OBVIOUS
<1>1. /\ root = 0 /\ allocating /\ n - c + size <= Half /\ Fills(n)
      /\ UNCHANGED <<root, frames>>
      /\ id' = [x \in DOMAIN heap' |-> IF x = n THEN i ELSE id[x]]
  BY DEF Allocate, Asked, Room
<1>2. /\ c \in {0, Half} /\ n \in c .. c + Half /\ DOMAIN heap \subseteq c .. n - 1
      /\ Asks(heap, loc, registers, bindings) /\ DOMAIN id = DOMAIN heap
  BY <1>1 DEF SpaceInv, Ranges, Contained, Filled, MachineFits
<1>3. size \in Nat \ {0}
  BY SizeIs
<1>4. c \in Nat /\ n \in Nat /\ n - c < Half /\ n \notin c .. n - 1
  BY <1>1, <1>2, <1>3, HalfAssumption
<1>5. n \notin DOMAIN heap
  BY <1>2, <1>4
<1>6. i \in 0 .. Half /\ i \notin Range(id)
  <2>1. \E j \in 0 .. Half : j \notin Range(id) /\ 0 .. (j - 1) \subseteq Range(id)
    BY <1>2, <1>4, NameLeft
  <2> QED
    BY <2>1
<1>7. \A x \in DOMAIN heap : id[x] # i
  BY <1>2, <1>6 DEF Range
<1> PICK e : e = [x \in DOMAIN heap \cup {n} |-> IF x = n THEN i ELSE id[x]]
  OBVIOUS
<1>8. DOMAIN heap' \subseteq DOMAIN heap \cup {n}
  BY <1>1, <1>2, <1>4, <1>5, FillsFits
<1>9. id' = [x \in DOMAIN heap' |-> e[x]]
  BY <1>1, <1>8
<1>10. Filling(n, i, e)
  BY <1>1, <1>4, <1>5, <1>6, <1>7, <1>9 DEF Filling, WorkInv
<1>11. Due
  BY <1>2, DueNow
<1> QED
  BY <1>1, <1>10, <1>11, FillSeen

-----------------------------------------------------------------------------
(* The program calls or returns: seen from both sides.                     *)

(* The chunks stay as they are. *)
LEMMA StillSeen ==
  ASSUME Working, id' = Stays, UNCHANGED <<heap, loc, registers, bindings>>
  PROVE  (\E e, h, l, r, b : Works(e, h, l, r, b))' /\ NothingSeen
<1>1. /\ Intact(heap, loc, registers, bindings) /\ Alike(id, heap, heap_seen) /\ Naming(id, heap)
      /\ Trimmed(heap, loc, registers, bindings) /\ frames = <<>>
      /\ loc_seen = NamesOf(id, loc) /\ registers_seen = NamesOf(id, registers)
      /\ bindings_seen = NamesBound(id, bindings) /\ NULL \notin DOMAIN heap
  BY SeenFacts DEF Working
<1> PICK h, l, r, b, e, e2 : h = heap /\ l = loc /\ r = registers /\ b = bindings /\ e = id /\ e2 = id'
  OBVIOUS
<1>2. e2 = [x \in DOMAIN h |-> e[x]]
  BY DEF Stays
<1>3. Naming(e2, h)
  BY <1>1, <1>2 DEF Naming
<1>4. root' = 0 /\ frames' = <<>>
  BY <1>1 DEF Working, spaceVars
<1>5. Works(e2, h, l, r, b)'
  BY <1>1, <1>2, <1>3, <1>4 DEF Works
<1>6. Shows(e2, h, l, r, b)'
  BY <1>5, WorksShowsNext DEF Working
<1>7. /\ Alike(e2, h, heap_seen') /\ loc_seen' = NamesOf(e2, l) /\ registers_seen' = NamesOf(e2, r)
      /\ bindings_seen' = NamesBound(e2, b)
  BY <1>6 DEF Shows, NamesBound
<1>8. \A p \in OrNull(DOMAIN h) : Name(e2, p) = Name(e, p)
  BY <1>2 DEF OrNull, Name
<1>9. heap_seen' = heap_seen
  <2>1. \A x \in DOMAIN h : e2[x] = e[x] /\ NamedChunk(e2, h[x]) = NamedChunk(e, h[x])
    <3> SUFFICES ASSUME NEW x \in DOMAIN h PROVE e2[x] = e[x] /\ NamedChunk(e2, h[x]) = NamedChunk(e, h[x])
      OBVIOUS
    <3>1. h[x].type \in Refers => h[x].a \in OrNull(DOMAIN h) /\ h[x].b \in OrNull(DOMAIN h)
      BY <1>1 DEF Intact, Fine
    <3> QED
      BY <1>2, <1>8, <3>1 DEF NamedChunk
  <2> PICK g : g = heap_seen
    OBVIOUS
  <2>2. g = [i \in {e[x] : x \in DOMAIN h} |-> g[i]] /\ \A x \in DOMAIN h : g[e[x]] = NamedChunk(e, h[x])
    BY <1>1 DEF Alike
  <2>3. {e[x] : x \in DOMAIN h} = {e2[x] : x \in DOMAIN h}
    BY <2>1
  <2>4. Alike(e2, h, g)
    BY <2>1, <2>2, <2>3 DEF Alike
  <2> QED
    BY <1>7, <2>4, AlikeSame
<1>10. NamesOf(e2, l) = NamesOf(e, l)
  <2>1. \A x \in DOMAIN l : l[x] \in OrNull(DOMAIN h)
    BY <1>1 DEF Intact
  <2> QED
    BY <1>8, <2>1 DEF NamesOf
<1>11. NamesOf(e2, r) = NamesOf(e, r)
  <2>1. \A k \in DOMAIN r : r[k] \in OrNull(DOMAIN h)
    BY <1>1 DEF Intact, OrNull
  <2> QED
    BY <1>8, <2>1 DEF NamesOf
<1>12. NamesBound(e2, b) = NamesBound(e, b)
  <2>1. \A t \in Symbol : b[t] \in OrNull(DOMAIN h)
    BY <1>1 DEF Intact
  <2> QED
    BY <1>8, <2>1 DEF NamesBound
<1> QED
  BY <1>1, <1>5, <1>7, <1>9, <1>10, <1>11, <1>12 DEF NothingSeen

(* What hangs on a chunk hangs on its name. *)
LEMMA ReachOne ==
  ASSUME NEW h, NEW l, NEW r, NEW b, Intact(h, l, r, b), NEW y, y \in DOMAIN h,
         NEW m, m = [z \in {0} |-> y], NEW d, d = [t \in Symbol |-> NULL]
  PROVE  ReachIn(h, {y}) = DOMAIN Reachable(h, m, <<>>, d) /\ Intact(h, m, <<>>, d)
<1> DEFINE from == Range(m) \cup Range(<<>>) \cup Range(d)
<1>1. Intact(h, m, <<>>, d)
  BY DEF Intact, OrNull
<1>2. from \ {NULL} = {y} \ {NULL} /\ from \in SUBSET (DOMAIN h \cup {NULL})
  BY DEF Range
<1>3. NoDangling(Successions(h)) /\ IsFiniteSet(DOMAIN h)
  <2>1. NULL \notin DOMAIN h /\ IsFiniteSet(DOMAIN h)
    BY DEF Intact, Fine, NULL
  <2>2. \A i \in DOMAIN h : Successions(h)[i] \ {NULL} \subseteq DOMAIN h
    <3> SUFFICES ASSUME NEW i \in DOMAIN h PROVE Successions(h)[i] \ {NULL} \subseteq DOMAIN h
      OBVIOUS
    <3>1. Successions(h)[i] = Range(SuccessorsIn(h, i))
      BY DEF Successions
    <3>2. h[i].type \in Refers => h[i].a \in OrNull(DOMAIN h) /\ h[i].b \in OrNull(DOMAIN h)
      BY DEF Intact, Fine
    <3> QED
      BY <3>1, <3>2, SuccessorsAre DEF OrNull
  <2> QED
    BY <2>1, <2>2 DEF NoDangling, Successions, Closed
<1>4. DOMAIN Reachable(h, m, <<>>, d) = ReachIn(h, from)
  BY DEF Reachable
<1> HIDE DEF from
<1>5. ReachIn(h, from) = Hull(Successions(h), from \ {NULL})
  BY <1>2, <1>3, ReachIsHull
<1>6. ReachIn(h, {y}) = Hull(Successions(h), {y} \ {NULL})
  BY <1>3, ReachIsHull
<1> QED
  BY <1>1, <1>2, <1>4, <1>5, <1>6

LEMMA NamedReachOne ==
  ASSUME NEW h, NEW l, NEW r, NEW b, Intact(h, l, r, b), NEW e, Naming(e, h), NEW g, Alike(e, h, g),
         NEW x, x \in DOMAIN h, NEW y, y \in DOMAIN h
  PROVE  x \in ReachIn(h, {y}) <=> Name(e, x) \in ReachIn(g, {Name(e, y)})
<1> PICK m, d, s : m = [z \in {0} |-> y] /\ d = [t \in Symbol |-> NULL] /\ s = <<>>
  OBVIOUS
<1> PICK v : v = Name(e, y)
  OBVIOUS
<1> PICK M, D, R : M = NamesOf(e, m) /\ D = NamesBound(e, d) /\ R = NamesOf(e, s)
  OBVIOUS
<1>1. NULL \notin DOMAIN h
  BY DEF Intact, Fine, NULL
<1>2. /\ DOMAIN g = {e[z] : z \in DOMAIN h} /\ v \in DOMAIN g
      /\ \A z \in DOMAIN h : Name(e, z) = e[z]
  <2>1. v \in DOMAIN g /\ \A z \in DOMAIN h : Name(e, z) = e[z]
    BY <1>1, NameFacts
  <2> QED
    BY <2>1 DEF Alike
<1>3. M = [z \in {0} |-> v] /\ D = [t \in Symbol |-> NULL] /\ R = <<>>
  <2>1. M = [z \in {0} |-> v]
    BY DEF NamesOf
  <2>2. D = [t \in Symbol |-> NULL]
    BY DEF NamesBound, Name
  <2>3. R = <<>>
    BY DEF NamesOf
  <2> QED
    BY <2>1, <2>2, <2>3
<1>4. ReachIn(h, {y}) = DOMAIN Reachable(h, m, s, d) /\ Intact(h, m, s, d)
  BY ReachOne
<1>5. Intact(g, NamesOf(e, l), NamesOf(e, r), NamesBound(e, b))
  BY NamedWhole
<1>6. ReachIn(g, {v}) = DOMAIN Reachable(g, M, R, D) /\ Intact(g, M, R, D)
  <2> PICK l2, r2, b2 : Intact(g, l2, r2, b2)
    BY <1>5
  <2>1. ReachIn(g, {v}) = DOMAIN Reachable(g, M, <<>>, D) /\ Intact(g, M, <<>>, D)
    BY ONLY Intact(g, l2, r2, b2), <1>2, <1>3, ReachOne
  <2> QED
    BY <1>3, <2>1
<1> PICK K, L : K = DOMAIN Reachable(h, m, s, d) /\ L = DOMAIN Reachable(g, M, R, D)
  OBVIOUS
<1>7. Keeps(h, m, s, d, K) /\ \A S : Keeps(h, m, s, d, S) => K \subseteq S
  BY <1>4, ReachableLeast DEF Least
<1>8. Keeps(g, M, R, D, L) /\ \A S : Keeps(g, M, R, D, S) => L \subseteq S
  BY <1>6, ReachableLeast DEF Least
<1>9. ASSUME x \in K PROVE e[x] \in L
  <2> PICK S : S = {z \in DOMAIN h : e[z] \in L}
    OBVIOUS
  <2>1. L = {e[z] : z \in S}
    <3>1. L \subseteq {e[z] : z \in DOMAIN h}
      BY <1>2, <1>8 DEF Keeps
    <3> QED
      BY <3>1
  <2>2. Keeps(h, m, s, d, S)
    BY <1>4, <1>8, <2>1, NamedKeeps
  <2> QED
    BY <1>7, <1>9, <2>2
<1>10. ASSUME e[x] \in L PROVE x \in K
  <2> PICK T : T = {e[z] : z \in K}
    OBVIOUS
  <2>1. K \subseteq DOMAIN h
    BY <1>7 DEF Keeps
  <2>2. Keeps(g, M, R, D, T)
    BY <1>4, <1>7, <2>1, NamedKeeps
  <2>3. PICK z \in K : e[z] = e[x]
    BY <1>8, <1>10, <2>2
  <2> QED
    BY <2>1, <2>3 DEF Naming
<1> QED
  BY <1>2, <1>4, <1>6, <1>9, <1>10

(* What a chunk is can be told from its name. *)
LEMMA IsASeen ==
  ASSUME NEW h, NULL \notin DOMAIN h, NEW e, Naming(e, h), NEW g, Alike(e, h, g), NEW p, p \in DOMAIN h,
         h[p].type = "list" => h[p].a \in OrNull(DOMAIN h) /\ h[p].b \in OrNull(DOMAIN h)
  PROVE  /\ \A kind : IsA(g, Name(e, p), kind) <=> IsA(h, p, kind)
         /\ h[p].type = "list" => (EmptyIn(g, Name(e, p)) <=> EmptyIn(h, p))
<1>1. /\ g[Name(e, p)].type = h[p].type
      /\ h[p].type = "list" => g[Name(e, p)].a = Name(e, h[p].a) /\ g[Name(e, p)].b = Name(e, h[p].b)
  BY ReadNamed DEF Refers
<1>2. \A q \in OrNull(DOMAIN h) : Name(e, q) = NULL <=> q = NULL
  BY NameFacts
<1>3. h[p].type = "list" => (EmptyIn(g, Name(e, p)) <=> EmptyIn(h, p))
  BY <1>1, <1>2 DEF EmptyIn
<1>4. \A kind : IsA(g, Name(e, p), kind) <=> IsA(h, p, kind)
  BY <1>1, <1>3 DEF IsA
<1> QED
  BY <1>3, <1>4

(* The arguments of a builtin, and those the user sees *)
LEMMA ItemSeen ==
  ASSUME NEW h, NEW l, Words(h, l), NEW e, Naming(e, h), NEW g, Alike(e, h, g),
         NEW item, item \in OrNull(Nodes(h)), NEW seen, seen = Name(e, item)
  PROVE  /\ \A kind : KnowsItem(g, seen, kind) <=> KnowsItem(h, item, kind)
         /\ seen = NULL <=> item = NULL
         /\ item # NULL => /\ h[item].a \in DOMAIN h /\ g[seen].a = Name(e, h[item].a)
                           /\ h[item].b \in OrNull(Nodes(h)) /\ g[seen].b = Name(e, h[item].b)
<1>1. NULL \notin DOMAIN h
  BY DEF Words, NULL
<1>2. item # NULL => item \in DOMAIN h /\ h[item].type = "node" /\ h[item].a \in DOMAIN h /\ h[item].b \in OrNull(Nodes(h))
  BY DEF Words, OrNull, Nodes, Values
<1>3. item \in OrNull(DOMAIN h)
  BY <1>2 DEF OrNull
<1>4. seen = NULL <=> item = NULL
  BY <1>1, <1>3, NameFacts
<1>5. item # NULL => g[seen].a = Name(e, h[item].a) /\ g[seen].b = Name(e, h[item].b)
  BY <1>1, <1>2, ReadNamed DEF Refers
<1>6. ASSUME item # NULL, NEW kind PROVE IsA(g, Name(e, h[item].a), kind) <=> IsA(h, h[item].a, kind)
  <2> PICK p : p = h[item].a
    OBVIOUS
  <2>1. p \in DOMAIN h
    BY <1>2, <1>6
  <2>2. h[p].type = "list" => h[p].a \in OrNull(DOMAIN h) /\ h[p].b \in OrNull(DOMAIN h)
    BY <2>1 DEF Words, Lists, Nodes, OrNull
  <2> QED
    BY <1>1, <2>1, <2>2, IsASeen
<1>7. \A kind : KnowsItem(g, seen, kind) <=> KnowsItem(h, item, kind)
  BY <1>4, <1>5, <1>6 DEF KnowsItem
<1> QED
  BY <1>2, <1>4, <1>5, <1>7

LEMMA ItemsSeen ==
  ASSUME NEW h, NEW l, Words(h, l), NEW e, Naming(e, h), NEW g, Alike(e, h, g),
         l["ds"] \in Lists(h), "ds" \in DOMAIN l, NEW m, m = NamesOf(e, l)
  PROVE  /\ \A c : KnowsItems(g, m, c) <=> KnowsItems(h, l, c)
         /\ h[l["ds"]].a \in OrNull(Nodes(h)) /\ g[m["ds"]].a = Name(e, h[l["ds"]].a)
<1> PICK x, y : x = l["ds"] /\ y = m["ds"]
  OBVIOUS
<1>1. y = Name(e, x) /\ x \in DOMAIN h /\ h[x].type = "list" /\ h[x].a \in OrNull(Nodes(h))
  BY DEF NamesOf, Words, Lists
<1>2. NULL \notin DOMAIN h
  BY DEF Words, NULL
<1>3. g[y].a = Name(e, h[x].a)
  BY <1>1, <1>2, ReadNamed DEF Refers
<1> PICK i1, j1, i2, j2, i3, j3 : i1 = h[x].a /\ j1 = g[y].a /\ i2 = h[i1].b /\ j2 = g[j1].b
                                  /\ i3 = h[i2].b /\ j3 = g[j2].b
  OBVIOUS
<1>4. /\ \A kind : KnowsItem(g, j1, kind) <=> KnowsItem(h, i1, kind)
      /\ i1 # NULL => i2 \in OrNull(Nodes(h)) /\ j2 = Name(e, i2)
  BY <1>1, <1>3, ItemSeen
<1>5. /\ i1 # NULL => \A kind : KnowsItem(g, j2, kind) <=> KnowsItem(h, i2, kind)
      /\ i1 # NULL /\ i2 # NULL => i3 \in OrNull(Nodes(h)) /\ j3 = Name(e, i3)
  BY <1>4, ItemSeen
<1>6. i1 # NULL /\ i2 # NULL => \A kind : KnowsItem(g, j3, kind) <=> KnowsItem(h, i3, kind)
  BY <1>5, ItemSeen
<1>7. ASSUME NEW c PROVE KnowsItems(g, m, c) <=> KnowsItems(h, l, c)
  <2> PICK n, t : n = Len(c.top) /\ t = c.top
    OBVIOUS
  <2>1. KnowsItems(h, l, c) <=> /\ t \in Seq(Kinds) /\ n \in 0 .. 3
                                /\ n >= 1 => KnowsItem(h, i1, t[1])
                                /\ n >= 2 => KnowsItem(h, i2, t[2])
                                /\ n >= 3 => KnowsItem(h, i3, t[3])
    BY DEF KnowsItems
  <2>2. KnowsItems(g, m, c) <=> /\ t \in Seq(Kinds) /\ n \in 0 .. 3
                                /\ n >= 1 => KnowsItem(g, j1, t[1])
                                /\ n >= 2 => KnowsItem(g, j2, t[2])
                                /\ n >= 3 => KnowsItem(g, j3, t[3])
    BY DEF KnowsItems
  <2>3. \A kind : KnowsItem(h, i1, kind) => i1 # NULL
    BY DEF KnowsItem
  <2>4. \A kind : KnowsItem(h, i2, kind) => i2 # NULL
    BY DEF KnowsItem
  <2>5. n \in 0 .. 3 /\ n >= 2 => n >= 1
    OBVIOUS
  <2>6. n \in 0 .. 3 /\ n >= 3 => n >= 1 /\ n >= 2
    OBVIOUS
  <2> PICK q1, q2, q3 : q1 = t[1] /\ q2 = t[2] /\ q3 = t[3]
    OBVIOUS
  <2> QED
    BY <1>4, <1>5, <1>6, <2>1, <2>2, <2>3, <2>4, <2>5, <2>6
<1> QED
  BY <1>1, <1>3, <1>7

(* The checks pass if and only if the items are what is expected. *)
LEMMA FitsMeans ==
  ASSUME NEW h, NEW l, NEW name
  PROVE  FitsIn(h, l.ds, 0, name) <=> KnowsItems(h, l, Context({}, <<>>, Expects(name)))
<1> DEFINE t == Expects(name)
           item(k) == NodeOf(h, l.ds, k)
           item1 == h[l.ds].a
           item2 == h[item1].b
           item3 == h[item2].b
<1>1. t \in Seq(Kinds) /\ Len(t) \in 0 .. 3
  BY ExpectsShort
<1>2. FitsIn(h, l.ds, 0, name) => KnowsItems(h, l, Context({}, <<>>, t))
  BY <1>1, FitsKnown
<1>3. ASSUME KnowsItems(h, l, Context({}, <<>>, t)) PROVE FitsIn(h, l.ds, 0, name)
  <2>1. Context({}, <<>>, t).top = t
    BY DEF Context
  <2>2. /\ Len(t) >= 1 => KnowsItem(h, item1, t[1])
        /\ Len(t) >= 2 => KnowsItem(h, item2, t[2])
        /\ Len(t) >= 3 => KnowsItem(h, item3, t[3])
    BY <1>3, <2>1 DEF KnowsItems
  <2>3. Len(t) >= 1 => KnowsItem(h, item(1), t[1])
    BY <2>2, NodeOf1
  <2>4. Len(t) >= 2 => KnowsItem(h, item(2), t[2])
    <3> SUFFICES ASSUME Len(t) >= 2 PROVE KnowsItem(h, item(2), t[2])
      OBVIOUS
    <3>1. item1 # NULL
      <4>1. Len(t) >= 1
        BY <1>1
      <4>2. KnowsItem(h, item1, t[1])
        BY <2>2, <4>1
      <4> QED
        BY <4>2 DEF KnowsItem
    <3>2. item(2) = item2
      BY <3>1, NodeOf2
    <3> QED
      BY <2>2, <3>2
  <2>5. Len(t) >= 3 => KnowsItem(h, item(3), t[3])
    <3> SUFFICES ASSUME Len(t) >= 3 PROVE KnowsItem(h, item(3), t[3])
      OBVIOUS
    <3>1. item1 # NULL /\ item2 # NULL
      <4>1. Len(t) >= 1 /\ Len(t) >= 2
        BY <1>1
      <4>2. KnowsItem(h, item1, t[1]) /\ KnowsItem(h, item2, t[2])
        BY <2>2, <4>1
      <4> QED
        BY <4>2 DEF KnowsItem
    <3>2. item(3) = item3
      BY <3>1, NodeOf3
    <3> QED
      BY <2>2, <3>2
  <2> HIDE DEF item, t
  <2>6. \A k \in DOMAIN t : KnowsItem(h, item(k), t[k])
    <3> SUFFICES ASSUME NEW k \in DOMAIN t PROVE KnowsItem(h, item(k), t[k])
      OBVIOUS
    <3>1. k \in {1, 2, 3} /\ Len(t) >= k
      BY <1>1
    <3> QED
      BY <2>3, <2>4, <2>5, <3>1
  <2>7. \A k \in DOMAIN t : 0 + k = k
    BY <1>1
  <2> QED
    BY <2>6, <2>7 DEF FitsIn, KnowsItem, item, t
<1> QED
  BY <1>2, <1>3

(* What the program may do next is the same, seen from both sides. *)
LEMMA ProgramSame == ASSUME NEW name PROVE Ideal!Program(name) = Program(name)
<1>1. Ideal!unary = unary
  BY DEF Ideal!unary, unary, Ideal!PopToRegister, PopToRegister, Ideal!New, New, Ideal!PushFront,
       PushFront, Ideal!Release, Release, Ideal!Op, Op
<1>2. Ideal!binary = binary
  BY DEF Ideal!binary, binary, Ideal!PopToRegister, PopToRegister, Ideal!New, New, Ideal!PushFront,
       PushFront, Ideal!Release, Release, Ideal!Op, Op
<1>3. Ideal!list_head = list_head
  BY DEF Ideal!list_head, list_head, Ideal!PopToRegister, PopToRegister, Ideal!PushRegister,
       PushRegister, Ideal!PushFront, PushFront, Ideal!PopRegister, PopRegister, Ideal!Release, Release,
       Ideal!Op, Op
<1>4. Ideal!list_prepend = list_prepend
  BY DEF Ideal!list_prepend, list_prepend, Ideal!PopToRegister, PopToRegister, Ideal!Returning,
       Returning, Ideal!PushFront, PushFront, Ideal!Release, Release, Ideal!Op, Op
<1>5. Ideal!list_new = list_new
  BY DEF Ideal!list_new, list_new, Ideal!New, New, Ideal!PushFront, PushFront, Ideal!Op, Op
<1>6. Ideal!read_line = read_line
  BY DEF Ideal!read_line, read_line, Ideal!New, New, Ideal!PushRegister, PushRegister, Ideal!PopRegister,
       PopRegister, Ideal!Returning, Returning, Ideal!PushBack, PushBack, Ideal!PushFront, PushFront,
       Ideal!Release, Release, Ideal!Op, Op
<1>7. Ideal!print_string = print_string
  BY DEF Ideal!print_string, print_string, Ideal!PopToRegister, PopToRegister, Ideal!Release, Release,
       Ideal!Op, Op
<1>8. Ideal!print_int = print_int
  BY DEF Ideal!print_int, print_int, Ideal!PopToRegister, PopToRegister, Ideal!Release, Release,
       Ideal!Op, Op
<1>9. Ideal!drop = drop
  BY DEF Ideal!drop, drop, Ideal!PopFront, PopFront, Ideal!Op, Op
<1>10. Ideal!_dup = _dup
  BY DEF Ideal!_dup, _dup, Ideal!FirstItem, FirstItem, Ideal!PushFront, PushFront, Ideal!Op, Op
<1>11. Ideal!append = append
  BY DEF Ideal!append, append, Ideal!PopToRegister, PopToRegister, Ideal!FirstItem, FirstItem,
       Ideal!PushBack, PushBack, Ideal!Release, Release, Ideal!Op, Op
<1>12. Ideal!roll = roll
  BY DEF Ideal!roll, roll, Ideal!PopToRegister, PopToRegister, Ideal!PushRegister, PushRegister,
       Ideal!PopRegister, PopRegister, Ideal!PushFront, PushFront, Ideal!Release, Release, Ideal!Op, Op
<1>13. Ideal!swap = swap
  BY DEF Ideal!swap, swap, Ideal!PopToRegister, PopToRegister, Ideal!PushRegister, PushRegister,
       Ideal!PopRegister, PopRegister, Ideal!PushFront, PushFront, Ideal!Release, Release, Ideal!Op, Op
<1>14. Ideal!bind_symbol = bind_symbol
  BY DEF Ideal!bind_symbol, bind_symbol, Ideal!PopToRegister, PopToRegister, Ideal!Bind, Bind,
       Ideal!Release, Release, Ideal!Op, Op
<1>15. Ideal!call = call
  BY DEF Ideal!call, call, Ideal!PopToRegister, PopToRegister, Ideal!execute_block, execute_block,
       Ideal!PushRegister, PushRegister, Ideal!Code, Code, Ideal!NewBlock, NewBlock, Ideal!PushFront,
       PushFront, Ideal!PopRegister, PopRegister, Ideal!Release, Release, Ideal!Op, Op
<1>16. Ideal!_break = _break
  BY DEF Ideal!_break, _break, Ideal!PopFront, PopFront, Ideal!Op, Op
<1>17. Ideal!loop = loop
  BY DEF Ideal!loop, loop, Ideal!FirstItem, FirstItem, Ideal!Rewind, Rewind, Ideal!Op, Op
<1>18. Ideal!if_not = if_not
  BY DEF Ideal!if_not, if_not, Ideal!PopToRegister, PopToRegister, Ideal!Release, Release, Ideal!Op, Op
<1>19. Ideal!if_block = if_block
  BY DEF Ideal!if_block, if_block, Ideal!PopToRegister, PopToRegister, Ideal!execute_block,
       execute_block, Ideal!PushRegister, PushRegister, Ideal!Code, Code, Ideal!NewBlock, NewBlock,
       Ideal!PushFront, PushFront, Ideal!PopRegister, PopRegister, Ideal!Release, Release, Ideal!Op, Op
<1> QED
  BY <1>1, <1>2, <1>3, <1>4, <1>5, <1>6, <1>7, <1>8, <1>9, <1>10, <1>11, <1>12, <1>13, <1>14, <1>15,
       <1>16, <1>17, <1>18, <1>19
     DEF Ideal!Program, Program, Ideal!char_to_upper, char_to_upper, Ideal!char_is_alpha, char_is_alpha,
          Ideal!list_is_empty, list_is_empty, Ideal!_not, _not, Ideal!add, add, Ideal!sub, sub,
          Ideal!mod, mod, Ideal!equals, equals

(* What a symbol leads to *)
LEMMA BoundSeen ==
  ASSUME NEW h, NEW l, Words(h, l), NEW b, b \in [Symbol -> OrNull(DOMAIN h)],
         NEW e, Naming(e, h), NEW g, Alike(e, h, g), NEW d, d = NamesBound(e, b), NEW s \in Symbol
  PROVE  BoundIn(g, d, MeantIn(g, d, s)) = BoundIn(h, b, MeantIn(h, b, s))
<1>1. NULL \notin DOMAIN h /\ DOMAIN b = Symbol /\ DOMAIN d = Symbol
  BY DEF Words, NULL, NamesBound
<1>2. \A t \in Symbol : d[t] = Name(e, b[t]) /\ b[t] \in OrNull(DOMAIN h)
  BY DEF NamesBound
<1>3. \A t \in Symbol : d[t] = NULL <=> b[t] = NULL
  BY <1>1, <1>2, NameFacts
<1>4. ASSUME NEW t \in Symbol, b[t] # NULL
      PROVE  /\ b[t] \in DOMAIN h /\ g[d[t]].type = h[b[t]].type
             /\ h[b[t]].type \notin Refers => g[d[t]].a = h[b[t]].a
             /\ h[b[t]].type \in {"symbol", "escaped"} => h[b[t]].a \in Symbol
  <2> PICK p : p = b[t]
    OBVIOUS
  <2>1. p \in DOMAIN h
    BY <1>2, <1>4 DEF OrNull
  <2>2. d[t] = Name(e, p)
    BY <1>2
  <2>3. g[Name(e, p)].type = h[p].type /\ (h[p].type \notin Refers => g[Name(e, p)].a = h[p].a)
    BY <1>1, <2>1, ReadNamed
  <2> QED
    BY <2>1, <2>2, <2>3 DEF Words
<1>5. \A t \in Symbol : SymbolAfter(g, d, t) = SymbolAfter(h, b, t)
  BY <1>1, <1>3, <1>4 DEF SymbolAfter, Refers
<1>6. \A t \in Symbol : b[t] # NULL /\ h[b[t]].type = "symbol" => h[b[t]].a \in Symbol
  BY <1>4
<1> PICK m : m = MeantIn(h, b, s)
  OBVIOUS
<1>7. MeantIn(g, d, s) = m
  <2>1. IsFiniteSet(Symbol)
    BY SymbolAssumption
  <2>2. MeantIn(g, d, s) = MeantIn(h, b, s)
    BY ONLY s \in Symbol, <1>1, <1>5, <1>6, <2>1, MeantSame
  <2> QED
    BY <2>2
<1>8. m \in Symbol
  BY <1>1, <1>6, MeantIsSymbol, SymbolAssumption
<1>9. BoundIn(g, d, m) = BoundIn(h, b, m)
  BY <1>3, <1>4, <1>8 DEF BoundIn, Refers
<1> QED
  BY <1>7, <1>9

LEMMA EscapedSame == ASSUME NEW s PROVE Ideal!escaped_symbol(s) = escaped_symbol(s)
BY DEF Ideal!escaped_symbol, escaped_symbol, Ideal!New, New, Ideal!PushFront, PushFront, Ideal!Op, Op

LEMMA MeaningSame ==
  ASSUME NEW h, NEW b, NEW s
  PROVE  Ideal!BoundIn(h, b, Ideal!MeantIn(h, b, s)) = BoundIn(h, b, MeantIn(h, b, s))
<1>1. ASSUME NEW t PROVE Ideal!symbol_data(t) = symbol_data(t)
  BY DEF Ideal!symbol_data, symbol_data, Ideal!Dereference, Dereference, Ideal!PushFront, PushFront, Ideal!Op, Op
<1>2. ASSUME NEW t PROVE Ideal!symbol_block(t) = symbol_block(t)
  BY DEF Ideal!symbol_block, symbol_block, Ideal!Dereference, Dereference, Ideal!execute_block, execute_block,
         Ideal!PushRegister, PushRegister, Ideal!Code, Code, Ideal!NewBlock, NewBlock,
         Ideal!PushFront, PushFront, Ideal!PopRegister, PopRegister, Ideal!Op, Op
<1>3. ASSUME NEW t PROVE Ideal!BoundIn(h, b, t) = BoundIn(h, b, t)
  BY <1>1, <1>2, EscapedSame DEF Ideal!BoundIn, BoundIn, Ideal!NULL, NULL
<1> QED
  BY <1>3 DEF Ideal!MeantIn, MeantIn, Ideal!NULL, NULL, Ideal!Cardinality, Cardinality

LEMMA ChecksSame ==
  ASSUME NEW h, NEW list, NEW name, NEW k
  PROVE  /\ Ideal!FitsIn(h, list, 0, name) <=> FitsIn(h, list, 0, name)
         /\ Ideal!EmptyIn(h, list) <=> EmptyIn(h, list)
         /\ Ideal!NodeOf(h, list, k) = NodeOf(h, list, k)
<1>1. \A x : Ideal!EmptyIn(h, x) <=> EmptyIn(h, x)
  BY DEF Ideal!EmptyIn, EmptyIn, Ideal!NULL, NULL
<1>2. \A n : Ideal!NodeOf(h, list, n) = NodeOf(h, list, n)
  BY DEF Ideal!NodeOf, NodeOf, Ideal!NULL, NULL
<1>3. \A x, kind : Ideal!IsA(h, x, kind) <=> IsA(h, x, kind)
  BY <1>1 DEF Ideal!IsA, IsA
<1>4. Ideal!Expects(name) = Expects(name)
  BY DEF Ideal!Expects, Expects
<1>5. Ideal!FitsIn(h, list, 0, name) <=> FitsIn(h, list, 0, name)
  BY <1>2, <1>3, <1>4 DEF Ideal!FitsIn, FitsIn, Ideal!NULL, NULL
<1> QED
  BY <1>1, <1>2, <1>5

LEMMA ReachSame ==
  ASSUME NEW h, NEW from PROVE Ideal!ReachIn(h, from) = ReachIn(h, from)
BY DEF Ideal!ReachIn, ReachIn, Ideal!Closure, Closure, Ideal!SuccessorsIn, SuccessorsIn, Ideal!NULL, NULL,
       Ideal!Range, Range

(* Whether a list would be put into itself *)
LEMMA KnotSeen ==
  ASSUME Working, NEW o, NEW c, Ready(o, c), NEW name, FitsIn(heap, loc.ds, 0, name)
  PROVE  Ideal!PutsIntoItself(name) <=> PutsIntoItself(name)
<1>1. /\ Intact(heap, loc, registers, bindings) /\ Alike(id, heap, heap_seen) /\ Naming(id, heap)
      /\ loc_seen = NamesOf(id, loc)
  BY SeenFacts DEF Working
<1>2. Words(heap, loc) /\ Stacks \subseteq DOMAIN loc /\ loc["ds"] \in Lists(heap)
  BY DEF Ready, Sane, Rooted, Knows, OrNull
<1> SUFFICES ASSUME name \in {"append", "list-append", "list-prepend"}
             PROVE  Ideal!PutsIntoItself(name) <=> PutsIntoItself(name)
  BY DEF Ideal!PutsIntoItself, PutsIntoItself
<1>3. Expects(name) = <<"any", "list">>
  BY DEF Expects
<1>4. \A k \in {1, 2} : NodeOf(heap, loc.ds, k) # NULL
  <2>1. \A k \in DOMAIN Expects(name) : NodeOf(heap, loc.ds, 0 + k) # NULL
    BY DEF FitsIn
  <2>2. DOMAIN Expects(name) = {1, 2} /\ 0 + 1 = 1 /\ 0 + 2 = 2
    BY <1>3
  <2> QED
    BY <2>1, <2>2
<1> PICK x, y, i1, j1, i2, j2 : /\ x = loc["ds"] /\ y = loc_seen["ds"]
                                /\ i1 = heap[x].a /\ j1 = heap_seen[y].a
                                /\ i2 = heap[i1].b /\ j2 = heap_seen[j1].b
  OBVIOUS
<1>5. i1 \in OrNull(Nodes(heap)) /\ j1 = Name(id, i1)
  <2>1. "ds" \in DOMAIN loc
    BY <1>2 DEF Stacks
  <2> QED
    BY <1>1, <1>2, <2>1, ItemsSeen
<1>6. NodeOf(heap, x, 1) = i1 /\ NodeOf(heap_seen, y, 1) = j1
  BY NodeOf1
<1>7. i1 # NULL
  BY <1>4, <1>6
<1>8. /\ j1 # NULL /\ heap[i1].a \in DOMAIN heap /\ heap_seen[j1].a = Name(id, heap[i1].a)
      /\ i2 \in OrNull(Nodes(heap)) /\ j2 = Name(id, i2)
  BY <1>1, <1>2, <1>5, <1>7, ItemSeen
<1>9. NodeOf(heap, x, 2) = i2 /\ NodeOf(heap_seen, y, 2) = j2
  BY <1>7, <1>8, NodeOf2
<1>10. i2 # NULL
  BY <1>4, <1>9
<1>11. heap[i2].a \in DOMAIN heap /\ heap_seen[j2].a = Name(id, heap[i2].a)
  BY <1>1, <1>2, <1>8, <1>10, ItemSeen
<1> PICK p1, p2 : p1 = heap[i1].a /\ p2 = heap[i2].a
  OBVIOUS
<1>12. p2 \in ReachIn(heap, {p1}) <=> Name(id, p2) \in ReachIn(heap_seen, {Name(id, p1)})
  BY <1>1, <1>8, <1>11, NamedReachOne
<1>13. PutsIntoItself(name) <=> p2 \in ReachIn(heap, {p1})
  BY <1>6, <1>9 DEF PutsIntoItself
<1>14. Ideal!PutsIntoItself(name) <=> Name(id, p2) \in ReachIn(heap_seen, {Name(id, p1)})
  <2>1. Ideal!NodeOf(heap_seen, y, 1) = j1 /\ Ideal!NodeOf(heap_seen, y, 2) = j2
    BY <1>6, <1>9, ChecksSame
  <2>2. Ideal!PutsIntoItself(name) <=> heap_seen[j2].a \in Ideal!ReachIn(heap_seen, {heap_seen[j1].a})
    BY <2>1 DEF Ideal!PutsIntoItself
  <2> QED
    BY <1>8, <1>11, <2>2, ReachSame
<1> QED
  BY <1>12, <1>13, <1>14

(* What the program may call, seen from both sides *)
LEMMA StatementsSeen ==
  ASSUME Working, NEW o, NEW c, Ready(o, c), NEW name
  PROVE  Ideal!Statements(name) = Statements(name)
<1>1. /\ Intact(heap, loc, registers, bindings) /\ Alike(id, heap, heap_seen) /\ Naming(id, heap)
      /\ loc_seen = NamesOf(id, loc) /\ bindings_seen = NamesBound(id, bindings) /\ NULL \notin DOMAIN heap
  BY SeenFacts DEF Working
<1>2. /\ Words(heap, loc) /\ Stacks \subseteq DOMAIN loc /\ loc["ds"] \in Lists(heap) /\ loc["cs"] \in Lists(heap)
      /\ bindings \in [Symbol -> OrNull(DOMAIN heap)]
  BY <1>1 DEF Ready, Sane, Rooted, Knows, OrNull, Intact
<1>3. CASE name = "escaped-symbol"
  <2> SUFFICES ASSUME NEW ops PROVE ops \in Ideal!Statements(name) <=> ops \in Statements(name)
    OBVIOUS
  <2>1. ops \in Statements(name) <=> \E s \in Symbol : ops = escaped_symbol(s)
    BY <1>3 DEF Statements
  <2>2. ops \in Ideal!Statements(name) <=> \E s \in Symbol : ops = Ideal!escaped_symbol(s)
    BY <1>3 DEF Ideal!Statements
  <2> QED
    BY <2>1, <2>2, EscapedSame
<1>4. CASE name = "symbol"
  <2>1. ASSUME NEW s \in Symbol
        PROVE  Ideal!BoundIn(heap_seen, bindings_seen, Ideal!MeantIn(heap_seen, bindings_seen, s))
                 = BoundIn(heap, bindings, MeantIn(heap, bindings, s))
    BY <1>1, <1>2, BoundSeen, MeaningSame
  <2> SUFFICES ASSUME NEW ops PROVE ops \in Ideal!Statements(name) <=> ops \in Statements(name)
    OBVIOUS
  <2>2. ops \in Statements(name) <=> \E s \in Symbol : ops \in BoundIn(heap, bindings, MeantIn(heap, bindings, s))
    BY <1>4 DEF Statements
  <2>3. ops \in Ideal!Statements(name)
          <=> \E s \in Symbol : ops \in Ideal!BoundIn(heap_seen, bindings_seen, Ideal!MeantIn(heap_seen, bindings_seen, s))
    BY <1>4 DEF Ideal!Statements
  <2> QED
    BY <2>1, <2>2, <2>3
<1>5. CASE name \notin {"escaped-symbol", "symbol"}
  <2>1. Ideal!FitsIn(heap_seen, loc_seen.ds, 0, name) <=> FitsIn(heap, loc.ds, 0, name)
    <3>1. "ds" \in DOMAIN loc
      BY <1>2 DEF Stacks
    <3>2. KnowsItems(heap_seen, loc_seen, Context({}, <<>>, Expects(name)))
            <=> KnowsItems(heap, loc, Context({}, <<>>, Expects(name)))
      BY <1>1, <1>2, <3>1, ItemsSeen
    <3>3. FitsIn(heap, loc.ds, 0, name) <=> KnowsItems(heap, loc, Context({}, <<>>, Expects(name)))
      BY FitsMeans
    <3>4. FitsIn(heap_seen, loc_seen.ds, 0, name) <=> KnowsItems(heap_seen, loc_seen, Context({}, <<>>, Expects(name)))
      BY FitsMeans
    <3>5. Ideal!FitsIn(heap_seen, loc_seen.ds, 0, name) <=> FitsIn(heap_seen, loc_seen.ds, 0, name)
      BY ChecksSame
    <3> QED
      BY <3>2, <3>3, <3>4, <3>5
  <2>2. FitsIn(heap, loc.ds, 0, name) => (Ideal!PutsIntoItself(name) <=> PutsIntoItself(name))
    BY KnotSeen
  <2>3. Ideal!EmptyIn(heap_seen, loc_seen.cs) <=> EmptyIn(heap, loc.cs)
    <3> PICK x : x = loc["cs"]
      OBVIOUS
    <3>1. x \in DOMAIN heap /\ heap[x].type = "list" /\ heap[x].a \in OrNull(DOMAIN heap) /\ heap[x].b \in OrNull(DOMAIN heap)
      BY <1>2 DEF Lists, Words, Nodes, OrNull
    <3>2. EmptyIn(heap_seen, Name(id, x)) <=> EmptyIn(heap, x)
      BY <1>1, <3>1, IsASeen
    <3>3. loc_seen["cs"] = Name(id, x)
      BY <1>1, <1>2 DEF NamesOf, Stacks
    <3> QED
      BY <3>2, <3>3, ChecksSame
  <2>4. Ideal!Program(name) = Program(name)
    BY ProgramSame
  <2>5. Statements(name) = IF ~ FitsIn(heap, loc.ds, 0, name) THEN {}
                           ELSE IF ~ Knots /\ PutsIntoItself(name) THEN {}
                           ELSE IF name \in {"break", "loop"} /\ EmptyIn(heap, loc.cs) THEN {}
                           ELSE {Program(name)}
    BY <1>5 DEF Statements
  <2>6. Ideal!Statements(name) = IF ~ Ideal!FitsIn(heap_seen, loc_seen.ds, 0, name) THEN {}
                                 ELSE IF ~ Knots /\ Ideal!PutsIntoItself(name) THEN {}
                                 ELSE IF name \in {"break", "loop"} /\ Ideal!EmptyIn(heap_seen, loc_seen.cs) THEN {}
                                 ELSE {Ideal!Program(name)}
    BY <1>5 DEF Ideal!Statements
  <2> QED
    BY <2>1, <2>2, <2>3, <2>4, <2>5, <2>6
<1> QED
  BY <1>3, <1>4, <1>5

LEMMA CallSeen ==
  ASSUME Working, id' = Stays, NEW o, NEW c, Ready(o, c), Call, DOMAIN loc \subseteq Stacks \cup StillUsed(todo)
  PROVE  WorkInv' /\ Ideal!Call
<1>1. /\ process = "running" /\ todo = <<>> /\ UNCHANGED <<heap, loc, registers, bindings, allocating, process>>
      /\ calls < MaxCalls /\ calls' = calls + 1
  BY DEF Call, CallOf, Idle
<1>2. PICK name \in Calls : todo' \in Statements(name)
  BY DEF Call, CallOf
<1>3. (\E e, h, l, r, b : Works(e, h, l, r, b))' /\ NothingSeen
  BY <1>1, StillSeen
<1>4. Ideal!Statements(name) = Statements(name)
  BY StatementsSeen
<1>5. process_seen = "running" /\ process_seen' = process_seen
  BY <1>1 DEF process_seen
<1>6. Ideal!CallOf(name)
  BY <1>1, <1>2, <1>3, <1>4, <1>5 DEF Ideal!CallOf, Ideal!Idle, NothingSeen
<1>7. WorkInv'
  <2>1. StillUsed(todo) = {}
    BY <1>1 DEF StillUsed
  <2> QED
    BY <1>1, <1>3, <2>1 DEF WorkInv
<1> QED
  BY <1>6, <1>7 DEF Ideal!Call

LEMMA ReturnSeen ==
  ASSUME Working, id' = Stays, Return, DOMAIN loc \subseteq Stacks \cup StillUsed(todo)
  PROVE  WorkInv' /\ Ideal!Return
<1>1. /\ process = "running" /\ process' = "returned"
      /\ UNCHANGED <<heap, loc, registers, bindings, todo, allocating, calls>> /\ todo = <<>>
  BY DEF Return, Idle
<1>2. (\E e, h, l, r, b : Works(e, h, l, r, b))' /\ NothingSeen
  BY <1>1, StillSeen
<1>3. process_seen = "running" /\ process_seen' = "returned"
  BY <1>1 DEF process_seen
<1>4. WorkInv'
  BY <1>1, <1>2 DEF WorkInv
<1> QED
  BY <1>1, <1>2, <1>3, <1>4 DEF Ideal!Return, Ideal!Idle, NothingSeen

-----------------------------------------------------------------------------
(* TwoSpace implements ObjectHeap.                                         *)

(* The machine stays as it is. *)
LEMMA KeptSame ==
  ASSUME UNCHANGED <<heap, loc, registers, bindings, todo, current_heap, heap_position, root, frames, id>>,
         NEW e, NEW h, NEW l, NEW r, NEW b, Works(e, h, l, r, b)
  PROVE  Works(e, h, l, r, b)'
BY DEF Works, Asks, Copying, KeptNames

(* Nothing but the process changes. *)
LEMMA OnlyProcess ==
  ASSUME PointerSize = 4, WorkInv,
         UNCHANGED <<heap, loc, registers, bindings, todo, current_heap, heap_position, root, frames, id>>
  PROVE  WorkInv' /\ NothingSeen
<1> PICK e, h, l, r, b : Works(e, h, l, r, b)
  BY DEF WorkInv
<1>1. Works(e, h, l, r, b)'
  BY KeptSame
<1>2. Shows(e, h, l, r, b) /\ Shows(e, h, l, r, b)'
  BY <1>1, WorksShows, WorksShowsNext
<1>3. NothingSeen
  BY <1>2, ShowsSame
<1>4. WorkInv'
  BY <1>1 DEF WorkInv
<1> QED
  BY <1>3, <1>4

(* The process ends because there is no room. *)
LEMMA OutSeen ==
  ASSUME NothingSeen, UNCHANGED <<todo, allocating, calls>>, allocating, process = "running",
         process' \in {"out_of_memory", "overrun"}
  PROVE  Ideal!OutOfMemory
BY DEF NothingSeen, process_seen, Ideal!OutOfMemory

LEMMA RunOutSeen ==
  ASSUME PointerSize = 4, WorkInv, RunOut
  PROVE  WorkInv' /\ Ideal!OutOfMemory
<1>1. /\ UNCHANGED <<heap, loc, registers, bindings, todo, allocating, calls>>
      /\ UNCHANGED <<current_heap, heap_position, root, frames, id>>
      /\ process = "running" /\ allocating /\ process' = "out_of_memory"
  BY DEF RunOut, OutOfMemory, spaceVars
<1>2. WorkInv' /\ NothingSeen
  BY <1>1, OnlyProcess
<1> QED
  BY <1>1, <1>2, OutSeen

LEMMA EndedSeen ==
  ASSUME PointerSize = 4, WorkInv, UNCHANGED vars
  PROVE  WorkInv' /\ UNCHANGED Ideal!machineVars
<1>1. UNCHANGED <<heap, loc, registers, bindings, todo, allocating, process, calls,
                  current_heap, heap_position, root, frames, id>>
  BY DEF vars, machineVars, spaceVars
<1>2. WorkInv' /\ NothingSeen
  BY <1>1, OnlyProcess
<1>3. process_seen' = process_seen
  BY <1>1 DEF process_seen
<1> QED
  BY <1>1, <1>2, <1>3 DEF NothingSeen, Ideal!machineVars

(* Chunks are copied. *)
LEMMA MoveSeen ==
  ASSUME SetupFits, PointerSize = 4, SpaceInv, WorkInv, Null \/ Known \/ Enter \/ Leave
  PROVE  WorkInv' /\ (Ideal!OutOfMemory \/ UNCHANGED Ideal!machineVars)
<1> PICK e, h, l, r, b : Works(e, h, l, r, b)
  BY DEF WorkInv
<1>1. Works(e, h, l, r, b)'
  BY MoveHidden
<1>2. Shows(e, h, l, r, b) /\ Shows(e, h, l, r, b)'
  BY <1>1, WorksShows, WorksShowsNext
<1>3. NothingSeen
  BY <1>2, ShowsSame
<1>4. UNCHANGED <<todo, allocating, calls>> /\ DOMAIN loc' = DOMAIN loc
  BY DEF Null, Known, Enter, Leave, Stored, StoreInRoot
<1>5. root # 0 /\ process = "running" /\ allocating
  BY DEF Null, Known, Enter, Leave, Pointer, Moving, SpaceInv, Contained
<1>6. process' \in {"running", "overrun"}
  <2>1. SpaceInv'
    BY MoveFits
  <2>2. process' \in {process, "overrun", "unknown_type"}
    BY DEF Null, Known, Enter, Leave, Stored
  <2> QED
    BY <1>5, <2>1, <2>2 DEF SpaceInv, Processes
<1>7. WorkInv'
  BY <1>1, <1>4 DEF WorkInv
<1>8. CASE process' = "overrun"
  BY <1>3, <1>4, <1>5, <1>7, <1>8, OutSeen
<1>9. CASE process' = "running"
  <2>1. process_seen' = process_seen
    BY <1>5, <1>9 DEF process_seen
  <2> QED
    BY <1>3, <1>4, <1>7, <2>1 DEF NothingSeen, Ideal!machineVars
<1> QED
  BY <1>6, <1>8, <1>9

(* A collection begins or ends. *)
LEMMA CollectionSeen ==
  ASSUME SetupFits, PointerSize = 4, SpaceInv, WorkInv, StartCollection \/ EndCollection
  PROVE  WorkInv' /\ UNCHANGED Ideal!machineVars
<1> PICK e, h, l, r, b : Works(e, h, l, r, b)
  BY DEF WorkInv
<1>1. UNCHANGED <<todo, allocating, calls, loc, process>>
  BY DEF StartCollection, EndCollection, machineVars
<1>2. (\E e2, h2, l2, r2, b2 : Works(e2, h2, l2, r2, b2))' /\ Shows(e, h, l, r, b)'
  <2>1. CASE StartCollection
    BY <2>1, StartHidden, WorksShowsNext
  <2>2. CASE EndCollection
    BY <2>2, EndHidden
  <2> QED
    BY <2>1, <2>2
<1>3. Shows(e, h, l, r, b)
  BY WorksShows
<1>4. NothingSeen
  BY <1>2, <1>3, ShowsSame
<1>5. WorkInv'
  BY <1>1, <1>2 DEF WorkInv
<1>6. process_seen' = process_seen
  BY <1>1 DEF process_seen
<1> QED
  BY <1>1, <1>4, <1>5, <1>6 DEF NothingSeen, Ideal!machineVars

(* The program takes a step. *)
LEMMA WorkSeen ==
  ASSUME SetupFits, PointerSize = 4, SpaceInv, WorkInv, Work, UNCHANGED spaceVars, id' = Stays
  PROVE  WorkInv' /\ Ideal!Work
<1>1. root = 0
  <2> SUFFICES ASSUME root # 0 PROVE FALSE
    OBVIOUS
  <2>1. allocating /\ todo # <<>>
    BY AsksFacts DEF SpaceInv, Contained, Collecting
  <2> QED
    BY <2>1 DEF Work, Operation, Pop, Fetch, Keep, BindSymbol, Rewinds, Hold, In, Call, CallOf, Return, Idle
<1>2. Working /\ DOMAIN loc \subseteq Stacks \cup StillUsed(todo)
  BY <1>1 DEF Working, WorkInv
<1>3. MachineFits
  BY <1>1 DEF SpaceInv, Contained
<1>4. ~ allocating
  BY <1>3, WorkFits
<1> PICK o : /\ Sane(heap, loc, registers, bindings, o)
             /\ Booting(loc, registers, todo) \/ \E c : Ready(o, c)
  BY <1>3, <1>4 DEF MachineFits, Settled
<1>5. CASE Booting(loc, registers, todo)
  <2>1. todo # <<>> /\ now.op = "new"
    BY <1>5, BootNew
  <2>2. Hold
    BY <2>1 DEF Work, Operation, Pop, Fetch, Keep, BindSymbol, Rewinds, In, Call, CallOf, Return, Idle
  <2>3. HoldDrops
    BY <1>5, <2>2, BootGives
  <2>4. WorkInv' /\ Ideal!Hold
    BY <1>2, <2>2, <2>3, HoldSeen
  <2> QED
    BY <2>4 DEF Ideal!Work, Ideal!Operation
<1>6. ASSUME NEW c, Ready(o, c) PROVE WorkInv' /\ Ideal!Work
  <2>1. CASE Pop
    BY <1>2, <1>6, <2>1, PopSeen DEF Ideal!Work, Ideal!Operation
  <2>2. CASE Fetch
    BY <1>2, <1>6, <2>2, FetchSeen DEF Ideal!Work, Ideal!Operation
  <2>3. CASE Keep
    BY <1>2, <1>6, <2>3, KeepSeen DEF Ideal!Work, Ideal!Operation
  <2>4. CASE BindSymbol
    BY <1>2, <1>6, <2>4, BindSeen DEF Ideal!Work, Ideal!Operation
  <2>5. CASE Rewinds
    BY <1>2, <1>6, <2>5, RewindSeen DEF Ideal!Work, Ideal!Operation
  <2>6. CASE Hold
    <3>1. HoldDrops
      BY <1>2, <1>6, <2>6, HoldGives
    <3>2. WorkInv' /\ Ideal!Hold
      BY <1>2, <2>6, <3>1, HoldSeen
    <3> QED
      BY <3>2 DEF Ideal!Work, Ideal!Operation
  <2>7. CASE Call
    BY <1>2, <1>6, <2>7, CallSeen DEF Ideal!Work
  <2>8. CASE Return
    BY <1>2, <2>8, ReturnSeen DEF Ideal!Work
  <2> QED
    BY <2>1, <2>2, <2>3, <2>4, <2>5, <2>6, <2>7, <2>8 DEF Work, Operation
<1> QED
  BY <1>5, <1>6

LEMMA NothingThere == ASSUME NEW f, DOMAIN f = {}, f = [x \in DOMAIN f |-> f[x]] PROVE f = <<>>
<1>1. DOMAIN f = 1 .. 0
  OBVIOUS
<1>2. f \in Seq({}) /\ Len(f) = 0
  BY <1>1
<1>3. <<>> \in Seq({}) /\ Len(<<>>) = 0
  OBVIOUS
<1> QED
  BY <1>2, <1>3, SameSequence

(* There are no chunks yet, and none to be seen. *)
LEMMA InitSeen ==
  ASSUME SetupFits, PointerSize = 4, SpaceInit
  PROVE  WorkInv /\ Ideal!Init
<1>1. /\ heap = <<>> /\ loc = [x \in {"cs", "ds"} |-> NULL] /\ registers = <<>>
      /\ bindings = [s \in Symbol |-> NULL]
      /\ todo = <<New("list", "cs", 0), New("list", "ds", 0)>> \o Setup /\ allocating = FALSE
      /\ process = "running" /\ calls = 0 /\ root = 0 /\ frames = <<>> /\ id = <<>>
  BY DEF SpaceInit, MachineInit
<1>2. DOMAIN heap = {} /\ DOMAIN id = {} /\ DOMAIN loc = Stacks
  BY <1>1 DEF Stacks
<1>3. Intact(heap, loc, registers, bindings) /\ IsFiniteSet({})
  <2>1. IsFiniteSet({})
    BY FS_EmptySet
  <2>2. registers \in Seq(DOMAIN heap)
    BY <1>1
  <2>3. Fine(heap)
    <3>1. SpaceInv
      BY SpaceInvInit
    <3>2. \E o : Sane(heap, loc, registers, bindings, o)
      BY <1>1, <3>1, MachineSane DEF SpaceInv, Contained
    <3> QED
      BY <3>2, SaneFine
  <2> QED
    BY <1>1, <1>2, <2>1, <2>2, <2>3 DEF Intact, OrNull
<1>4. Naming(id, heap)
  BY <1>2 DEF Naming
<1>5. Trimmed(heap, loc, registers, bindings)
  BY <1>2 DEF Trimmed, Keeps
<1>6. Works(id, heap, loc, registers, bindings)
  BY <1>1, <1>3, <1>4, <1>5 DEF Works
<1>7. WorkInv
  BY <1>2, <1>6 DEF WorkInv
<1>8. Shows(id, heap, loc, registers, bindings)
  BY <1>6, WorksShows
<1>9. heap_seen = <<>>
  <2> PICK g : g = heap_seen
    OBVIOUS
  <2>1. g = [i \in {id[x] : x \in DOMAIN heap} |-> g[i]]
    BY <1>8 DEF Shows, Alike
  <2>2. {id[x] : x \in DOMAIN heap} = {}
    BY <1>2
  <2>3. DOMAIN g = {} /\ g = [i \in DOMAIN g |-> g[i]]
    BY <2>1, <2>2
  <2> QED
    BY <2>3, NothingThere
<1>10. registers_seen = <<>>
  <2> PICK g : g = NamesOf(id, registers)
    OBVIOUS
  <2>1. DOMAIN g = {} /\ g = [i \in DOMAIN g |-> g[i]]
    BY <1>1 DEF NamesOf
  <2> QED
    BY <1>8, <2>1, NothingThere DEF Shows
<1>11. loc_seen = [x \in {"cs", "ds"} |-> NULL]
  BY <1>1, <1>8 DEF Shows, NamesOf, Name
<1>12. bindings_seen = [s \in Symbol |-> NULL]
  BY <1>1, <1>8 DEF Shows, Name
<1>13. process_seen = "running"
  BY <1>1 DEF process_seen
<1> QED
  BY <1>1, <1>7, <1>9, <1>10, <1>11, <1>12, <1>13 DEF Ideal!Init, Ideal!MachineInit, Ideal!New, New, Ideal!NULL, NULL

LEMMA StepSeen ==
  ASSUME SetupFits, PointerSize = 4, SpaceInv, WorkInv, [Next]_vars
  PROVE  WorkInv' /\ [Ideal!Next]_(Ideal!machineVars)
<1>1. CASE Work /\ UNCHANGED spaceVars /\ id' = Stays
  BY <1>1, WorkSeen DEF Ideal!Next
<1>2. CASE Allocate
  BY <1>2, AllocateSeen DEF Ideal!Next
<1>3. CASE RunOut
  BY <1>3, RunOutSeen DEF Ideal!Next
<1>4. CASE Null \/ Known \/ Enter \/ Leave
  BY <1>4, MoveSeen DEF Ideal!Next
<1>5. CASE StartCollection \/ EndCollection
  BY <1>5, CollectionSeen
<1>6. CASE UNCHANGED vars
  BY <1>6, EndedSeen
<1> QED
  BY <1>1, <1>2, <1>3, <1>4, <1>5, <1>6 DEF Next, Ended

(* To its user, a memory whose chunks are moved about is one where every   *)
(* chunk stays where it is, keeps its contents and its identity, and a new *)
(* one is nobody else's (move_chunk, collect_garbage, allocate_chunk).     *)
THEOREM NothingMoves ==
  ASSUME SetupFits, PointerSize = 4
  PROVE  Spec => ImplementsObjectHeap
<1>1. SpaceInit => WorkInv /\ Ideal!Init
  BY InitSeen
<1>2. SpaceInv /\ WorkInv /\ [Next]_vars => WorkInv' /\ [Ideal!Next]_(Ideal!machineVars)
  BY StepSeen
<1>3. Spec => []SpaceInv
  BY SpaceInvariant
<1> QED
  BY <1>1, <1>2, <1>3, PTL DEF Spec, ImplementsObjectHeap, Ideal!Spec

-----------------------------------------------------------------------------
(* A sum over a set is a number of pairs.                                  *)

Cells(S, f) == UNION {{x} \X (1 .. f[x]) : x \in S}

(* The recursive function of a fold that adds up f *)
AddsUp(S, f, R) ==
  R = [s \in SUBSET S |-> IF s = {} THEN 0
                          ELSE R[s \ {CHOOSE x \in s : TRUE}] + f[CHOOSE x \in s : TRUE]]

LEMMA OneColumn ==
  ASSUME NEW x, NEW n \in Nat
  PROVE  IsFiniteSet({x} \X (1 .. n)) /\ Cardinality({x} \X (1 .. n)) = n
<1>1. IsFiniteSet({x}) /\ Cardinality({x}) = 1
  BY FS_Singleton
<1>2. IsFiniteSet(1 .. n) /\ Cardinality(1 .. n) = n
  BY FS_Interval
<1>3. /\ IsFiniteSet({x} \X (1 .. n))
      /\ Cardinality({x} \X (1 .. n)) = Cardinality({x}) * Cardinality(1 .. n)
  BY <1>1, <1>2, FS_Product
<1> QED
  BY <1>1, <1>2, <1>3

LEMMA CellsFinite ==
  ASSUME NEW S, IsFiniteSet(S), NEW f, \A x \in S : f[x] \in Nat
  PROVE  IsFiniteSet(Cells(S, f)) /\ Cardinality(Cells(S, f)) \in Nat
<1> DEFINE Column(x) == {x} \X (1 .. f[x])
<1> PICK T : T = {Column(x) : x \in S}
  OBVIOUS
<1>1. IsFiniteSet(T)
  <2> PICK m : m = [x \in S |-> Column(x)]
    OBVIOUS
  <2>1. m \in Surjection(S, T)
    <3> HIDE DEF Column
    <3> QED
      BY DEF Surjection
  <2> QED
    BY <2>1, FS_Surjection
<1>2. IsFiniteSet(Cells(S, f))
  <2>0. \A x \in S : IsFiniteSet(Column(x))
    BY OneColumn
  <2>1. \A C \in T : IsFiniteSet(C)
    <3> HIDE DEF Column
    <3> QED
      BY <2>0
  <2>2. Cells(S, f) = UNION T
    BY DEF Cells
  <2> HIDE DEF Column
  <2> QED
    BY <1>1, <2>1, <2>2, FS_UNION
<1> QED
  BY <1>2, FS_CardinalityType

LEMMA CellsAdd ==
  ASSUME NEW S, IsFiniteSet(S), NEW f, \A y \in S : f[y] \in Nat, NEW x \in S
  PROVE  Cardinality(Cells(S, f)) = Cardinality(Cells(S \ {x}, f)) + f[x]
<1> PICK A, B, C : A = Cells(S, f) /\ B = Cells(S \ {x}, f) /\ C = {x} \X (1 .. f[x])
  OBVIOUS
<1>1. IsFiniteSet(S \ {x})
  BY FS_Difference
<1>2. IsFiniteSet(B) /\ Cardinality(B) \in Nat
  BY <1>1, CellsFinite
<1>3. IsFiniteSet(C) /\ Cardinality(C) = f[x] /\ f[x] \in Nat
  BY OneColumn
<1>4. A = B \cup C
  BY DEF Cells
<1>5. B \cap C = {}
  <2> SUFFICES ASSUME NEW c \in B, c \in C PROVE FALSE
    OBVIOUS
  <2>1. c[1] = x
    OBVIOUS
  <2>2. \E y \in S \ {x} : c \in {y} \X (1 .. f[y])
    BY DEF Cells
  <2> QED
    BY <2>1, <2>2
<1>6. Cardinality(B \cap C) = 0
  BY <1>5, FS_EmptySet
<1>7. Cardinality(B \cup C) = Cardinality(B) + Cardinality(C) - Cardinality(B \cap C)
  BY <1>2, <1>3, FS_Union
<1> QED
  BY <1>2, <1>3, <1>4, <1>6, <1>7

LEMMA CellsNone == ASSUME NEW f PROVE Cardinality(Cells({}, f)) = 0
<1>1. Cells({}, f) = {}
  BY DEF Cells
<1> QED
  BY <1>1, FS_EmptySet

LEMMA CellsAreAdded ==
  ASSUME NEW S, IsFiniteSet(S), NEW f, \A x \in S : f[x] \in Nat
  PROVE  AddsUp(S, f, [s \in SUBSET S |-> Cardinality(Cells(s, f))])
<1> PICK C : C = [s \in SUBSET S |-> Cardinality(Cells(s, f))]
  OBVIOUS
<1>1. ASSUME NEW s \in SUBSET S, s # {}
      PROVE  Cardinality(Cells(s, f)) = C[s \ {CHOOSE x \in s : TRUE}] + f[CHOOSE x \in s : TRUE]
  <2> PICK x : x = CHOOSE y \in s : TRUE
    OBVIOUS
  <2>1. x \in s
    BY <1>1
  <2>2. IsFiniteSet(s)
    BY FS_Subset
  <2>3. Cardinality(Cells(s, f)) = Cardinality(Cells(s \ {x}, f)) + f[x]
    BY <2>1, <2>2, CellsAdd
  <2> QED
    BY <2>3
<1>2. C = [s \in SUBSET S |-> IF s = {} THEN 0
                              ELSE C[s \ {CHOOSE x \in s : TRUE}] + f[CHOOSE x \in s : TRUE]]
  BY <1>1, CellsNone
<1> QED
  BY <1>2 DEF AddsUp

(* ... and by no other function *)
LEMMA AddsOnce ==
  ASSUME NEW S, IsFiniteSet(S), NEW f, \A x \in S : f[x] \in Nat, NEW R, AddsUp(S, f, R)
  PROVE  R[S] = Cardinality(Cells(S, f))
<1> PICK C : C = [s \in SUBSET S |-> Cardinality(Cells(s, f))]
  OBVIOUS
<1>1. AddsUp(S, f, C)
  BY CellsAreAdded
<1>2. \A s \in SUBSET S : IsFiniteSet(s) /\ Cardinality(s) \in Nat
  BY FS_Subset, FS_CardinalityType
<1> SUFFICES ASSUME R[S] # C[S] PROVE FALSE
  OBVIOUS
<1> DEFINE J == {Cardinality(s) : s \in {t \in SUBSET S : R[t] # C[t]}}
<1>3. J \subseteq Nat
  BY <1>2
<1>4. Cardinality(S) \in J
  OBVIOUS
<1>5. PICK j \in J : \A i \in J : j <= i
  <2>1. J \in SUBSET Nat /\ J # {}
    BY <1>3, <1>4
  <2> HIDE DEF J
  <2> QED
    BY <2>1, Smallest
<1>6. PICK s \in SUBSET S : R[s] # C[s] /\ j = Cardinality(s)
  BY <1>5
<1>7. s # {}
  BY <1>1, <1>6 DEF AddsUp
<1> PICK x : x = CHOOSE y \in s : TRUE
  OBVIOUS
<1>8. x \in s
  BY <1>7
<1>9. Cardinality(s \ {x}) = j - 1 /\ j \in Nat
  BY <1>2, <1>6, <1>8, FS_RemoveElement
<1>10. R[s \ {x}] = C[s \ {x}]
  <2> SUFFICES ASSUME R[s \ {x}] # C[s \ {x}] PROVE FALSE
    OBVIOUS
  <2>1. Cardinality(s \ {x}) \in J
    OBVIOUS
  <2> HIDE DEF J
  <2> QED
    BY <1>5, <1>9, <2>1
<1>11. R[s] = R[s \ {x}] + f[x] /\ C[s] = C[s \ {x}] + f[x]
  BY <1>1, <1>7 DEF AddsUp
<1> QED
  BY <1>6, <1>10, <1>11

(* LiveBytes counts the bytes of what is alive. *)
LEMMA LiveCounted ==
  ASSUME IsFiniteSet(Range(id)), NEW f, \A i \in Range(id) : f[i] = sizeof_chunk(heap[Holder(i)].type)
  PROVE  LiveBytes = Cardinality(Cells(Range(id), f))
<1> PICK S : S = Range(id)
  OBVIOUS
<1>1. \A i \in S : f[i] \in Nat
  BY SizeIs
<1> DEFINE Fold(R) == R = [s \in SUBSET S |->
                             IF s = {} THEN 0
                             ELSE R[s \ {CHOOSE x \in s : TRUE}]
                                  + sizeof_chunk(heap[Holder(CHOOSE x \in s : TRUE)].type)]
<1>2. LiveBytes = (CHOOSE R : Fold(R))[S]
  BY DEF LiveBytes, FoldSet, MapThenFoldSet
<1>3. \A R : Fold(R) <=> AddsUp(S, f, R)
  <2>1. ASSUME NEW s \in SUBSET S, s # {} PROVE f[CHOOSE x \in s : TRUE] = sizeof_chunk(heap[Holder(CHOOSE x \in s : TRUE)].type)
    <3>1. (CHOOSE x \in s : TRUE) \in S
      BY <2>1
    <3> QED
      BY <3>1
  <2> QED
    BY <2>1 DEF AddsUp
<1>4. \E R : Fold(R)
  <2>1. AddsUp(S, f, [s \in SUBSET S |-> Cardinality(Cells(s, f))])
    BY <1>1, CellsAreAdded
  <2> HIDE DEF Fold
  <2> QED
    BY <1>3, <2>1
<1> PICK R : R = CHOOSE Q : Fold(Q)
  OBVIOUS
<1>5. Fold(R)
  <2> HIDE DEF Fold
  <2> QED
    BY <1>4
<1>6. AddsUp(S, f, R)
  <2> HIDE DEF Fold
  <2> QED
    BY <1>3, <1>5
<1>7. R[S] = Cardinality(Cells(S, f))
  BY <1>1, <1>6, AddsOnce
<1>8. LiveBytes = R[S]
  <2> HIDE DEF Fold
  <2> QED
    BY <1>2
<1> QED
  BY <1>7, <1>8

-----------------------------------------------------------------------------
(* Chunks and the bytes they take.                                         *)

(* The chunks D of h lie between c and n, and no two of them overlap. *)
Laid(D, h, c, n) ==
  /\ \A x \in D : c <= x /\ x + sizeof_chunk(h[x].type) <= n
  /\ \A x, y \in D : x < y => x + sizeof_chunk(h[x].type) <= y

(* Between c and n there is nothing else. *)
Packed(D, h, c, n) == \A k \in c .. n - 1 : \E x \in D : x <= k /\ k < x + sizeof_chunk(h[x].type)

(* I names chunks of D, and f is how long they are. *)
Measures(f, I, who, D, h) ==
  /\ \A i \in I : who[i] \in D /\ f[i] = sizeof_chunk(h[who[i]].type)
  /\ \A i, j \in I : who[i] = who[j] => i = j

LEMMA CellIs ==
  ASSUME NEW I, NEW f, NEW q \in Cells(I, f)
  PROVE  q = <<q[1], q[2]>> /\ q[1] \in I /\ q[2] \in 1 .. f[q[1]]
<1> PICK i \in I : q \in {i} \X (1 .. f[i])
  BY DEF Cells
<1> QED
  OBVIOUS

LEMMA LaidBytes ==
  ASSUME NEW D, D \subseteq Nat, NEW h, NEW c \in Nat, NEW n \in Nat, Laid(D, h, c, n),
         NEW I, NEW f, NEW who, Measures(f, I, who, D, h),
         NEW m, m = [q \in Cells(I, f) |-> who[q[1]] + q[2] - 1]
  PROVE  m \in Injection(Cells(I, f), c .. n - 1)
<1>1. ASSUME NEW q \in Cells(I, f)
      PROVE  /\ q[1] \in I /\ q[2] \in Nat /\ q[2] >= 1 /\ q[2] <= sizeof_chunk(h[who[q[1]]].type)
             /\ who[q[1]] \in D /\ who[q[1]] \in Nat /\ q = <<q[1], q[2]>>
             /\ sizeof_chunk(h[who[q[1]]].type) \in Nat
  <2>1. sizeof_chunk(h[who[q[1]]].type) \in Nat
    BY SizeIs
  <2>2. q[1] \in I /\ q[2] \in 1 .. f[q[1]] /\ q = <<q[1], q[2]>>
    BY CellIs
  <2> QED
    BY <2>1, <2>2 DEF Measures
<1>2. ASSUME NEW q \in Cells(I, f) PROVE m[q] \in c .. n - 1
  <2> PICK x, k, size : x = who[q[1]] /\ k = q[2] /\ size = sizeof_chunk(h[x].type)
    OBVIOUS
  <2>1. x \in D /\ x \in Nat /\ k \in Nat /\ k >= 1 /\ k <= size /\ size \in Nat
    BY <1>1
  <2>2. c <= x /\ x + size <= n
    BY <2>1 DEF Laid
  <2>3. m[q] = x + k - 1
    OBVIOUS
  <2> QED
    BY <2>1, <2>2, <2>3
<1>3. ASSUME NEW q \in Cells(I, f), NEW p \in Cells(I, f), m[q] = m[p] PROVE q = p
  <2> PICK x, k, size : x = who[q[1]] /\ k = q[2] /\ size = sizeof_chunk(h[x].type)
    OBVIOUS
  <2> PICK y, j, span : y = who[p[1]] /\ j = p[2] /\ span = sizeof_chunk(h[y].type)
    OBVIOUS
  <2>1. x \in D /\ x \in Nat /\ k \in Nat /\ k >= 1 /\ k <= size /\ size \in Nat
    BY <1>1
  <2>2. y \in D /\ y \in Nat /\ j \in Nat /\ j >= 1 /\ j <= span /\ span \in Nat
    BY <1>1
  <2>3. x + k - 1 = y + j - 1
    BY <1>3
  <2>4. (x < y => x + size <= y) /\ (y < x => y + span <= x)
    BY <2>1, <2>2 DEF Laid
  <2>5. x = y
    BY <2>1, <2>2, <2>3, <2>4
  <2>6. k = j
    BY <2>1, <2>2, <2>3, <2>5
  <2>7. q[1] = p[1]
    BY <1>1, <2>5 DEF Measures
  <2>8. q = <<q[1], q[2]>> /\ p = <<p[1], p[2]>>
    BY <1>1
  <2> QED
    BY <2>6, <2>7, <2>8
<1>4. m \in [Cells(I, f) -> c .. n - 1]
  BY <1>2
<1> QED
  BY <1>3, <1>4 DEF Injection, IsInjective

(* Chunks that do not overlap fit in. *)
LEMMA LaidFit ==
  ASSUME NEW D, D \subseteq Nat, NEW h, NEW c \in Nat, NEW n \in Nat, c <= n, Laid(D, h, c, n),
         NEW I, NEW f, NEW who, Measures(f, I, who, D, h)
  PROVE  Cardinality(Cells(I, f)) <= n - c
<1> PICK m : m = [q \in Cells(I, f) |-> who[q[1]] + q[2] - 1]
  OBVIOUS
<1> PICK C, B : C = Cells(I, f) /\ B = c .. n - 1
  OBVIOUS
<1>1. m \in Injection(C, B)
  BY LaidBytes
<1>2. IsFiniteSet(B) /\ Cardinality(B) = n - c
  <2>1. n - 1 \in Int /\ c \in Int
    OBVIOUS
  <2>2. IsFiniteSet(B) /\ Cardinality(B) = IF c > n - 1 THEN 0 ELSE n - 1 - c + 1
    BY <2>1, FS_Interval
  <2> QED
    BY <2>2
<1>3. Cardinality(C) <= Cardinality(B)
  BY <1>1, <1>2, FS_Injection
<1> QED
  BY <1>2, <1>3

(* Between c and n there is nothing but what I names. *)
Tiles(D, h, c, n, I, f, who) ==
  /\ D \subseteq Nat /\ c \in Nat /\ n \in Nat /\ c <= n
  /\ Laid(D, h, c, n) /\ Packed(D, h, c, n)
  /\ Measures(f, I, who, D, h) /\ \A x \in D : \E i \in I : who[i] = x

(* Then it fills the room. *)
LEMMA PackedFill ==
  ASSUME NEW D, NEW h, NEW c, NEW n, NEW I, NEW f, NEW who, Tiles(D, h, c, n, I, f, who)
  PROVE  Cardinality(Cells(I, f)) = n - c
<1> /\ D \subseteq Nat /\ c \in Nat /\ n \in Nat /\ c <= n /\ Laid(D, h, c, n) /\ Packed(D, h, c, n)
    /\ Measures(f, I, who, D, h) /\ \A x \in D : \E i \in I : who[i] = x
  BY DEF Tiles
<1> PICK m : m = [q \in Cells(I, f) |-> who[q[1]] + q[2] - 1]
  OBVIOUS
<1> PICK C, B : C = Cells(I, f) /\ B = c .. n - 1
  OBVIOUS
<1>1. m \in Injection(C, B)
  <2>1. m \in Injection(Cells(I, f), c .. n - 1)
    BY ONLY D \subseteq Nat, c \in Nat, n \in Nat, Laid(D, h, c, n), Measures(f, I, who, D, h),
            m = [q \in Cells(I, f) |-> who[q[1]] + q[2] - 1], LaidBytes
  <2> QED
    BY <2>1
<1>2. IsFiniteSet(B) /\ Cardinality(B) = n - c
  <2>1. n - 1 \in Int /\ c \in Int
    OBVIOUS
  <2>2. IsFiniteSet(B) /\ Cardinality(B) = IF c > n - 1 THEN 0 ELSE n - 1 - c + 1
    BY <2>1, FS_Interval
  <2> QED
    BY <2>2
<1>3. ASSUME NEW k \in B PROVE \E q \in C : m[q] = k
  <2>1. PICK x \in D : x <= k /\ k < x + sizeof_chunk(h[x].type)
    BY DEF Packed
  <2>2. PICK i \in I : who[i] = x
    OBVIOUS
  <2>3. f[i] = sizeof_chunk(h[x].type) /\ f[i] \in Nat
    BY <2>2, SizeIs DEF Measures
  <2> PICK j : j = k - x + 1
    OBVIOUS
  <2>4. j \in 1 .. f[i] /\ x + j - 1 = k
    BY <2>1, <2>3
  <2>5. <<i, j>> \in C
    BY <2>4 DEF Cells
  <2>6. m[<<i, j>>] = k
    BY <2>2, <2>4, <2>5
  <2> QED
    BY <2>5, <2>6
<1>4. m \in Surjection(C, B)
  BY <1>1, <1>3 DEF Surjection, Injection
<1>5. Cardinality(C) = Cardinality(B)
  BY <1>1, <1>2, <1>4, FS_Injection
<1> QED
  BY <1>2, <1>5

-----------------------------------------------------------------------------
(* The types of chunks.                                                    *)

(* A chunk of g that is one of h has the type it has there. *)
TypesStay(g, h) == \A x \in DOMAIN g : x \in DOMAIN h => g[x].type = h[x].type

LEMMA WritingKeepsTypes ==
  ASSUME NEW h, Records(h), NEW p, NEW v
  PROVE  /\ Records(PutA(h, p, v)) /\ TypesStay(PutA(h, p, v), h) /\ DOMAIN PutA(h, p, v) = DOMAIN h
         /\ Records(PutB(h, p, v)) /\ TypesStay(PutB(h, p, v), h) /\ DOMAIN PutB(h, p, v) = DOMAIN h
<1>1. \A x \in DOMAIN h : h[x] = [type |-> h[x].type, a |-> h[x].a, b |-> h[x].b]
  BY DEF Records, Record
<1>2. DOMAIN [h EXCEPT ![p].a = v] = DOMAIN h /\ DOMAIN [h EXCEPT ![p].b = v] = DOMAIN h
  OBVIOUS
<1>3. ASSUME NEW x \in DOMAIN h
      PROVE  /\ [h EXCEPT ![p].a = v][x] = Record([h EXCEPT ![p].a = v][x])
             /\ [h EXCEPT ![p].a = v][x].type = h[x].type
  BY <1>1 DEF Record
<1>4. ASSUME NEW x \in DOMAIN h
      PROVE  /\ [h EXCEPT ![p].b = v][x] = Record([h EXCEPT ![p].b = v][x])
             /\ [h EXCEPT ![p].b = v][x].type = h[x].type
  BY <1>1 DEF Record
<1> QED
  BY <1>2, <1>3, <1>4 DEF Records, TypesStay, PutA, PutB

LEMMA WritingTwiceKeepsTypes ==
  ASSUME NEW h, Records(h), NEW p, NEW v, NEW q, NEW w
  PROVE  /\ TypesStay(PutB(PutA(h, p, v), q, w), h) /\ DOMAIN PutB(PutA(h, p, v), q, w) = DOMAIN h
         /\ TypesStay(PutB(PutB(h, p, v), q, w), h) /\ DOMAIN PutB(PutB(h, p, v), q, w) = DOMAIN h
<1> PICK g, f : g = PutA(h, p, v) /\ f = PutB(h, p, v)
  OBVIOUS
<1>1. /\ Records(g) /\ TypesStay(g, h) /\ DOMAIN g = DOMAIN h
      /\ Records(f) /\ TypesStay(f, h) /\ DOMAIN f = DOMAIN h
  BY WritingKeepsTypes
<1>2. /\ TypesStay(PutB(g, q, w), g) /\ DOMAIN PutB(g, q, w) = DOMAIN g
      /\ TypesStay(PutB(f, q, w), f) /\ DOMAIN PutB(f, q, w) = DOMAIN f
  BY <1>1, WritingKeepsTypes
<1> QED
  BY <1>1, <1>2 DEF TypesStay

LEMMA FinishKeepsTypes ==
  ASSUME NEW h, NEW l, NEW r, NEW b, Finish(h, l, r, b), NEW g, TypesStay(h, g), DOMAIN g \subseteq DOMAIN h
  PROVE  TypesStay(heap', g)
<1>1. \A x \in DOMAIN heap' : heap'[x] = h[x]
  BY DEF Finish, Reachable
<1> QED
  BY <1>1 DEF TypesStay

(* An operation that does not allocate *)
LEMMA WorkKeepsTypes ==
  ASSUME Records(heap), Work
  PROVE  TypesStay(heap', heap)
<1>1. TypesStay(heap, heap)
  BY DEF TypesStay
<1>2. CASE Pop
  <2>1. PICK rest, l, r : /\ Finish(rest, l, r, bindings)
                          /\ \/ rest = heap \/ rest = PutA(heap, P, heap[heap[P].a].b)
                             \/ rest = PutB(PutA(heap, P, NULL), P, NULL)
    BY <1>2 DEF Pop, PutA, PutB
  <2>2. TypesStay(rest, heap) /\ DOMAIN rest = DOMAIN heap
    BY <1>1, <2>1, WritingKeepsTypes, WritingTwiceKeepsTypes
  <2> QED
    BY <2>1, <2>2, FinishKeepsTypes
<1>3. CASE Fetch
  BY <1>1, <1>3, FinishKeepsTypes DEF Fetch
<1>4. CASE Keep \/ BindSymbol
  BY <1>1, <1>4, FinishKeepsTypes DEF Keep, BindSymbol
<1>5. CASE Rewinds
  <2>1. PICK rest : rest = PutB(heap, P, heap[heap[P].a].a) /\ Finish(rest, loc, registers, bindings)
    BY <1>5 DEF Rewinds, PutB
  <2>2. TypesStay(rest, heap) /\ DOMAIN rest = DOMAIN heap
    BY <2>1, WritingKeepsTypes
  <2> QED
    BY <2>1, <2>2, FinishKeepsTypes
<1>6. CASE Hold \/ Call \/ Return
  BY <1>1, <1>6 DEF Hold, Call, CallOf, Return
<1> QED
  BY <1>2, <1>3, <1>4, <1>5, <1>6 DEF Work, Operation

(* An operation whose chunk has come *)
LEMMA FillKeepsTypes ==
  ASSUME Records(heap), NEW n, n \notin DOMAIN heap, Fills(n)
  PROVE  TypesStay(heap', heap) /\ (n \in DOMAIN heap' => heap'[n].type = NewType)
<1>1. PICK h, chunk, l, r : /\ Finish(With(h, n, chunk), l, r, bindings) /\ chunk.type = NewType
                            /\ TypesStay(h, heap) /\ DOMAIN h = DOMAIN heap
  <2>1. CASE NewChunk(n)
    <3>1. TypesStay(heap, heap)
      BY DEF TypesStay
    <3>2. NewType = now.p
      BY <2>1 DEF NewChunk, Waiting, NewType
    <3> QED
      BY <2>1, <3>1, <3>2 DEF NewChunk
  <2>2. CASE NewBlockChunk(n)
    <3>1. TypesStay(heap, heap)
      BY DEF TypesStay
    <3>2. NewType = "block"
      BY <2>2 DEF NewBlockChunk, Waiting, NewType
    <3> QED
      BY <2>2, <3>1, <3>2 DEF NewBlockChunk
  <2>3. CASE LinkFront(n)
    <3>1. NewType = "node"
      BY <2>3 DEF LinkFront, Waiting, NewType
    <3> PICK list : list = HeldAt(1)
      OBVIOUS
    <3> PICK h : h = [heap EXCEPT ![list].a = n, ![list].b = IF @ = NULL THEN n ELSE @]
      OBVIOUS
    <3> PICK last : last = IF PutA(heap, list, n)[list].b = NULL THEN n ELSE PutA(heap, list, n)[list].b
      OBVIOUS
    <3>2. h = PutB(PutA(heap, list, n), list, last)
      BY DEF PutA, PutB
    <3>3. TypesStay(h, heap) /\ DOMAIN h = DOMAIN heap
      BY ONLY Records(heap), <3>2, WritingTwiceKeepsTypes
    <3>4. Linked(n, [type |-> "node", a |-> HeldAt(2), b |-> heap[list].a], h)
      BY <2>3 DEF LinkFront
    <3> PICK node : node = [type |-> "node", a |-> HeldAt(2), b |-> heap[list].a]
      OBVIOUS
    <3>5. node.type = NewType
      BY <3>1
    <3>6. \E l, r : Finish(With(h, n, node), l, r, bindings)
      BY <3>4 DEF Linked
    <3> QED
      BY <3>3, <3>5, <3>6
  <2>4. CASE LinkBack(n)
    <3>1. NewType = "node"
      BY <2>4 DEF LinkBack, Waiting, NewType
    <3> PICK list : list = HeldAt(1)
      OBVIOUS
    <3> PICK h : h = IF heap[list].a = NULL THEN [heap EXCEPT ![list].a = n, ![list].b = n]
                     ELSE [heap EXCEPT ![heap[list].b].b = n, ![list].b = n]
      OBVIOUS
    <3>2. TypesStay(h, heap) /\ DOMAIN h = DOMAIN heap
      <4> PICK last : last = heap[list].b
        OBVIOUS
      <4>1. h = PutB(PutA(heap, list, n), list, n) \/ h = PutB(PutB(heap, last, n), list, n)
        BY DEF PutA, PutB
      <4> QED
        BY ONLY Records(heap), <4>1, WritingTwiceKeepsTypes
    <3>3. Linked(n, [type |-> "node", a |-> HeldAt(2), b |-> NULL], h)
      BY <2>4 DEF LinkBack
    <3> PICK node : node = [type |-> "node", a |-> HeldAt(2), b |-> NULL]
      OBVIOUS
    <3>5. node.type = NewType
      BY <3>1
    <3>6. \E l, r : Finish(With(h, n, node), l, r, bindings)
      BY <3>3 DEF Linked
    <3> QED
      BY <3>2, <3>5, <3>6
  <2> QED
    BY <2>1, <2>2, <2>3, <2>4 DEF Fills
<1>2. \A x \in DOMAIN heap' : heap'[x] = With(h, n, chunk)[x]
  BY <1>1 DEF Finish, Reachable
<1> QED
  BY <1>1, <1>2 DEF With, TypesStay

-----------------------------------------------------------------------------
(* The chunks that are kept lie one behind the other.                      *)

LEMMA LaidFewer ==
  ASSUME NEW D, NEW h, NEW c, NEW n, Laid(D, h, c, n), NEW E, E \subseteq D, NEW g,
         \A x \in E : g[x].type = h[x].type
  PROVE  Laid(E, g, c, n) /\ (Packed(D, h, c, n) /\ E = D => Packed(E, g, c, n))
BY DEF Laid, Packed

(* A chunk comes to n. *)
LEMMA LaidMore ==
  ASSUME NEW D, D \subseteq Nat, NEW h, NEW c \in Nat, NEW n \in Nat, c <= n, Laid(D, h, c, n), n \notin D,
         NEW E, E \subseteq D \cup {n}, NEW g, \A x \in E \cap D : g[x].type = h[x].type,
         NEW z, n \in E => z = sizeof_chunk(g[n].type), z \in Nat, NEW k, k = n + z
  PROVE  Laid(E, g, c, k) /\ (Packed(D, h, c, n) /\ E = D \cup {n} => Packed(E, g, c, k))
<1>1. \A x : sizeof_chunk(h[x].type) \in Nat \ {0}
  BY SizeIs
<1>2. ASSUME NEW x \in E
      PROVE  c <= x /\ x + sizeof_chunk(g[x].type) <= k
  <2>1. CASE x = n
    BY <2>1
  <2>2. CASE x \in D
    <3>1. g[x].type = h[x].type /\ c <= x /\ x + sizeof_chunk(h[x].type) <= n
      BY <2>2 DEF Laid
    <3> QED
      BY <1>1, <2>2, <3>1
  <2> QED
    BY <2>1, <2>2
<1>3. ASSUME NEW x \in E, NEW y \in E, x < y
      PROVE  x + sizeof_chunk(g[x].type) <= y
  <2>1. \A q \in D : c <= q /\ q + sizeof_chunk(h[q].type) <= n /\ q < n
    <3>1. \A q \in D : q + sizeof_chunk(h[q].type) <= n /\ c <= q
      BY DEF Laid
    <3>2. ASSUME NEW q \in D PROVE q < n
      <4>1. q + sizeof_chunk(h[q].type) <= n /\ sizeof_chunk(h[q].type) \in Nat \ {0} /\ q \in Nat
        BY <1>1, <3>1
      <4> QED
        BY <4>1
    <3> QED
      BY <3>1, <3>2
  <2>2. x # n /\ x \in D
    BY <1>3, <2>1
  <2>3. g[x].type = h[x].type
    BY <2>2
  <2>4. y \in D => x + sizeof_chunk(h[x].type) <= y
    BY <1>3, <2>2 DEF Laid
  <2> QED
    BY <2>1, <2>2, <2>3, <2>4
<1>4. ASSUME Packed(D, h, c, n), E = D \cup {n}, NEW j \in c .. k - 1
      PROVE  \E x \in E : x <= j /\ j < x + sizeof_chunk(g[x].type)
  <2>1. CASE j \in c .. n - 1
    <3>1. PICK x \in D : x <= j /\ j < x + sizeof_chunk(h[x].type)
      BY <1>4, <2>1 DEF Packed
    <3>2. x \in E /\ g[x].type = h[x].type
      BY <1>4
    <3> QED
      BY <3>1, <3>2
  <2>2. CASE n <= j
    <3>1. n \in E /\ n <= j /\ j < n + z
      BY <1>4, <2>2
    <3> QED
      BY <3>1
  <2>3. j \in c .. n - 1 \/ n <= j
    <3>1. j \in Int /\ c <= j
      BY <1>4
    <3> QED
      BY <3>1
  <2> QED
    BY <2>1, <2>2, <2>3
<1>5. Laid(E, g, c, k)
  BY <1>2, <1>3 DEF Laid
<1>6. Packed(D, h, c, n) /\ E = D \cup {n} => Packed(E, g, c, k)
  BY <1>4 DEF Packed
<1> QED
  BY <1>5, <1>6

(* The chunks outside of the half that starts at c *)
Beyond(g, c) == DOMAIN g \ (c .. c + Half - 1)

(* The chunks lie side by side; what a collection leaves, and the copies   *)
(* it makes, without gaps.                                                 *)
Rows ==
  IF root = 0
  THEN /\ Laid(DOMAIN heap, heap, current_heap, heap_position)
       /\ collected => allocating /\ Packed(DOMAIN heap, heap, current_heap, heap_position)
  ELSE /\ ~ collected
       /\ Laid(Beyond(heap, current_heap), heap, free_heap, heap_position)
       /\ Packed(Beyond(heap, current_heap), heap, free_heap, heap_position)

Exhausted == root = 0 /\ collected /\ ~ Room

RoomInv == Rows /\ (process = "out_of_memory" => Exhausted)

LEMMA RoomInit ==
  ASSUME SpaceInit
  PROVE  RoomInv
BY DEF SpaceInit, MachineInit, RoomInv, Rows, Laid

(* What holds of the chunks when nothing is collected *)
LEMMA QuietFacts ==
  ASSUME SpaceInv, WorkInv, root = 0
  PROVE  /\ Records(heap) /\ DOMAIN heap \subseteq Nat /\ current_heap \in Nat /\ heap_position \in Nat
         /\ current_heap <= heap_position /\ heap_position \notin DOMAIN heap
         /\ heap_position <= current_heap + Half
<1>1. current_heap \in {0, Half} /\ heap_position \in current_heap .. current_heap + Half
  BY DEF SpaceInv, Ranges, Filled
<1>2. DOMAIN heap \subseteq current_heap .. heap_position - 1
  BY DEF SpaceInv, Contained
<1>3. Intact(heap, loc, registers, bindings)
  BY DEF WorkInv, Works
<1>4. current_heap \in Nat /\ heap_position \in Nat /\ current_heap <= heap_position
      /\ heap_position <= current_heap + Half
  BY <1>1, HalfAssumption
<1>5. heap_position \notin current_heap .. heap_position - 1
  BY <1>4
<1> QED
  BY <1>2, <1>3, <1>4, <1>5 DEF Intact, Fine

LEMMA RoomWork ==
  ASSUME SetupFits, SpaceInv, WorkInv, RoomInv, Work, UNCHANGED spaceVars
  PROVE  RoomInv'
<1>1. root = 0
  <2> SUFFICES ASSUME root # 0 PROVE FALSE
    OBVIOUS
  <2>1. allocating /\ todo # <<>>
    BY AsksFacts DEF SpaceInv, Contained, Collecting
  <2> QED
    BY <2>1 DEF Work, Operation, Pop, Fetch, Keep, BindSymbol, Rewinds, Hold, In, Call, CallOf, Return, Idle
<1>2. MachineFits
  BY <1>1 DEF SpaceInv, Contained
<1>3. ~ allocating /\ DOMAIN heap' \subseteq DOMAIN heap /\ process' \in {process, "returned"}
  BY <1>2, WorkFits
<1>4. process = "running"
  BY DEF Work, Operation, Pop, Fetch, Keep, BindSymbol, Rewinds, Hold, In, Call, CallOf, Return, Idle
<1>5. \A x \in DOMAIN heap' : heap'[x].type = heap[x].type
  <2>1. Records(heap)
    BY <1>1, QuietFacts
  <2>2. TypesStay(heap', heap)
    BY <2>1, WorkKeepsTypes
  <2> QED
    BY <1>3, <2>2 DEF TypesStay
<1>6. ~ collected /\ Laid(DOMAIN heap, heap, current_heap, heap_position)
  BY <1>1, <1>3 DEF RoomInv, Rows
<1>7. Laid(DOMAIN heap', heap', current_heap, heap_position)
  BY <1>3, <1>5, <1>6, LaidFewer
<1>8. UNCHANGED <<current_heap, heap_position, root, collected>>
  BY DEF spaceVars
<1> QED
  BY <1>1, <1>3, <1>4, <1>6, <1>7, <1>8 DEF RoomInv, Rows

LEMMA RoomAllocate ==
  ASSUME SetupFits, SpaceInv, WorkInv, RoomInv, Allocate
  PROVE  RoomInv'
<1>1. /\ root = 0 /\ allocating /\ process = "running" /\ Fills(heap_position)
      /\ heap_position' = heap_position + sizeof_chunk(NewType)
      /\ collected' = FALSE /\ UNCHANGED <<current_heap, root>>
  BY DEF Allocate, Asked
<1>2. process' = process
  BY <1>1 DEF Fills, NewChunk, NewBlockChunk, LinkFront, LinkBack, Linked, Finish
<1> PICK n, c, z : n = heap_position /\ c = current_heap /\ z = sizeof_chunk(NewType)
  OBVIOUS
<1>3. /\ Records(heap) /\ DOMAIN heap \subseteq Nat /\ c \in Nat /\ n \in Nat /\ c <= n /\ n \notin DOMAIN heap
  BY <1>1, QuietFacts
<1>4. Asks(heap, loc, registers, bindings)
  BY <1>1 DEF SpaceInv, Contained, MachineFits
<1>5. DOMAIN heap' \subseteq DOMAIN heap \cup {n}
  BY <1>1, <1>3, <1>4, FillsFits
<1>6. (\A x \in DOMAIN heap' \cap DOMAIN heap : heap'[x].type = heap[x].type)
      /\ (n \in DOMAIN heap' => z = sizeof_chunk(heap'[n].type))
  <2>1. TypesStay(heap', heap) /\ (n \in DOMAIN heap' => heap'[n].type = NewType)
    BY <1>1, <1>3, FillKeepsTypes
  <2> QED
    BY <2>1 DEF TypesStay
<1>7. Laid(DOMAIN heap, heap, c, n)
  BY <1>1 DEF RoomInv, Rows
<1>8. Laid(DOMAIN heap', heap', c, n + z)
  <2> PICK D, h, E, g, k : D = DOMAIN heap /\ h = heap /\ E = DOMAIN heap' /\ g = heap' /\ k = n + z
    OBVIOUS
  <2>1. z \in Nat
    BY SizeIs
  <2>2. Laid(E, g, c, k)
    BY <1>3, <1>5, <1>6, <1>7, <2>1, LaidMore
  <2> QED
    BY <2>2
<1> QED
  BY <1>1, <1>2, <1>8 DEF RoomInv, Rows

LEMMA RoomStart ==
  ASSUME SpaceInv, WorkInv, RoomInv, StartCollection
  PROVE  RoomInv'
<1>1. /\ root = 0 /\ ~ collected /\ root' = 1 /\ heap_position' = free_heap /\ process = "running"
      /\ UNCHANGED <<heap, current_heap, collected, process>>
  BY DEF StartCollection, Asked, machineVars
<1>2. Beyond(heap, current_heap) = {}
  <2>1. DOMAIN heap \subseteq current_heap .. heap_position - 1
    BY <1>1 DEF SpaceInv, Contained
  <2>2. heap_position <= current_heap + Half /\ current_heap \in Nat /\ heap_position \in Nat
    BY <1>1, QuietFacts
  <2>3. \A x \in current_heap .. heap_position - 1 : x \in current_heap .. current_heap + Half - 1
    BY <2>2, HalfAssumption
  <2> QED
    BY <2>1, <2>3 DEF Beyond
<1>3. free_heap' = free_heap /\ free_heap \in Nat
  BY <1>1, HalfAssumption DEF free_heap
<1>4. Laid({}, heap, free_heap, free_heap) /\ Packed({}, heap, free_heap, free_heap)
  BY <1>3 DEF Laid, Packed
<1> QED
  BY <1>1, <1>2, <1>3, <1>4 DEF RoomInv, Rows

-----------------------------------------------------------------------------
(* The copies of a collection lie one behind the other.                    *)

(* A copy has the type of the chunk with its name. *)
Mirrors(e, h, x) == \E y \in DOMAIN h : e[y] = id[x] /\ heap[x].type = h[y].type

CopiesMirror ==
  \A e, h, l, r, b : root # 0 /\ Works(e, h, l, r, b) =>
    \A x \in Beyond(heap, current_heap) : Mirrors(e, h, x)

LEMMA CopiesAre ==
  ASSUME NEW h, NEW l, NEW r, NEW b, NEW fin, Copying(h, l, r, b, fin)
  PROVE  Beyond(heap, current_heap) = DOMAIN fin \cup {frames[k].new : k \in 1 .. Len(frames)}
<1> PICK g, fs, c, n : g = heap /\ fs = frames /\ c = current_heap /\ n = heap_position
  OBVIOUS
<1>1. Space(h, fin, g, fs, c, n)
  BY DEF Copying, Memory
<1>2. /\ DOMAIN g = DOMAIN h \cup DOMAIN fin \cup {fs[k].new : k \in 1 .. Len(fs)}
      /\ DOMAIN h \subseteq c .. c + Half - 1
  BY <1>1 DEF Space
<1>3. /\ \A x \in DOMAIN fin : x \notin c .. c + Half - 1
      /\ \A k \in 1 .. Len(fs) : fs[k].new \notin c .. c + Half - 1
  BY <1>1, SpaceApart
<1> QED
  BY <1>2, <1>3 DEF Beyond

LEMMA CopiesMirrorNow == CopiesMirror
<1> SUFFICES ASSUME NEW e, NEW h, NEW l, NEW r, NEW b, root # 0, Works(e, h, l, r, b),
                    NEW x \in Beyond(heap, current_heap)
             PROVE  Mirrors(e, h, x)
  BY DEF CopiesMirror
<1> PICK fin : Copying(h, l, r, b, fin) /\ KeptNames(e, h, fin)
  BY DEF Works
<1>1. x \in DOMAIN fin \cup {frames[k].new : k \in 1 .. Len(frames)}
  BY CopiesAre
<1>2. Memory(h, fin, heap, frames, current_heap, heap_position)
  BY DEF Copying
<1>3. CASE x \in DOMAIN fin
  <2>1. CopiedChunk(fin, heap, h, x) /\ fin[x] \in DOMAIN h
    BY <1>2, <1>3 DEF Memory, Injects
  <2>2. id[x] = e[fin[x]]
    BY <1>3 DEF KeptNames
  <2> QED
    BY <2>1, <2>2 DEF CopiedChunk, Mirrors
<1>4. ASSUME NEW k \in 1 .. Len(frames), x = frames[k].new PROVE Mirrors(e, h, x)
  <2>1. Frame(h, fin, heap, frames[k])
    BY <1>2 DEF Memory
  <2>2. id[x] = e[frames[k].old]
    BY <1>4 DEF KeptNames
  <2> QED
    BY <1>4, <2>1, <2>2 DEF Frame, Mirrors
<1> QED
  BY <1>1, <1>3, <1>4

LEMMA CopiesMirrorNext ==
  ASSUME NEW e, NEW h, NEW l, NEW r, NEW b, (root # 0)', Works(e, h, l, r, b)',
         NEW x, x \in Beyond(heap', current_heap')
  PROVE  \E y \in DOMAIN h : e[y] = id'[x] /\ heap'[x].type = h[y].type
<1>1. CopiesMirror'
  BY CopiesMirrorNow, PTL
<1> QED
  BY <1>1 DEF CopiesMirror, Mirrors

(* A copy keeps its type while its pointers are moved. *)
LEMMA CopiesKeepTypes ==
  ASSUME NEW e, NEW h, NEW l, NEW r, NEW b, root # 0, root' # 0,
         Works(e, h, l, r, b), Works(e, h, l, r, b)', current_heap' = current_heap,
         NEW x, x \in Beyond(heap, current_heap), x \in DOMAIN heap', id'[x] = id[x]
  PROVE  heap'[x].type = heap[x].type
<1>1. PICK y \in DOMAIN h : e[y] = id[x] /\ heap[x].type = h[y].type
  BY CopiesMirrorNow DEF CopiesMirror, Mirrors
<1>2. x \in Beyond(heap', current_heap')
  BY DEF Beyond
<1>3. PICK z \in DOMAIN h : e[z] = id[x] /\ heap'[x].type = h[z].type
  BY <1>2, CopiesMirrorNext
<1>4. y = z
  BY <1>1, <1>3 DEF Works, Naming
<1> QED
  BY <1>1, <1>3, <1>4

(* What holds of the chunks during a collection *)
LEMMA MovingFacts ==
  ASSUME SpaceInv, root # 0
  PROVE  /\ free_heap \in Nat /\ heap_position \in Nat /\ free_heap <= heap_position
         /\ heap_position <= free_heap + Half
<1>1. current_heap \in {0, Half} /\ heap_position \in free_heap .. free_heap + Half
  BY DEF SpaceInv, Ranges, Filled
<1>2. free_heap \in Nat
  BY HalfAssumption DEF free_heap
<1> QED
  BY <1>1, <1>2, HalfAssumption

LEMMA RoomMove ==
  ASSUME SetupFits, SpaceInv, WorkInv, RoomInv, Null \/ Known \/ Enter \/ Leave
  PROVE  RoomInv'
<1>1. root # 0 /\ process = "running"
  BY DEF Null, Known, Enter, Leave, Pointer, Moving
<1> PICK e, h, l, r, b : Works(e, h, l, r, b)
  BY DEF WorkInv
<1>2. Works(e, h, l, r, b)'
  BY MoveHidden
<1>3. root \in Nat
  <2> PICK fin : Copying(h, l, r, b, fin)
    BY <1>1 DEF Works
  <2>1. RootsMoved(fin, BoundOf(b), root, l, b, r, loc, bindings, registers)
    BY DEF Copying
  <2>2. root \in 1 .. Count(BoundOf(b), r) + 1 /\ Count(BoundOf(b), r) \in Nat
    BY <2>1, RootsMovedFacts
  <2> QED
    BY <2>2
<1> PICK D, c, n : D = Beyond(heap, current_heap) /\ c = free_heap /\ n = heap_position
  OBVIOUS
<1>4. /\ ~ collected /\ Laid(D, heap, c, n) /\ Packed(D, heap, c, n)
      /\ c \in Nat /\ n \in Nat /\ c <= n
  BY <1>1, MovingFacts DEF RoomInv, Rows
<1>5. ASSUME UNCHANGED <<current_heap, collected, id, heap_position>>, process' # "out_of_memory",
             DOMAIN heap' = DOMAIN heap, root' # 0
      PROVE  RoomInv'
  <2>1. Beyond(heap', current_heap') = D /\ free_heap' = c
    BY <1>5 DEF Beyond, free_heap
  <2>2. \A x \in D : heap'[x].type = heap[x].type
    BY <1>1, <1>2, <1>5, CopiesKeepTypes DEF Beyond
  <2>3. Laid(D, heap', c, n) /\ Packed(D, heap', c, n)
    BY <1>4, <2>2, LaidFewer
  <2> QED
    BY <1>4, <1>5, <2>1, <2>3 DEF RoomInv, Rows
<1>6. ASSUME NEW new, NEW g, NEW outer, Stored(new, g, outer), DOMAIN g = DOMAIN heap
      PROVE  RoomInv'
  <2>1. /\ UNCHANGED <<todo, allocating, process, current_heap, collected, id>>
        /\ DOMAIN heap' = DOMAIN g /\ root' \in {root, root + 1} /\ heap_position' = heap_position
    BY <1>3, <1>6, StoredFacts DEF Stored
  <2>2. root' # 0
    BY <1>1, <1>3, <2>1
  <2> QED
    BY <1>1, <1>5, <1>6, <2>1, <2>2
<1>7. CASE Null
  BY <1>6, <1>7 DEF Null
<1>8. CASE Known
  BY <1>6, <1>8 DEF Known
<1>9. CASE Leave
  <2>1. Stored(top.new, Marked(top.old, top.new), Front(frames)) /\ DOMAIN Marked(top.old, top.new) = DOMAIN heap
    BY <1>9 DEF Leave, Marked
  <2> QED
    BY <1>6, <2>1
<1>10. CASE Enter
  <2>1. UNCHANGED <<current_heap, root, collected>> /\ process' \in {"running", "overrun", "unknown_type"}
    BY <1>1, <1>10 DEF Enter
  <2>2. CASE UNCHANGED <<heap, id, heap_position>>
    BY <1>1, <1>5, <2>1, <2>2
  <2>3. ASSUME NEW p \in DOMAIN heap, NEW z, z = sizeof_chunk(heap[p].type),
               heap' = With(heap, n, heap[p]), id' = With(id, n, id[p]), heap_position' = n + z,
               ~ n + z > c + Half
        PROVE  RoomInv'
    <3>1. z \in Nat \ {0} /\ n < c + Half
      <4>1. z \in Nat \ {0}
        BY <2>3, SizeIs
      <4> QED
        BY <1>4, <2>3, <4>1, HalfAssumption
    <3>2. n \notin DOMAIN heap /\ n \notin current_heap .. current_heap + Half - 1
      <4> PICK fin : Copying(h, l, r, b, fin)
        BY <1>1 DEF Works
      <4>1. Space(h, fin, heap, frames, current_heap, heap_position)
        BY DEF Copying, Memory
      <4>2. current_heap \in {0, Half}
        BY <4>1 DEF Space
      <4>3. c = Half - current_heap
        BY <4>2, HalvesAre
      <4>4. n < Half - current_heap + Half
        BY <3>1, <4>3
      <4>5. n \notin DOMAIN heap
        BY <4>1, <4>4, SpaceApart
      <4>6. n \notin current_heap .. current_heap + Half - 1
        BY <1>4, <3>1, <4>2, <4>3, HalfAssumption
      <4> QED
        BY <4>5, <4>6
    <3>3. Beyond(heap', current_heap') = D \cup {n} /\ free_heap' = c
      BY <2>1, <2>3, <3>2 DEF Beyond, free_heap, With
    <3>4. (\A x \in D : heap'[x].type = heap[x].type) /\ z = sizeof_chunk(heap'[n].type)
      BY <2>3, <3>2 DEF Beyond, With
    <3>5. D \subseteq Nat /\ n \notin D
      <4> PICK fin : Copying(h, l, r, b, fin)
        BY <1>1 DEF Works
      <4>1. Space(h, fin, heap, frames, current_heap, heap_position)
        BY DEF Copying, Memory
      <4>2. D = DOMAIN fin \cup {frames[k].new : k \in 1 .. Len(frames)}
        BY CopiesAre
      <4>3. D \subseteq Nat
        BY <4>1, <4>2, SpaceApart
      <4> QED
        BY <3>2, <4>3 DEF Beyond
    <3> PICK E, g, k : E = D \cup {n} /\ g = heap' /\ k = n + z
      OBVIOUS
    <3>6. Laid(E, g, c, k) /\ Packed(E, g, c, k)
      BY <1>4, <3>1, <3>4, <3>5, LaidMore
    <3> QED
      BY <1>1, <1>4, <2>1, <2>3, <3>3, <3>6 DEF RoomInv, Rows
  <2> QED
    BY <1>10, <2>2, <2>3 DEF Enter
<1> QED
  BY <1>7, <1>8, <1>9, <1>10

(* The copies become the heap, and none of them is garbage. *)
LEMMA RoomEnd ==
  ASSUME SetupFits, SpaceInv, WorkInv, RoomInv, EndCollection
  PROVE  RoomInv'
<1>1. /\ root # 0 /\ frames = <<>> /\ root > Len(Roots) /\ root' = 0 /\ collected' = TRUE /\ process = "running"
      /\ heap' = Reachable(heap, loc, registers, bindings) /\ current_heap' = free_heap
      /\ UNCHANGED <<loc, registers, bindings, todo, allocating, process, frames, heap_position>>
  BY DEF EndCollection, Moving
<1>2. allocating
  BY <1>1 DEF SpaceInv, Contained
<1> PICK e, h, l, r, b : Works(e, h, l, r, b)
  BY DEF WorkInv
<1> PICK fin : Copying(h, l, r, b, fin)
  BY <1>1 DEF Works
<1>3. Asks(h, l, r, b) /\ Intact(h, l, r, b) /\ Trimmed(h, l, r, b)
  BY <1>1 DEF Works
<1> PICK o : Sane(h, l, r, b, o) /\ DOMAIN l = Stacks
  BY <1>3 DEF Asks
<1> PICK g, fs, c, n, m, d, s, k, g2 :
       /\ g = heap /\ fs = frames /\ c = current_heap /\ n = heap_position
       /\ m = loc /\ d = bindings /\ s = registers /\ k = root /\ g2 = heap'
  OBVIOUS
<1>4. Memory(h, fin, g, fs, c, n) /\ RootsMoved(fin, BoundOf(b), k, l, b, r, m, d, s)
  BY DEF Copying
<1>5. k > Count(BoundOf(b), r)
  BY <1>1, <1>4, RootsMovedFacts
<1>6. g2 = Reachable(g, m, s, d) /\ fs = <<>>
  BY <1>1
<1> PICK src : /\ Injects(src, h) /\ CopiedHeap(src, g2, h) /\ CopiedRoots(src, m, s, d, l, r, b)
               /\ \A x \in DOMAIN src : x \in DOMAIN fin /\ src[x] = fin[x]
  BY <1>4, <1>5, <1>6, EndIsImage
<1>7. (\A i \in DOMAIN h : \E y \in DOMAIN src : src[y] = i) /\ Trimmed(g2, m, s, d)
  BY <1>3, ImageTrimmed
<1>8. DOMAIN g2 = DOMAIN fin
  <2>1. DOMAIN g2 = DOMAIN src
    BY DEF CopiedHeap
  <2>2. ASSUME NEW x \in DOMAIN fin PROVE x \in DOMAIN src
    <3>1. Injects(fin, h)
      BY <1>4 DEF Memory
    <3>2. PICK y \in DOMAIN src : src[y] = fin[x]
      BY <1>7, <3>1 DEF Injects
    <3>3. y = x
      BY <3>1, <3>2 DEF Injects
    <3> QED
      BY <3>3
  <2> QED
    BY <2>1, <2>2
<1>9. Beyond(heap, current_heap) = DOMAIN g2
  <2>1. Beyond(heap, current_heap) = DOMAIN fin \cup {frames[j].new : j \in 1 .. Len(frames)}
    BY CopiesAre
  <2>2. {frames[j].new : j \in 1 .. Len(frames)} = {}
    BY <1>1
  <2> QED
    BY <1>8, <2>1, <2>2
<1>10. \A x \in DOMAIN g2 : g2[x].type = heap[x].type
  BY <1>6 DEF Reachable
<1>11. Laid(DOMAIN g2, heap, free_heap, n) /\ Packed(DOMAIN g2, heap, free_heap, n)
  BY <1>1, <1>9 DEF RoomInv, Rows
<1>12. Laid(DOMAIN g2, g2, free_heap, n) /\ Packed(DOMAIN g2, g2, free_heap, n)
  BY <1>10, <1>11, LaidFewer
<1> QED
  BY <1>1, <1>2, <1>12 DEF RoomInv, Rows

LEMMA RoomRunOut ==
  ASSUME RoomInv, RunOut
  PROVE  RoomInv'
<1>1. /\ root = 0 /\ collected /\ ~ Room
      /\ UNCHANGED <<heap, todo, allocating, current_heap, heap_position, root, collected>>
  BY DEF RunOut, Asked, OutOfMemory, spaceVars
<1>2. Room' = Room
  BY <1>1 DEF Room, NewType, now
<1> QED
  BY <1>1, <1>2 DEF RoomInv, Rows, Exhausted

LEMMA RoomStep ==
  ASSUME SetupFits, SpaceInv, WorkInv, RoomInv, [Next]_vars
  PROVE  RoomInv'
<1>1. CASE Work /\ UNCHANGED spaceVars /\ id' = Stays
  BY <1>1, RoomWork
<1>2. CASE Allocate
  BY <1>2, RoomAllocate
<1>3. CASE StartCollection
  BY <1>3, RoomStart
<1>4. CASE RunOut
  BY <1>4, RoomRunOut
<1>5. CASE Null \/ Known \/ Enter \/ Leave
  BY <1>5, RoomMove
<1>6. CASE EndCollection
  BY <1>6, RoomEnd
<1>7. CASE UNCHANGED vars
  <2>1. UNCHANGED <<heap, todo, allocating, process, current_heap, heap_position, root, collected>>
    BY <1>7 DEF vars, machineVars, spaceVars
  <2>2. Room' = Room /\ free_heap' = free_heap
    BY <2>1 DEF Room, NewType, now, free_heap
  <2> QED
    BY <2>1, <2>2 DEF RoomInv, Rows, Exhausted
<1> QED
  BY <1>1, <1>2, <1>3, <1>4, <1>5, <1>6, <1>7 DEF Next, Ended

LEMMA RoomInvariant ==
  ASSUME SetupFits, PointerSize = 4
  PROVE  Spec => [](SpaceInv /\ WorkInv /\ RoomInv)
<1>1. SpaceInit => WorkInv /\ RoomInv
  BY InitSeen, RoomInit
<1>2. SpaceInv /\ WorkInv /\ RoomInv /\ [Next]_vars => WorkInv' /\ RoomInv'
  BY StepSeen, RoomStep
<1>3. Spec => []SpaceInv
  BY SpaceInvariant
<1> QED
  BY <1>1, <1>2, <1>3, PTL DEF Spec

-----------------------------------------------------------------------------
(* What is alive fills the half up to heap_position.                       *)

LEMMA HolderNow ==
  ASSUME root = 0, WorkInv, NEW x \in DOMAIN heap
  PROVE  Holder(id[x]) = x
<1>1. frames = <<>> /\ Naming(id, heap) /\ Fine(heap)
  BY DEF WorkInv, Works, Intact
<1>2. heap[x].type # "moved"
  BY <1>1 DEF Fine, Types
<1>3. \A k \in DOMAIN frames : frames[k].new # x
  BY <1>1
<1>4. \A y \in DOMAIN heap : id[y] = id[x] => y = x
  BY <1>1 DEF Naming
<1> QED
  BY <1>2, <1>3, <1>4 DEF Holder

LEMMA LiveFills ==
  ASSUME SpaceInv, WorkInv, RoomInv, root = 0, collected
  PROVE  LiveBytes = heap_position - current_heap
<1> PICK D, h, c, n, I, who : /\ D = DOMAIN heap /\ h = heap /\ c = current_heap /\ n = heap_position
                              /\ I = Range(id) /\ who = [i \in I |-> Holder(i)]
  OBVIOUS
<1> PICK f : f = [i \in I |-> sizeof_chunk(h[who[i]].type)]
  OBVIOUS
<1>1. D \subseteq Nat /\ c \in Nat /\ n \in Nat /\ c <= n
  BY QuietFacts
<1>2. Laid(D, h, c, n) /\ Packed(D, h, c, n)
  BY DEF RoomInv, Rows
<1>3. Naming(id, heap) /\ I = {id[x] : x \in D}
  BY DEF WorkInv, Works, Naming, Range
<1>4. IsFiniteSet(I)
  <2>1. I \subseteq 0 .. Half
    BY <1>3 DEF Naming
  <2>2. IsFiniteSet(0 .. Half)
    BY HalfAssumption, FS_Interval
  <2> QED
    BY <2>1, <2>2, FS_Subset
<1>5. \A x \in D : id[x] \in I /\ who[id[x]] = x
  BY <1>3, HolderNow
<1>6. \A i \in I : \E x \in D : i = id[x] /\ who[i] = x
  BY <1>3, <1>5
<1>7. Measures(f, I, who, D, h)
  BY <1>6 DEF Measures
<1>8. \A x \in D : \E i \in I : who[i] = x
  BY <1>5
<1>9. Cardinality(Cells(I, f)) = n - c
  <2>1. Tiles(D, h, c, n, I, f, who)
    BY <1>1, <1>2, <1>7, <1>8 DEF Tiles
  <2> QED
    BY ONLY <2>1, PackedFill
<1>10. LiveBytes = Cardinality(Cells(Range(id), f))
  <2>1. IsFiniteSet(Range(id)) /\ \A i \in Range(id) : f[i] = sizeof_chunk(heap[Holder(i)].type)
    BY <1>4
  <2> QED
    BY ONLY <2>1, LiveCounted
<1> QED
  BY <1>9, <1>10

(* After a collection nothing is in the half but what is still in use,     *)
(* each chunk once: move_chunk copies no garbage, and no shared chunk      *)
(* twice.                                                                  *)
THEOREM CollectionsCompact ==
  ASSUME SetupFits, PointerSize = 4
  PROVE  Spec => []Compacted
<1>1. SpaceInv /\ WorkInv /\ RoomInv => Compacted
  BY LiveFills DEF Compacted, Asked
<1>2. Spec => [](SpaceInv /\ WorkInv /\ RoomInv)
  BY RoomInvariant
<1> QED
  BY <1>1, <1>2, PTL

(* The process runs out of memory only if what it uses and the new chunk   *)
(* do not fit into one half (allocate_chunk, out_of_memory).               *)
THEOREM MemoryLasts ==
  ASSUME SetupFits, PointerSize = 4
  PROVE  Spec => []RunsOutOnlyWhenFull
<1>1. SpaceInv /\ WorkInv /\ RoomInv => RunsOutOnlyWhenFull
  <2> SUFFICES ASSUME SpaceInv, WorkInv, RoomInv, process = "out_of_memory"
               PROVE  LiveBytes + sizeof_chunk(NewType) > Half
    BY DEF RunsOutOnlyWhenFull
  <2>1. root = 0 /\ collected /\ ~ heap_position - current_heap + sizeof_chunk(NewType) <= Half
    BY DEF RoomInv, Exhausted, Room
  <2>2. LiveBytes = heap_position - current_heap
    BY <2>1, LiveFills
  <2>3. heap_position \in Nat /\ current_heap \in Nat
    BY <2>1, QuietFacts
  <2>4. sizeof_chunk(NewType) \in Nat
    BY SizeIs
  <2> QED
    BY <2>1, <2>2, <2>3, <2>4, HalfAssumption
<1>2. Spec => [](SpaceInv /\ WorkInv /\ RoomInv)
  BY RoomInvariant
<1> QED
  BY <1>1, <1>2, PTL

-----------------------------------------------------------------------------
(* During a collection chunks refer to chunks: those it began with to each *)
(* other, and a copy to those or to copies.                                *)

RefersInside(h) ==
  \A x \in DOMAIN h : h[x].type \in Refers => h[x].a \in OrNull(DOMAIN h) /\ h[x].b \in OrNull(DOMAIN h)

LEMMA PutWhole ==
  ASSUME NEW g, Records(g), RefersInside(g), NEW x, x \in DOMAIN g, NEW v, v \in OrNull(DOMAIN g), NEW f \in {"a", "b"}
  PROVE  RefersInside([g EXCEPT ![x][f] = v])
<1> PICK g2 : g2 = [g EXCEPT ![x][f] = v]
  OBVIOUS
<1>1. DOMAIN g2 = DOMAIN g
  OBVIOUS
<1>2. ASSUME NEW y \in DOMAIN g, y # x PROVE g2[y] = g[y]
  BY <1>2
<1>3. g[x] = [type |-> g[x].type, a |-> g[x].a, b |-> g[x].b]
  BY DEF Records, Record
<1>4. /\ g2[x].type = g[x].type /\ (g2[x].a = g[x].a \/ g2[x].a = v) /\ (g2[x].b = g[x].b \/ g2[x].b = v)
  <2>1. g2[x] = [g[x] EXCEPT ![f] = v]
    OBVIOUS
  <2> QED
    BY <1>3, <2>1
<1>5. RefersInside(g2)
  BY <1>1, <1>2, <1>4 DEF RefersInside
<1> QED
  BY <1>5

(* The new address is stored. *)
LEMMA StoredWhole ==
  ASSUME NEW g, Records(g), RefersInside(g), NEW new, new \in OrNull(DOMAIN g), NEW fs, Stored(new, g, fs),
         fs # <<>> => /\ Last(fs).new \in DOMAIN g /\ g[Last(fs).new].type \in Refers
                      /\ Last(fs).next \in 1 .. 2
  PROVE  RefersInside(heap')
<1>1. CASE fs = <<>>
  BY <1>1 DEF Stored, StoreInRoot
<1>2. CASE fs # <<>>
  <2> PICK x, f : x = Last(fs).new /\ f = Fields(g[x].type)[Last(fs).next]
    OBVIOUS
  <2>1. heap' = [g EXCEPT ![x][f] = new]
    BY <1>2 DEF Stored
  <2>2. f \in {"a", "b"}
    BY <1>2, FieldsAre
  <2>3. x \in DOMAIN g
    BY <1>2
  <2>4. RefersInside([g EXCEPT ![x][f] = new])
    BY ONLY Records(g), RefersInside(g), new \in OrNull(DOMAIN g), <2>2, <2>3, PutWhole
  <2> QED
    BY <2>1, <2>4
<1> QED
  BY <1>1, <1>2

(* The frame a pointer is moved for, and the one below it *)
LEMMA FrameWaits ==
  ASSUME NEW h, NEW fin, NEW g, NEW fs, NEW c, NEW n, Memory(h, fin, g, fs, c, n),
         NEW k \in 1 .. Len(fs), Open(h, fs[k])
  PROVE  /\ fs[k].new \in DOMAIN g /\ g[fs[k].new].type = h[fs[k].old].type
         /\ g[fs[k].new].type \in Refers /\ fs[k].next \in 1 .. 2
         /\ Awaited(h, fs[k]) \in OrNull(DOMAIN h) /\ fs[k].old \in DOMAIN h /\ ~ Done(fin, fs[k].old)
<1> PICK f : f = fs[k]
  OBVIOUS
<1>1. Frame(h, fin, g, f) /\ Space(h, fin, g, fs, c, n) /\ Fine(h)
  BY DEF Memory
<1>2. f.new \in DOMAIN g
  BY <1>1 DEF Space
<1>3. f.old \in DOMAIN h /\ f.next \in Nat /\ f.next >= 1 /\ Open(h, f) /\ g[f.new].type = h[f.old].type
      /\ ~ Done(fin, f.old)
  BY <1>1 DEF Frame, Width
<1>4. Awaited(h, f) \in OrNull(DOMAIN h) /\ f.next \in 1 .. 2 /\ h[f.old].type \in Refers
  BY <1>1, <1>3, AwaitedFacts
<1> QED
  BY <1>2, <1>3, <1>4

LEMMA MoveWhole ==
  ASSUME SetupFits, SpaceInv, WorkInv, RefersInside(heap), Null \/ Known \/ Enter \/ Leave
  PROVE  RefersInside(heap')
<1>1. root # 0
  BY DEF Null, Known, Enter, Leave, Pointer, Moving
<1> PICK h, l, r, b, fin : Copying(h, l, r, b, fin) /\ Asks(h, l, r, b)
  BY <1>1 DEF WorkInv, Works
<1> PICK o : Sane(h, l, r, b, o)
  BY DEF Asks
<1> PICK g, fs, c, n : g = heap /\ fs = frames /\ c = current_heap /\ n = heap_position
  OBVIOUS
<1>2. Memory(h, fin, g, fs, c, n)
  BY DEF Copying
<1>3. /\ fs \in Seq([old : Nat, new : Nat, next : Nat]) /\ Space(h, fin, g, fs, c, n)
      /\ Called(h, fs) /\ \A i \in DOMAIN h : Original(h, fin, g, i)
  BY <1>2 DEF Memory
<1>4. Records(g) /\ NULL \notin DOMAIN g /\ DOMAIN fin \subseteq DOMAIN g /\ DOMAIN h \subseteq DOMAIN g
  <2>1. /\ DOMAIN h \subseteq DOMAIN g /\ DOMAIN fin \subseteq DOMAIN g /\ NULL \notin DOMAIN g
    BY <1>3, SpaceApart
  <2> QED
    BY <1>3, <2>1 DEF Space
<1>5. ASSUME NEW p, Pointer(p), NEW new, new \in OrNull(DOMAIN g), Stored(new, g, fs)
      PROVE  RefersInside(heap')
  <2>1. Waited(h, l, r, b, fs, p)
    BY <1>5, PointerIs
  <2>2. ASSUME fs # <<>>
        PROVE  Last(fs).new \in DOMAIN g /\ g[Last(fs).new].type \in Refers /\ Last(fs).next \in 1 .. 2
    <3>1. Len(fs) \in 1 .. Len(fs) /\ Last(fs) = fs[Len(fs)]
      BY <1>3, <2>2 DEF Last
    <3>2. Open(h, fs[Len(fs)])
      BY <2>1, <2>2 DEF Waited
    <3> PICK k \in 1 .. Len(fs) : k = Len(fs)
      BY <3>1
    <3>3. fs[k].new \in DOMAIN g /\ g[fs[k].new].type \in Refers /\ fs[k].next \in 1 .. 2
      BY <1>2, <3>2, FrameWaits
    <3> QED
      BY <3>1, <3>3
  <2> QED
    BY <1>4, <1>5, <2>2, StoredWhole
<1>6. CASE Null
  BY <1>5, <1>6 DEF Null, OrNull
<1>7. CASE Known
  <2>1. PICK p \in DOMAIN g : Pointer(p) /\ g[p].type = "moved" /\ Stored(g[p].a, g, fs)
    BY <1>7 DEF Known
  <2>2. p \in DOMAIN h
    BY <1>4, <2>1, PointerIs DEF OrNull
  <2>3. g[p].a \in DOMAIN fin
    BY <1>3, <2>1, <2>2 DEF Original
  <2> QED
    BY <1>4, <1>5, <2>1, <2>3 DEF OrNull
<1>8. CASE Enter
  <2>1. heap' = heap \/ \E p \in DOMAIN g : heap' = With(g, n, g[p])
    BY <1>8 DEF Enter
  <2>2. ASSUME NEW p \in DOMAIN g, heap' = With(g, n, g[p]) PROVE RefersInside(heap')
    BY <2>2 DEF With, RefersInside, OrNull
  <2> QED
    BY <2>1, <2>2
<1>9. CASE Leave
  <2> PICK g2, fs2, f : g2 = Marked(top.old, top.new) /\ fs2 = Front(fs) /\ f = top
    OBVIOUS
  <2>1. fs # <<>> /\ Stored(f.new, g2, fs2) /\ f = fs[Len(fs)] /\ Len(fs) \in 1 .. Len(fs)
    BY <1>3, <1>9 DEF Leave, top, Last
  <2>2. Frame(h, fin, g, f) /\ f.new \in DOMAIN g
    BY <1>2, <1>3, <2>1 DEF Memory, Space
  <2>3. Marks(g2, g, f.old, f.new, c)
    <3>1. f.old \in DOMAIN g /\ f.old \in Nat /\ c \in Nat
      BY <1>3, <2>2, SpaceApart DEF Frame
    <3> QED
      BY <1>4, <3>1, MarkedMarks
  <2>4. RefersInside(g2)
    <3>1. ASSUME NEW x \in DOMAIN g2, g2[x].type \in Refers
          PROVE  g2[x].a \in OrNull(DOMAIN g2) /\ g2[x].b \in OrNull(DOMAIN g2)
      <4>1. x # f.old
        BY <2>3, <3>1 DEF Marks, Refers
      <4>2. g2[x] = g[x]
        BY <2>3, <3>1, <4>1 DEF Marks, Refers
      <4> QED
        BY <2>3, <3>1, <4>2 DEF RefersInside, Marks
    <3> QED
      BY <3>1 DEF RefersInside
  <2>5. Records(g2)
    <3>1. ASSUME NEW x \in DOMAIN g2 PROVE g2[x] = Record(g2[x])
      BY <1>4, <2>3 DEF Marks, Records, Record
    <3> QED
      BY <3>1 DEF Records
  <2>6. ASSUME fs2 # <<>>
        PROVE  Last(fs2).new \in DOMAIN g2 /\ g2[Last(fs2).new].type \in Refers /\ Last(fs2).next \in 1 .. 2
    <3>1. Dropped(fs2, fs)
      BY DEF Dropped
    <3>2. /\ fs2 \in Seq([old : Nat, new : Nat, next : Nat]) /\ Len(fs2) = Len(fs) - 1
          /\ \A k \in 1 .. Len(fs2) : fs2[k] = fs[k] /\ k \in 1 .. Len(fs) - 1
      BY <1>3, <2>1, <3>1, DroppedFacts
    <3> PICK k : k = Len(fs2)
      OBVIOUS
    <3>3. k \in 1 .. Len(fs2) /\ k \in 1 .. Len(fs) /\ k + 1 = Len(fs) /\ Last(fs2) = fs[k]
          /\ Len(fs) > 1 /\ Len(fs) - 1 = k
      BY <2>6, <3>2 DEF Last
    <3>4. Open(h, fs[k])
      <4>1. Open(h, fs[Len(fs) - 1])
        BY <1>3, <2>1, <3>3 DEF Called
      <4> QED
        BY <3>3, <4>1
    <3>5. fs[k].new \in DOMAIN g /\ g[fs[k].new].type \in Refers /\ fs[k].next \in 1 .. 2
      BY <1>2, <3>3, <3>4, FrameWaits
    <3>6. fs[k].new # f.old /\ fs[k].new \notin c .. c + Half - 1
      <4>1. f.old \in DOMAIN h
        BY <2>2 DEF Frame
      <4>2. \A j \in 1 .. Len(fs) : fs[j].new \notin DOMAIN h /\ fs[j].new \notin c .. c + Half - 1
        BY <1>3, SpaceApart
      <4> QED
        BY <3>3, <4>1, <4>2
    <3>7. g2[fs[k].new] = g[fs[k].new]
      BY <2>3, <3>5, <3>6 DEF Marks
    <3> QED
      BY <2>3, <3>3, <3>5, <3>7 DEF Marks
  <2>7. f.new \in OrNull(DOMAIN g2)
    BY <2>2, <2>3 DEF Marks, OrNull
  <2> QED
    BY <2>1, <2>4, <2>5, <2>6, <2>7, StoredWhole
<1> QED
  BY <1>6, <1>7, <1>8, <1>9

-----------------------------------------------------------------------------
(* The copies fit, or a list contains itself.                              *)

(* Each of the chunks w[1] .. w[n] but the last refers to the next. *)
InLine(h, w, n) ==
  /\ \A k \in 1 .. n : w[k] \in DOMAIN h
  /\ \A k \in 1 .. n : k < n => w[k + 1] \in Successions(h)[w[k]]

(* A line that comes to a chunk twice goes in a circle. *)
LEMMA CircleIsKnot ==
  ASSUME NoDangling(Successions(heap)), IsFiniteSet(DOMAIN heap),
         NEW n \in Nat, NEW w, InLine(heap, w, n),
         NEW j \in 1 .. n, NEW k \in 1 .. n, j < k, w[j] = w[k]
  PROVE  Knot
<1> PICK y, R : y = w[j + 1] /\ R = ReachIn(heap, {y})
  OBVIOUS
<1>1. j + 1 \in 1 .. n /\ y \in DOMAIN heap /\ y \in Successions(heap)[w[j]] /\ w[j] \in DOMAIN heap /\ y # NULL
  BY DEF InLine, NoDangling, Successions
<1>2. {y} \ {NULL} \subseteq R /\ Closed(Successions(heap), R) /\ R \subseteq DOMAIN heap
  <2>1. {y} \in SUBSET (DOMAIN heap \cup {NULL})
    BY <1>1
  <2> QED
    BY <2>1, ReachIsLeast
<1>3. \A i \in j + 1 .. n : w[i] \in R
  <2> DEFINE J == {i \in j + 1 .. n : w[i] \notin R}
  <2> SUFFICES ASSUME J # {} PROVE FALSE
    OBVIOUS
  <2>1. J \in SUBSET Nat
    OBVIOUS
  <2>2. PICK i \in J : \A m \in J : i <= m
    BY <2>1, Smallest
  <2>3. i # j + 1
    BY <1>1, <1>2
  <2>4. i - 1 \in j + 1 .. n /\ i - 1 \in 1 .. n /\ i - 1 < n /\ i - 1 + 1 = i
    <3>1. i \in j + 1 .. n
      BY <2>2
    <3> QED
      BY <2>3, <3>1
  <2>5. w[i - 1] \in R
    <3> PICK m : m = i - 1
      OBVIOUS
    <3>1. m \in j + 1 .. n /\ ~ i <= m
      BY <2>4
    <3>2. m \notin J
      BY <2>2, <3>1
    <3> QED
      BY <3>1, <3>2
  <2>6. w[i] \in Successions(heap)[w[i - 1]] /\ w[i] \in DOMAIN heap
    BY <2>4 DEF InLine
  <2>7. w[i] # NULL
    BY <2>6 DEF NoDangling, Successions
  <2>8. w[i] \in R
    BY <1>2, <2>5, <2>6, <2>7 DEF Closed
  <2> QED
    BY <2>8
<1>4. w[j] \in R
  <2>1. k \in j + 1 .. n
    OBVIOUS
  <2> QED
    BY <1>3, <2>1
<1>5. y \in Range(SuccessorsIn(heap, w[j])) \ {NULL}
  BY <1>1 DEF Successions
<1> QED
  BY <1>1, <1>4, <1>5 DEF Knot

(* What waits for its copy, and last the chunk p that is to be copied next *)
Line(fs, p) == [k \in 1 .. Len(fs) + 1 |-> IF k = Len(fs) + 1 THEN p ELSE fs[k].old]

LEMMA LineFacts ==
  ASSUME PointerSize = 4, NEW h, NEW fin, NEW g, NEW fs, NEW c, NEW n, Memory(h, fin, g, fs, c, n),
         NEW p, p \in DOMAIN h, g[p].type # "moved", Follows(h, fs, p),
         NEW w, w = Line(fs, p)
  PROVE  /\ InLine(g, w, Len(fs) + 1)
         /\ \A k \in 1 .. Len(fs) + 1 : w[k] \in DOMAIN h /\ ~ Done(fin, w[k])
<1>1. /\ fs \in Seq([old : Nat, new : Nat, next : Nat]) /\ Space(h, fin, g, fs, c, n) /\ Fine(h)
      /\ Called(h, fs) /\ \A i \in DOMAIN h : Original(h, fin, g, i)
      /\ \A k \in 1 .. Len(fs) : Frame(h, fin, g, fs[k])
  BY DEF Memory
<1>2. Len(fs) \in Nat /\ DOMAIN h \subseteq DOMAIN g /\ NULL \notin DOMAIN g
  BY <1>1, SpaceApart
<1>3. ASSUME NEW i \in DOMAIN h, ~ Done(fin, i)
      PROVE  g[i].type = h[i].type /\ g[i].a = h[i].a /\ g[i].b = h[i].b
  BY <1>1, <1>3 DEF Original
<1>4. ASSUME NEW k \in 1 .. Len(fs) + 1 PROVE w[k] \in DOMAIN h /\ ~ Done(fin, w[k])
  <2>1. CASE k = Len(fs) + 1
    <3>1. w[k] = p
      BY <2>1 DEF Line
    <3>2. ~ Done(fin, p)
      <4>1. Original(h, fin, g, p)
        BY <1>1
      <4>2. Done(fin, p) => g[p].type \in {"moved", "clobbered"} /\ g[p].type # "clobbered"
        BY <4>1 DEF Original
      <4> QED
        BY <4>2
    <3> QED
      BY <3>1, <3>2
  <2>2. CASE k \in 1 .. Len(fs)
    <3>1. w[k] = fs[k].old
      BY <1>2, <2>2 DEF Line
    <3> QED
      BY <1>1, <2>2, <3>1 DEF Frame
  <2> QED
    BY <1>2, <2>1, <2>2
<1>5. ASSUME NEW k \in 1 .. Len(fs) + 1, k < Len(fs) + 1
      PROVE  w[k + 1] \in Successions(g)[w[k]]
  <2>1. k \in 1 .. Len(fs) /\ w[k] = fs[k].old /\ k + 1 \in 1 .. Len(fs) + 1
    BY <1>2, <1>5 DEF Line
  <2>2. Open(h, fs[k]) /\ w[k + 1] = Awaited(h, fs[k])
    <3>1. CASE k = Len(fs)
      <4>1. fs # <<>> /\ w[k + 1] = p
        BY <1>1, <2>1, <3>1 DEF Line
      <4> QED
        BY <3>1, <4>1 DEF Follows
    <3>2. CASE k # Len(fs)
      <4>1. k + 1 \in 1 .. Len(fs) /\ w[k + 1] = fs[k + 1].old /\ k + 1 > 1 /\ k + 1 - 1 = k
        BY <1>2, <2>1, <3>2 DEF Line
      <4>2. Open(h, fs[k + 1 - 1]) /\ fs[k + 1].old = Awaited(h, fs[k + 1 - 1])
        BY <1>1, <4>1 DEF Called
      <4> QED
        BY <4>1, <4>2
    <3> QED
      BY <3>1, <3>2
  <2> PICK f : f = fs[k]
    OBVIOUS
  <2>3. f.old \in DOMAIN h /\ ~ Done(fin, f.old) /\ f.next \in Nat /\ f.next >= 1 /\ Open(h, f)
    BY <1>1, <2>1, <2>2 DEF Frame, Width
  <2>4. h[f.old].type \in Refers
    BY <1>1, <2>3, AwaitedFacts
  <2>5. /\ g[f.old].type = h[f.old].type /\ g[f.old].a = h[f.old].a /\ g[f.old].b = h[f.old].b
    BY <1>3, <2>3
  <2>6. Awaited(h, f) \in {g[f.old].a, g[f.old].b}
    BY <2>5 DEF Awaited, Word
  <2>7. Successions(g)[f.old] = {g[f.old].a, g[f.old].b}
    <3>1. f.old \in DOMAIN g
      BY <1>2, <2>3
    <3>2. Successions(g)[f.old] = Range(SuccessorsIn(g, f.old))
      BY <3>1 DEF Successions
    <3> QED
      BY <2>4, <2>5, <3>2, SuccessorsAre
  <2> QED
    BY <2>1, <2>2, <2>6, <2>7
<1>6. \A k \in 1 .. Len(fs) + 1 : w[k] \in DOMAIN g
  BY <1>2, <1>4
<1> QED
  BY <1>4, <1>5, <1>6 DEF InLine

(* What fits into one half fits into the other: as long as no chunk is     *)
(* copied twice, there is room for the next copy.                          *)
LEMMA CopyFits ==
  ASSUME PointerSize = 4, SpaceInv, RoomInv, root # 0,
         NEW h, NEW l, NEW r, NEW b, NEW fin, Copying(h, l, r, b, fin),
         Laid(DOMAIN h, h, current_heap, current_heap + Half),
         NEW p, p \in DOMAIN h, heap[p].type # "moved", Follows(h, frames, p),
         NEW w, w = Line(frames, p), \A j, k \in 1 .. Len(frames) + 1 : w[j] = w[k] => j = k
  PROVE  heap_position + sizeof_chunk(h[p].type) <= free_heap + Half
<1> PICK g, fs, c, n, e, D, S :
       /\ g = heap /\ fs = frames /\ c = current_heap /\ n = heap_position /\ e = free_heap
       /\ D = Beyond(heap, current_heap) /\ S = D \cup {n}
  OBVIOUS
<1>1. Memory(h, fin, g, fs, c, n)
  BY DEF Copying
<1>2. /\ fs \in Seq([old : Nat, new : Nat, next : Nat]) /\ Space(h, fin, g, fs, c, n) /\ Fine(h)
      /\ Injects(fin, h) /\ \A x \in DOMAIN fin : CopiedChunk(fin, g, h, x)
      /\ \A k \in 1 .. Len(fs) : Frame(h, fin, g, fs[k])
  BY <1>1 DEF Memory
<1>3. e \in Nat /\ n \in Nat /\ e <= n /\ c \in Nat
  <2>1. c \in Nat
    BY <1>2, SpaceApart
  <2> QED
    BY <2>1, MovingFacts
<1>4. Laid(D, g, e, n) /\ Packed(D, g, e, n)
  BY DEF RoomInv, Rows
<1>5. D = DOMAIN fin \cup {fs[k].new : k \in 1 .. Len(fs)}
  BY CopiesAre
<1>6. /\ \A x \in D : x \in Nat /\ x # n
      /\ \A j, k \in 1 .. Len(fs) : fs[j].new = fs[k].new => j = k
      /\ \A k \in 1 .. Len(fs) : fs[k].new \notin DOMAIN fin
      /\ Len(fs) \in Nat
  <2>1. \A x \in DOMAIN fin : x \in Nat /\ x # n
    BY <1>2, SpaceApart
  <2>2. \A k \in 1 .. Len(fs) : fs[k].new \in Nat /\ fs[k].new # n
    BY <1>2, SpaceApart
  <2> QED
    BY <1>2, <1>5, <2>1, <2>2 DEF Space, Frame
<1>7. /\ InLine(g, w, Len(fs) + 1)
      /\ \A k \in 1 .. Len(fs) + 1 : w[k] \in DOMAIN h /\ ~ Done(fin, w[k])
  <2>1. Follows(h, fs, p) /\ w = Line(fs, p) /\ g[p].type # "moved"
    OBVIOUS
  <2> QED
    BY ONLY PointerSize = 4, <1>1, <2>1, p \in DOMAIN h, LineFacts
<1>8. \A k \in 1 .. Len(fs) : w[k] = fs[k].old
  BY <1>6 DEF Line
<1>9. w[Len(fs) + 1] = p
  BY <1>6 DEF Line
(* What a copy is a copy of, and n is for p *)
<1> DEFINE At(k) == IF k = Len(fs) + 1 THEN n ELSE fs[k].new
           StandsFor(x, y) == \/ x \in DOMAIN fin /\ y = fin[x]
                           \/ \E k \in 1 .. Len(fs) + 1 : x = At(k) /\ y = w[k]
<1>10. \A x \in S : \E y : StandsFor(x, y)
  <2>1. ASSUME NEW k \in 1 .. Len(fs) PROVE StandsFor(fs[k].new, w[k])
    <3>1. k \in 1 .. Len(fs) + 1 /\ At(k) = fs[k].new
      BY <1>6
    <3> QED
      BY <3>1
  <2>2. StandsFor(n, w[Len(fs) + 1])
    <3>1. Len(fs) + 1 \in 1 .. Len(fs) + 1 /\ At(Len(fs) + 1) = n
      BY <1>6
    <3> QED
      BY <3>1
  <2>3. \A x \in DOMAIN fin : StandsFor(x, fin[x])
    OBVIOUS
  <2> HIDE DEF StandsFor, At
  <2> SUFFICES ASSUME NEW x \in S PROVE \E y : StandsFor(x, y)
    OBVIOUS
  <2>4. CASE x \in DOMAIN fin
    BY <2>3, <2>4
  <2>5. CASE \E k \in 1 .. Len(fs) : x = fs[k].new
    BY <2>1, <2>5
  <2>6. CASE x = n
    BY <2>2, <2>6
  <2> QED
    BY <1>5, <2>4, <2>5, <2>6
<1> DEFINE who == [x \in S |-> CHOOSE y : StandsFor(x, y)]
<1>11. \A x \in S : StandsFor(x, who[x])
  BY <1>10
<1> HIDE DEF who
<1>12. \A x \in DOMAIN fin : who[x] = fin[x]
  <2> SUFFICES ASSUME NEW x \in DOMAIN fin PROVE who[x] = fin[x]
    OBVIOUS
  <2>1. x \in S /\ x # n
    BY <1>5, <1>6
  <2>2. StandsFor(x, who[x])
    BY <1>11, <2>1
  <2>3. \A k \in 1 .. Len(fs) + 1 : x # At(k)
    BY <1>6, <2>1
  <2> QED
    BY <2>2, <2>3
<1>13. \A k \in 1 .. Len(fs) + 1 : who[At(k)] = w[k] /\ At(k) \in S
  <2> SUFFICES ASSUME NEW k \in 1 .. Len(fs) + 1 PROVE who[At(k)] = w[k] /\ At(k) \in S
    OBVIOUS
  <2>1. At(k) \in S /\ At(k) \notin DOMAIN fin
    BY <1>5, <1>6
  <2>2. StandsFor(At(k), who[At(k)])
    BY <1>11, <2>1
  <2>3. \A j \in 1 .. Len(fs) + 1 : At(j) = At(k) => j = k
    BY <1>5, <1>6
  <2> QED
    BY <2>1, <2>2, <2>3
<1>14. \A x \in S : x \in DOMAIN fin \/ \E k \in 1 .. Len(fs) + 1 : x = At(k)
  BY <1>11
<1> HIDE DEF At, StandsFor
<1> DEFINE f == [x \in S |-> sizeof_chunk(h[who[x]].type)]
<1>15. \A x \in S : f[x] = sizeof_chunk(h[who[x]].type) /\ f[x] \in Nat
  BY SizeIs
<1> HIDE DEF f
<1>16. \A x \in D : g[x].type = h[who[x]].type
  <2>1. \A x \in DOMAIN fin : g[x].type = h[who[x]].type
    BY <1>2, <1>12 DEF CopiedChunk
  <2>2. ASSUME NEW k \in 1 .. Len(fs) PROVE g[fs[k].new].type = h[who[fs[k].new]].type
    <3>1. k \in 1 .. Len(fs) + 1 /\ At(k) = fs[k].new
      BY <1>6 DEF At
    <3>2. who[fs[k].new] = fs[k].old
      BY <1>8, <1>13, <3>1
    <3> QED
      BY <1>2, <3>2 DEF Frame
  <2> QED
    BY <1>5, <2>1, <2>2
<1>17. Measures(f, S, who, DOMAIN h, h)
  <2>1. \A x \in S : who[x] \in DOMAIN h
    <3> SUFFICES ASSUME NEW x \in S PROVE who[x] \in DOMAIN h
      OBVIOUS
    <3>1. CASE x \in DOMAIN fin
      BY <1>2, <1>12, <3>1 DEF Injects
    <3>2. ASSUME NEW k \in 1 .. Len(fs) + 1, x = At(k) PROVE who[x] \in DOMAIN h
      BY <1>7, <1>13, <3>2
    <3> QED
      BY <1>14, <3>1, <3>2
  <2>2. ASSUME NEW x \in S, NEW y \in S, who[x] = who[y] PROVE x = y
    <3>1. CASE x \in DOMAIN fin /\ y \in DOMAIN fin
      BY <1>2, <1>12, <2>2, <3>1 DEF Injects
    <3>2. ASSUME NEW j \in 1 .. Len(fs) + 1, x = At(j), NEW k \in 1 .. Len(fs) + 1, y = At(k) PROVE x = y
      <4>1. w[j] = w[k]
        BY <1>13, <2>2, <3>2
      <4> QED
        BY <3>2, <4>1
    <3>3. ASSUME NEW k \in 1 .. Len(fs) + 1 PROVE ~ (x \in DOMAIN fin /\ y = At(k)) /\ ~ (y \in DOMAIN fin /\ x = At(k))
      BY <1>7, <1>12, <1>13, <2>2 DEF Done
    <3> QED
      BY <1>14, <3>1, <3>2, <3>3
  <2> QED
    BY <1>15, <2>1, <2>2 DEF Measures
<1>18. Cardinality(Cells(S, f)) <= Half
  <2>1. DOMAIN h \subseteq Nat /\ c \in Nat /\ c + Half \in Nat /\ c <= c + Half
    BY <1>2, <1>3, HalfAssumption DEF Fine
  <2>2. Laid(DOMAIN h, h, c, c + Half)
    OBVIOUS
  <2> PICK E, m : E = DOMAIN h /\ m = c + Half
    OBVIOUS
  <2>3. E \subseteq Nat /\ c \in Nat /\ m \in Nat /\ c <= m /\ Laid(E, h, c, m) /\ Measures(f, S, who, E, h)
    BY <1>17, <2>1, <2>2
  <2>4. Cardinality(Cells(S, f)) <= m - c
    BY ONLY <2>3, LaidFit
  <2>5. m - c = Half
    BY <1>3, HalfAssumption
  <2> QED
    BY <2>4, <2>5
<1>19. Cardinality(Cells(D, f)) = n - e
  <2> PICK same : same = [x \in D |-> x]
    OBVIOUS
  <2>1. \A x \in D : x \in S /\ f[x] = sizeof_chunk(g[x].type)
    BY <1>15, <1>16
  <2>2. Measures(f, D, same, D, g)
    BY <2>1 DEF Measures
  <2>3. D \subseteq Nat /\ \A x \in D : \E i \in D : same[i] = x
    BY <1>6
  <2>4. Tiles(D, g, e, n, D, f, same)
    BY <1>3, <1>4, <2>2, <2>3 DEF Tiles
  <2> QED
    BY ONLY <2>4, PackedFill
<1>20. Cardinality(Cells(S, f)) = Cardinality(Cells(D, f)) + sizeof_chunk(h[p].type)
  <2>1. IsFiniteSet(S)
    <3>1. D \subseteq e .. n - 1
      <4>1. ASSUME NEW x \in D PROVE x \in e .. n - 1
        <5>1. e <= x /\ x + sizeof_chunk(g[x].type) <= n /\ x \in Nat
          BY <1>4, <1>6 DEF Laid
        <5>2. sizeof_chunk(g[x].type) \in Nat \ {0}
          BY SizeIs
        <5> QED
          BY <1>3, <5>1, <5>2
      <4> QED
        BY <4>1
    <3>2. IsFiniteSet(e .. n - 1)
      BY <1>3, FS_Interval
    <3>3. IsFiniteSet(D)
      BY <3>1, <3>2, FS_Subset
    <3> QED
      BY <3>3, FS_AddElement
  <2>2. \A x \in S : f[x] \in Nat
    BY <1>15
  <2>3. n \in S /\ S \ {n} = D
    BY <1>6
  <2>4. Cardinality(Cells(S, f)) = Cardinality(Cells(S \ {n}, f)) + f[n]
    BY ONLY <2>1, <2>2, <2>3, CellsAdd
  <2>5. who[n] = p
    <3>1. Len(fs) + 1 \in 1 .. Len(fs) + 1 /\ At(Len(fs) + 1) = n
      BY <1>6 DEF At
    <3> QED
      BY <1>9, <1>13, <3>1
  <2> QED
    BY <1>15, <2>3, <2>4, <2>5
<1>21. sizeof_chunk(h[p].type) \in Nat
  BY SizeIs
<1> QED
  BY <1>3, <1>18, <1>19, <1>20, <1>21, HalfAssumption

-----------------------------------------------------------------------------
(* The heap a collection began with fits into the half.                    *)
BeganSmall ==
  \E e, h, l, r, b : Works(e, h, l, r, b) /\ Laid(DOMAIN h, h, current_heap, current_heap + Half)

KnotInv ==
  /\ root # 0 => RefersInside(heap) /\ BeganSmall
  /\ process = "overrun" => Knot

(* The chunks of a collection can be followed. *)
LEMMA FollowedInside ==
  ASSUME SpaceInv, WorkInv, RoomInv, root # 0, RefersInside(heap)
  PROVE  NoDangling(Successions(heap)) /\ IsFiniteSet(DOMAIN heap)
<1> PICK e, h, l, r, b, fin : Works(e, h, l, r, b) /\ Copying(h, l, r, b, fin)
  BY DEF WorkInv, Works
<1> PICK g, fs, c, n, m, D : g = heap /\ fs = frames /\ c = current_heap /\ n = heap_position /\ m = free_heap
                             /\ D = Beyond(heap, current_heap)
  OBVIOUS
<1>1. Space(h, fin, g, fs, c, n)
  BY DEF Copying, Memory
<1>2. NULL \notin DOMAIN g /\ DOMAIN g \subseteq DOMAIN h \cup D
  <2>1. NULL \notin DOMAIN g
    BY <1>1, SpaceApart
  <2>2. D = DOMAIN fin \cup {fs[k].new : k \in 1 .. Len(fs)}
    BY CopiesAre
  <2> QED
    BY <1>1, <2>1, <2>2 DEF Space
<1>3. \A i \in DOMAIN g : Successions(g)[i] \ {NULL} \subseteq DOMAIN g
  <2> SUFFICES ASSUME NEW i \in DOMAIN g PROVE Successions(g)[i] \ {NULL} \subseteq DOMAIN g
    OBVIOUS
  <2>1. Successions(g)[i] = Range(SuccessorsIn(g, i))
    BY DEF Successions
  <2>2. g[i].type \in Refers => g[i].a \in OrNull(DOMAIN g) /\ g[i].b \in OrNull(DOMAIN g)
    BY DEF RefersInside
  <2> QED
    BY <2>1, <2>2, SuccessorsAre DEF OrNull
<1>4. IsFiniteSet(D)
  <2>1. m \in Nat /\ n \in Nat
    BY MovingFacts
  <2>2. D \subseteq m .. n - 1
    <3>1. ASSUME NEW x \in D PROVE x \in m .. n - 1
      <4>1. m <= x /\ x + sizeof_chunk(g[x].type) <= n
        BY DEF RoomInv, Rows, Laid
      <4>2. sizeof_chunk(g[x].type) \in Nat \ {0}
        BY SizeIs
      <4>3. x \in Nat
        <5>1. x \in DOMAIN fin \cup {fs[k].new : k \in 1 .. Len(fs)}
          BY CopiesAre
        <5> QED
          BY <1>1, <5>1, SpaceApart
      <4> QED
        BY <2>1, <4>1, <4>2, <4>3
    <3> QED
      BY <3>1
  <2>3. IsFiniteSet(m .. n - 1)
    BY <2>1, FS_Interval
  <2> QED
    BY <2>2, <2>3, FS_Subset
<1>5. IsFiniteSet(DOMAIN g)
  <2>1. IsFiniteSet(DOMAIN h)
    BY DEF Works, Intact
  <2>2. IsFiniteSet(DOMAIN h \cup D)
    BY <1>4, <2>1, FS_Union
  <2> QED
    BY <1>2, <2>2, FS_Subset
<1>6. NoDangling(Successions(g))
  BY <1>2, <1>3 DEF NoDangling, Successions, Closed
<1> QED
  BY <1>5, <1>6

(* Where there is no room for a copy, a chunk is waiting for the copy of   *)
(* itself.                                                                 *)
LEMMA OverrunIsKnot ==
  ASSUME SetupFits, PointerSize = 4, SpaceInv, WorkInv, RoomInv, KnotInv, root # 0,
         NEW p \in DOMAIN heap, Pointer(p), heap[p].type \notin {"moved", "clobbered"},
         heap_position + sizeof_chunk(heap[p].type) > free_heap + Half
  PROVE  Knot
<1> PICK e, h, l, r, b : Works(e, h, l, r, b) /\ Laid(DOMAIN h, h, current_heap, current_heap + Half)
  BY DEF KnotInv, BeganSmall
<1> PICK fin : Copying(h, l, r, b, fin) /\ Asks(h, l, r, b)
  BY DEF Works
<1> PICK o : Sane(h, l, r, b, o)
  BY DEF Asks
<1> PICK g, fs, c, n, w : g = heap /\ fs = frames /\ c = current_heap /\ n = heap_position /\ w = Line(fs, p)
  OBVIOUS
<1>1. Memory(h, fin, g, fs, c, n)
  BY DEF Copying
<1>2. Space(h, fin, g, fs, c, n) /\ fs \in Seq([old : Nat, new : Nat, next : Nat])
  BY <1>1 DEF Memory
<1>3. p \in DOMAIN h /\ Follows(h, fs, p)
  <2>1. NULL \notin DOMAIN g
    BY <1>2, SpaceApart
  <2>2. Waited(h, l, r, b, fs, p) /\ p \in OrNull(DOMAIN h)
    BY PointerIs
  <2> QED
    BY <2>1, <2>2 DEF OrNull, Waited, Follows
<1>4. g[p].type = h[p].type
  BY <1>1, <1>3 DEF Memory, Original
<1>5. ~ \A j, k \in 1 .. Len(fs) + 1 : w[j] = w[k] => j = k
  <2> SUFFICES ASSUME \A j, k \in 1 .. Len(frames) + 1 : w[j] = w[k] => j = k PROVE FALSE
    OBVIOUS
  <2>1. heap_position + sizeof_chunk(h[p].type) <= free_heap + Half
    BY <1>3, CopyFits
  <2>2. heap_position \in Nat /\ free_heap \in Nat /\ sizeof_chunk(h[p].type) \in Nat
    BY MovingFacts, SizeIs
  <2> QED
    BY <1>4, <2>1, <2>2, HalfAssumption
<1>6. InLine(g, w, Len(fs) + 1) /\ Len(fs) + 1 \in Nat
  <2>1. w = Line(fs, p) /\ g[p].type # "moved" /\ Len(fs) + 1 \in Nat
    BY <1>2
  <2> QED
    BY ONLY PointerSize = 4, <1>1, <1>3, <2>1, LineFacts
<1> PICK m : m = Len(fs) + 1
  OBVIOUS
<1>7. \E j \in 1 .. m : \E k \in 1 .. m : j < k /\ w[j] = w[k]
  BY <1>5, <1>6
<1>8. InLine(heap, w, m) /\ m \in Nat /\ NoDangling(Successions(heap)) /\ IsFiniteSet(DOMAIN heap)
  BY <1>6, FollowedInside DEF KnotInv
<1> QED
  BY ONLY <1>7, <1>8, CircleIsKnot

LEMMA KnotStart ==
  ASSUME SetupFits, SpaceInv, WorkInv, RoomInv, StartCollection
  PROVE  KnotInv'
<1>1. /\ root = 0 /\ process = "running"
      /\ UNCHANGED <<heap, current_heap, process>>
  BY DEF StartCollection, Asked, machineVars
<1> PICK e, h, l, r, b : Works(e, h, l, r, b)
  BY DEF WorkInv
<1>2. Works(e, h, l, r, b)' /\ h = heap /\ Intact(h, l, r, b)
  BY <1>1, StartHidden DEF Works
<1>3. RefersInside(heap')
  BY <1>1, <1>2 DEF Intact, Fine, RefersInside
<1>4. Laid(DOMAIN h, h, current_heap', current_heap' + Half)
  <2>1. Laid(DOMAIN heap, heap, current_heap, heap_position)
    BY <1>1 DEF RoomInv, Rows
  <2>2. current_heap \in Nat /\ heap_position \in Nat /\ heap_position <= current_heap + Half /\ DOMAIN heap \subseteq Nat
    BY <1>1, QuietFacts
  <2>3. \A x \in DOMAIN heap : sizeof_chunk(heap[x].type) \in Nat
    BY SizeIs
  <2>4. Laid(DOMAIN heap, heap, current_heap, current_heap + Half)
    BY <2>1, <2>2, <2>3, HalfAssumption DEF Laid
  <2> QED
    BY <1>1, <1>2, <2>4
<1>5. BeganSmall'
  BY <1>2, <1>4 DEF BeganSmall
<1> QED
  BY <1>1, <1>3, <1>5 DEF KnotInv

LEMMA KnotMove ==
  ASSUME SetupFits, PointerSize = 4, SpaceInv, WorkInv, RoomInv, KnotInv, Null \/ Known \/ Enter \/ Leave
  PROVE  KnotInv'
<1>1. root # 0 /\ process = "running" /\ current_heap' = current_heap
  BY DEF Null, Known, Enter, Leave, Pointer, Moving, Stored
<1>2. RefersInside(heap')
  BY <1>1, MoveWhole DEF KnotInv
<1>3. BeganSmall'
  <2> PICK e, h, l, r, b : Works(e, h, l, r, b) /\ Laid(DOMAIN h, h, current_heap, current_heap + Half)
    BY <1>1 DEF KnotInv, BeganSmall
  <2>1. Works(e, h, l, r, b)'
    BY MoveHidden
  <2>2. Laid(DOMAIN h, h, current_heap', current_heap' + Half)
    BY <1>1
  <2> QED
    BY <2>1, <2>2 DEF BeganSmall
<1>4. ASSUME process' = "overrun" PROVE Knot'
  <2>1. CASE Null \/ Known \/ Leave
    BY <1>1, <1>4, <2>1 DEF Null, Known, Leave, Stored
  <2>2. CASE Enter
    <3>1. PICK p \in DOMAIN heap :
             /\ Pointer(p) /\ heap[p].type \notin {"moved", "clobbered"} /\ heap' = heap
             /\ heap_position + sizeof_chunk(heap[p].type) > free_heap + Half
      BY <1>1, <1>4, <2>2 DEF Enter
    <3>2. Knot
      BY <1>1, <3>1, OverrunIsKnot
    <3> QED
      BY <3>1, <3>2 DEF Knot
  <2> QED
    BY <2>1, <2>2
<1> QED
  BY <1>2, <1>3, <1>4 DEF KnotInv

LEMMA KnotStep ==
  ASSUME SetupFits, PointerSize = 4, SpaceInv, WorkInv, RoomInv, KnotInv, [Next]_vars
  PROVE  KnotInv'
<1>1. CASE Work /\ UNCHANGED spaceVars /\ id' = Stays
  <2>1. root = 0
    <3> SUFFICES ASSUME root # 0 PROVE FALSE
      OBVIOUS
    <3>1. allocating /\ todo # <<>>
      BY AsksFacts DEF SpaceInv, Contained, Collecting
    <3> QED
      BY <1>1, <3>1 DEF Work, Operation, Pop, Fetch, Keep, BindSymbol, Rewinds, Hold, In, Call, CallOf, Return, Idle
  <2>2. process' \in {process, "returned"} /\ process = "running"
    <3>1. MachineFits
      BY <2>1 DEF SpaceInv, Contained
    <3>2. process' \in {process, "returned"}
      BY <1>1, <3>1, WorkFits
    <3>3. process = "running"
      BY <1>1 DEF Work, Operation, Pop, Fetch, Keep, BindSymbol, Rewinds, Hold, In, Call, CallOf, Return, Idle
    <3> QED
      BY <3>2, <3>3
  <2> QED
    BY <1>1, <2>1, <2>2 DEF KnotInv, spaceVars
<1>2. CASE Allocate
  BY <1>2 DEF Allocate, Asked, Fills, NewChunk, NewBlockChunk, LinkFront, LinkBack, Linked, Finish, KnotInv
<1>3. CASE StartCollection
  BY <1>3, KnotStart
<1>4. CASE RunOut
  BY <1>4 DEF RunOut, Asked, OutOfMemory, spaceVars, KnotInv
<1>5. CASE Null \/ Known \/ Enter \/ Leave
  BY <1>5, KnotMove
<1>6. CASE EndCollection
  BY <1>6 DEF EndCollection, Moving, KnotInv
<1>7. CASE UNCHANGED vars
  <2>1. UNCHANGED <<heap, loc, registers, bindings, todo, current_heap, heap_position, root, frames, id, process>>
    BY <1>7 DEF vars, machineVars, spaceVars
  <2>2. BeganSmall => BeganSmall'
    <3> SUFFICES ASSUME BeganSmall PROVE BeganSmall'
      OBVIOUS
    <3> PICK e, h, l, r, b : Works(e, h, l, r, b) /\ Laid(DOMAIN h, h, current_heap, current_heap + Half)
      BY DEF BeganSmall
    <3>1. Works(e, h, l, r, b)'
      BY <2>1, KeptSame
    <3>2. Laid(DOMAIN h, h, current_heap', current_heap' + Half)
      BY <2>1
    <3> QED
      BY <3>1, <3>2 DEF BeganSmall
  <2>3. Knot => Knot'
    BY <2>1 DEF Knot
  <2> QED
    BY <2>1, <2>2, <2>3 DEF KnotInv
<1> QED
  BY <1>1, <1>2, <1>3, <1>4, <1>5, <1>6, <1>7 DEF Next, Ended

(* The copies of a collection fit into the free half, except for those of  *)
(* a list that contains itself; and copy_chunk meets no chunk that is none *)
(* (move_chunk; with pointers of 4 bytes).                                 *)
THEOREM CopiesFit ==
  ASSUME SetupFits, PointerSize = 4
  PROVE  Spec => []CollectionsSucceed
<1>1. SpaceInit => KnotInv
  BY DEF SpaceInit, MachineInit, KnotInv
<1>2. SpaceInv /\ WorkInv /\ RoomInv /\ KnotInv /\ [Next]_vars => KnotInv'
  BY KnotStep
<1>3. SpaceInv /\ KnotInv => CollectionsSucceed
  BY DEF SpaceInv, Processes, KnotInv, CollectionsSucceed
<1>4. Spec => [](SpaceInv /\ WorkInv /\ RoomInv)
  BY RoomInvariant
<1> QED
  BY <1>1, <1>2, <1>3, <1>4, PTL DEF Spec

=============================================================================
