# sinavm in TLA+

sinavm interprets a postfix list language. Its point is its memory: every number, symbol, list, list node and block of a
program, the code included, is a *chunk* of one heap, and the heap is collected either by a copying collector (*two-space*)
or, by default, by a thread that marks and reclaims while the program runs (*concurrent*, after Dijkstra et al.). This
directory holds models of both collectors, of the VM and the programs on top of them, and of the way from a program's text to
its symbols; what TLC checks about them; and what TLAPS proves. The modules are written from the C source; `PROJECT.json`
gives the lines each definition stands for.

## The system

| Component | State | Operations | Interacts through | What makes it correct |
|---|---|---|---|---|
| Handshake (`concurrent_allocator.c`: `mutator_await_free_list`, `collector_main`) | two mutexes, two condition variables, `flag_freelist_empty`, `free_list`, `collector_list` | ask for chunks, answer | both threads | the handover races with nothing, no signal is lost, no chunk is lost, both threads get on |
| Marking collector (`collector_*`) | colours in the heap, black and white values, position of the scan | mark roots, find a grey chunk, darken its successors, build the list | reads what the mutator links | no live chunk is reclaimed, garbage is, every collection ends (not all do: run `hang`) |
| Mutator hooks (`mutator_*_hook`) | colours | darken a list and what is pushed or popped | called by the list operations | nothing white is hidden from the collector |
| Two-space allocator | two half heaps, position, the frames of `move_chunk` | allocate, copy | moves every chunk: locals become stale | nobody can tell that anything moved |
| Simple allocator | a position | allocate | | the contract both others must keep |
| VM (`sinavm.c`) | the stacks `ds` and `cs`, bindings, flags | push, pop, new chunks, bind, execute a block | hooks, registers, allocator | lists stay lists, whoever looks at them when |
| Registers (`sina_allocator.c`) | a stack of up to 16 chunks | push, pop | everyone who allocates while holding a chunk | balanced; what is in them is not collected; they suffice |
| Builtins | none | one per word of the language | VM operations | arguments checked, the stacks as the word's user expects, registers given back |
| Interpreter | `cs`, the `current` of each block, the flow control flag | next item, pop a finished block | VM, builtins | the running block stays alive; each item is done once; every item ends |
| Symbol table | two trees, a counter | insert, find | lexer, bindings, printer | one id per name, for ever |
| Lexer, parser | position, `yytext`, bison's stack and lookahead | scan, shift, reduce | symbol table, VM | just the texts of the language; nothing lost on the way; what is built stays alive |
| Pretty printer | none | print a chunk | symbol table | prints the program that was written |
| `main` | how far it is | initialise, parse, show, interpret | all | in this order, or an error |
| `cesar_shift.sina` | the program the collectors were compared with | | the language | its comments, its result |

Hard are: two threads that share the heap with no lock except in the handover, colours that are read and written in
separate steps, a request that may come before, while or after the collector waits for it, an empty grant and its retry,
chunks that only a C local, a register or bison's stack knows, chunks that move, memory that is full to the last byte, a flag one
function sets for another across arbitrary code, and patterns whose longest match is not the one the author thought of. `hazards` in
`PROJECT.json` lists each at its line.

## Modules

```
FreeListService  <==  FreeListHandshake                        the pthread protocol            (proved, and checked with fairness)
                 <==  ConcurrentGC  <-- AnyBuiltin, ProgramRun the marking collector           (proved for AnyBuiltin, and checked with fairness)
ObjectHeap       <==  TwoSpace                                 the copying collector           (proved, and checked)
Effects          <==  StackEffects (ObjectHeap + Effects)      builtins on chunks              (checked)
   ^-- Language <-- Cesar                                      the interpreter on values
Environment      <==  Symbols  <-- FrontEnd (+ Syntax)         symbols                         (proved, and checked with main)

Chunks, Builtins: pure; under ConcurrentGC, ListMachine (ObjectHeap, TwoSpace) and Effects
```
`A <== B`: B implements A. `A <-- B`: B extends or composes A. `MC...` modules give values to constants.

| Module | Models |
|---|---|
| `FreeListService` | the concurrent allocator's promise: chunks are free, spare or in use; a starved mutator is granted what the last collection reclaimed, twice at most |
| `FreeListHandshake` | the pthread protocol of a handover, one action per call on a mutex or condition variable |
| `FreeListHandshakeProofs` | its inductive invariant, safety and refinement, proved |
| `Builtins` | every builtin, the parser's actions and the interpreter's pieces as sequences of VM operations (pure) |
| `Chunks` | what can be read off a heap of chunks: successors, reachability, argument checks (pure) |
| `ConcurrentGC` | the heap beside the collector thread: VM operations with their hooks, allocator, collector, one step per access to shared memory |
| `AnyBuiltin` | `ConcurrentGC` under a program that may call any builtin next |
| `ChunksProofs` | that the operations of each builtin fit together, and what the recursive functions of `Chunks` compute, proved |
| `MarkingProofs` | what the mutator knows of the heap in the middle of a builtin, and the tricolour invariant with half-made steps, proved to survive the steps of both threads |
| `ConcurrentGCProofs` | free lists, the start, the whole invariant of the collector, its safety and refinement, and that garbage is reclaimed, proved |
| `ProgramRun` | `ConcurrentGC` under the parser and the interpreter, running given programs |
| `ListMachine` | the VM in a single thread, one operation a step (two if it allocates), under a program that may call any builtin next |
| `ObjectHeap` | `ListMachine` on memory where chunks stay where they are: what a program is promised, and `simple_allocator.c` |
| `TwoSpace` | `ListMachine` on `twospace_allocator.c`: addresses in bytes, every call of `move_chunk` a step |
| `TwoSpaceProofs` | what the machine knows of its heap between two operations, proved to survive every operation and every step of a collection; no pointer is stale |
| `ObjectHeapProofs` | that `TwoSpace` implements `ObjectHeap`, and that its memory suffices, proved |
| `Effects` | what each builtin does to stacks, lists, numbers and bindings (pure) |
| `StackEffects` | `ObjectHeap` with the stacks and lists read off its chunks, beside `Effects` |
| `Language` | the interpreter on whole programs with numbers, characters, input and output; registers counted |
| `LanguageProofs` | that `loop` finds its block, proved |
| `Cesar` | `cesar_shift.sina`, item by item, and what its comments say |
| `SymbolTable` | `sina_symbols.c` |
| `Environment` | what symbols are good for: a name means what it was last bound to |
| `Symbols` | symbols from `builtins_add` over the lexer to `bind` and `sina_interpret_symbol` |
| `SymbolsProofs` | its invariants and refinement, proved |
| `Syntax` | scanner, bison's automaton, `pprint` of the parsed program |
| `FrontEnd` | `main`: `Symbols` with `Syntax` in the place of its lexer |

### FreeListHandshake

A program counter names the statement a thread executes next, so an action is a statement: `MutatorLockEmpty` is
`pthread_mutex_lock(&mutex_freelist_empty)` in `mutator_await_free_list`. `pthread_cond_wait` is three steps: give up the
mutex and wait (one step), be woken by the other thread's signal, take the mutex again. A signal nobody waits for is lost.
A free list is the set of its chunks. Which chunks a collection finds is left open: any, one at a time.
`SpuriousWakeup` is not part of `Next`; `SpuriousSpec` adds it.

### ConcurrentGC, AnyBuiltin, ProgramRun

A chunk is a record of type, colour and two words (`a`, `b`: first and last of a list, data and next of a node, code and
current of a block). Colours are the code's numbers, black and white swap. Addresses are `0 .. N - 1`, so the stacks are
chunks 0 and 1, the first that `sinavm_initialize` allocates, as in the program.

The mutator executes `todo`, a sequence of operations from `Builtins`. An operation is cut wherever the collector could see or
do something in between: each colour a hook looks at and each colour it writes, each link it writes, the allocation. The
collector is cut the same way: `collector_darken_chunk` reads in one step and writes in a later one, and
`collector_find_grey_chunk` looks at one chunk a step. Its loop is modelled as it is written, the wrap after the increment's
test included.

What is merged, and why nothing is lost by it:
- The handover is one step: `HandoverWhileMutatorWaits`, proved, says that the mutator sleeps meanwhile.
- A chunk is filled in when it is allocated: no other chunk refers to it before it is linked, and it is green, as on the free list.
- `sinavm_push_*` put list and data into registers around `allocate_chunk`; they do so in `RunOut` and take them back in
  `Resume`, since only a handover looks there.
- A hook skips at once the chunks it finds grey or black at its start: they stay grey or black until the next handover, and
  there is none inside a hook.
- The mutator's reads of `first`, `last` and `next` are merged with its next step, since nobody else writes them.
- Marking one root (`colour = grey_value`, no test) is one step.

`Live` is what a program can still reach: from stacks, bindings, registers, a node being linked, and the locals that the
operations to come still use. `lost` is a history variable: at how many handovers in a row a chunk has been garbage.
`AnyBuiltin` leaves the code out: it starts with the two stacks and lets the program do anything its arguments permit, up to
`MaxCalls` calls. `ProgramRun` puts code and interpreter back: `sina_interpret`'s loop runs blocks that lie in the heap,
were allocated by the parser's actions, and are collected like the rest.

### ListMachine, ObjectHeap, TwoSpace

With the two-space allocator there is one thread, so an operation is one step, or two if it allocates: what it holds goes
into the registers (`Hold`), then the new chunk is filled in and what was held is taken back (`NewChunk`, `LinkFront`, ...). Between
the two anything may have moved, and every local the builtin reads afterwards is as it was before. That is the point: a
local that should have been a register now points nowhere.

`ObjectHeap` gives the operation any unused address. `TwoSpace` counts bytes: `Room` is the code's comparison, a
collection moves the roots one by one in the code's order (`ds`, `cs`, bindings, registers), `frames` is the C stack of `move_chunk`
calls, each with the pointer of its chunk that comes next. `Enter` begins a copy, `Leave` writes the forwarding address
over the original, with the sizes of the structs for 4- or 8-byte pointers (`PointerSize`). That a copy is written past the end
of the half ends the process (`overrun`), as does a chunk whose type was overwritten (`unknown_type`). `id` is a history variable:
who a chunk is, wherever it lies. With it, `TwoSpace` is shown to implement `ObjectHeap`: `heap_seen`, `loc_seen` and the like are what is left of the
state when addresses are replaced by names.

Chunks nothing refers to are dropped from `heap` at once, for nothing in either module can tell; `heap_position` still counts them.

### Effects, StackEffects, Language, Cesar

`Effects` says what a word does: `dup` doubles the top item, `list-head` takes the head off the list in place, and so on, with
numbers of `Width` bits that wrap, C's remainder, and the C locale's `isalpha`. `StackEffects` runs the operations of `Builtins` on
chunks and compares the result with `Effects` (`EffectsHold`), so that the interpreter can be modelled on `Effects` alone.

`Language` is that interpreter: `sina_interpret`'s loop in `Interpret`, `NextItem` and `PopBlock`, `interpret_chunk` and
`sina_interpret_symbol` in `Push`, `SymbolChunk`, `Native` and `If`. `header` is what `interpret_chunk` is called on; `current_block`, the
register it holds, is the block's place on `cs`, so that it is still found when other blocks have been put on top of it. `registers`
counts those in use, and each builtin needs as many more as its operations do (`Peak`). `nested` is the C stack, as far as registers
depend on it: the calls of `_if` that have not returned.

### SymbolTable, Symbols, Syntax, FrontEnd

`tsearch` and `tfind` are external: a tree is the function they make of it. `Symbols` gives every builtin its id, lets the lexer
come across names, the program bind and use them; `Outside` is what `vm->bindings` may hold behind its end.

`Syntax` scans a text of *pieces* (a number, a one-letter name, a bracket, a quote, the ends of comments, ends of lines, other
characters) with flex's longest match, line by line, as `.*` does. The parser is the automaton bison makes of
`sina_parser.y`: most of its states have one reduction and make it without a lookahead (`NeedsLookahead`), which is what saves
`yytext`: a string's token is read before the next one overwrites it. `FrontEnd` composes both as `main` does: names of builtins
first, then the text, then `pprint`, then the program.

## Runs

States are distinct states. Every property of a passing run has a mutant in the modules (`..._Forgotten`, `..._OffByOne`, ...), a plausible
slip in the code that violates it in that run.

- `handshake` (4 chunks, 2 a list; 3,776 states): type, handover, assertions, missed requests, conservation of chunks,
  `AwaitReturns`, and `FreeListService` with its fairness. Four chunks give every case: several left, one left, empty grants
  at the first and the second try. The proofs do without a bound.
- `gc` (7 chunks, any 5 of 9 calls; 2.4 million states): `LiveNotFree` (no live chunk is reclaimed), `WhiteProtected` (why:
  while marking goes on, every live white chunk hangs on something still to be darkened), `NothingWhiteAtSwap`,
  `FreeListsIntact`. Seven is odd, so the stray last chunk of an odd heap takes part, and small enough that 5 calls need up to three
  handovers. It is also what it takes for a single pass of the search to fail: with one of the three "just to be sure" passes of
  `collector_find_grey_chunk`, a hook greys a chunk behind the scan and blackens the grey node ahead of it, and the collector stops too early
  (the mutant `ScanPasses_One`).
- `gc_fair` (6 chunks, any 6 of 5 calls; 362,000 states): garbage is reclaimed before its third
  handover (two are possible: the bound is exact), and the collector on a real heap implements `FreeListService`, fairness
  included. `GarbageReclaimed` leaves out the green nodes of `sinavm_push_back` (below). None of these calls pushes anything on the code stack, chunk 0 of
  the heap, and so no hook greys it late: in a heap of any size they cannot lead to the endless search of `hang`. That `FreeListService` is implemented with its
  liveness is shown for such calls only; for the others see `loop`.
- `program` (34 chunks, eight programs; 740,000 states): calls, bindings, `if`, arithmetic, `swap`, `roll`, strings and lists,
  parsed and run to the end: no live chunk reclaimed, `RegistersBalanced`. 34 chunks: half of them must hold stacks and code (see `parse`), and all
  programs run through a handover after that.
- `loop` (20 chunks, `{ } call loop`; 1.1 million states): a program without an end, one collection after the other. It is the program of `hang`, with
  the same heap, so that the search that never ends does occur. `AnsweredUnlessEndless` says that nothing else keeps a mutator waiting: a request is
  answered, or the collector searches from the first chunk of the heap on with nothing grey (`Endless`), and then no collection ends any more.
- `twospace` (halves of 152 bytes, 4-byte pointers, any 5 of 15 calls; 203,000 states): no stale pointer, nothing copied twice and no
  garbage (`Compacted`), memory runs out only when it is full, copies fit (but for lists that contain themselves), every allocation returns or ends the
  process, and `ObjectHeap` is implemented. 152 bytes hold the stacks, a block on `cs`, a block and a number on `ds` and about as
  much again, so that five calls fill the half, collect, fit exactly, and run out.
- `effects` (27 statements, any 4 in a row; 144,000 states): `EffectsHold`, `ListsWellFormed`. The heap has room for all they allocate; `ds` starts with a
  block, a list and a number, `cs` with a block that has come to its end, for `loop` to rewind. Four statements make and share lists, empty and refill one through both ends, bind and call.
- `language` (every program of up to four of twelve words of control and of up to five of eight words on lists, every builtin inside one to seven `if`s,
  and `cesar_shift.sina` on every file of up to three of five characters and of four of four; 835,000 states): `LoopHasBlock`, an assertion of the code;
  `RegistersSuffice`; `CommentsHold`, `ShiftsItsInput`, what the program's comments say; `ItemEnds`, `DataUnchanged`. The words of control are those that
  redirect it, among them `:if` and `:break`, which a program binds or passes to `if`; those on lists make, share and change them; three characters give a
  first, a middle and a last one. `Width` is 16, more than any character needs; 30 items on the stacks let a program that pushes for ever come to an end.
  `RegistersSuffice` says that registers never run out with fewer than five `if`s interpreting each other's symbols, and five is exact: `roll` needs
  seven registers, so that four levels take 1 + 8 + 7 = 16, all there are, and five are two too many. With seven levels whatever is inside fails. Every builtin is
  tried at every depth, and what it needs depends on nothing else: a left-over register is all that could make a program of another shape run out sooner.
- `front` (31,465 texts: all of up to three pieces, of four of twelve pieces, and of five brackets, colons and names; room for two
  bindings; 426,000 states): `ParsesExactly`, `PrintsWhatItRead`, `ParseEnds`, `IdsKept`, `FindInvertsInsert`, and `Environment` is implemented.
  `ParsesExactly` compares with a definition that reads a text from left to right without a stack of symbols. The builtin's name is in the
  texts too: it must keep its id. Two bindings, so that a third symbol is beyond the end.

Runs that find what the code or its documentation denies (`findings` in `PROJECT.json`):

- `break`: `_break` pops `cs` without a hook, the running block is reclaimed while the interpreter holds it.
- `hang`: `collector_find_grey_chunk` does not return when it starts at `heap` and nothing is grey, and a late write of grey by a
  hook leads there. (Safety is not affected: `loop`.)
- `parse`: code longer than the first free list is collected while it is parsed.

Two configurations vary a passing run where the platform makes the difference. They are not among the runs of `PROJECT.json`, and what they show stands here only:

- `handshake_spurious.cfg` (`MCFreeListHandshake`): POSIX allows `pthread_cond_wait` to return unsignalled. Both threads test with `if`, not
  `while`, and one such return trips the assertion at `concurrent_allocator.c:245`.
- `wide.cfg` (`MCTwoSpace`): with 8-byte pointers a forwarding address needs 16 bytes, and an integer has 8: it overwrites the type of
  the chunk behind, and the process ends in `copy_chunk: unknown type`, said to be unreachable (`twospace_allocator.c:207`).
  It is assumed that the low byte of the new address, which lands on the type, is not 0. 0 is `MOVED_CHUNK`: the chunk behind would then be
  taken for one that was moved, and what its words hold for its new address. One chunk in 32 may have such an address. What is claimed for `PointerSize = 8` (`NoStalePointer` above all)
  presumes that none has.

## Where the code and its documentation differ

Beside the findings, modelling turned up these. In each case the model does what the code does, and the property that would deny
it names the exception.

| Code | Its documentation | In the models |
|---|---|---|
| a node linked by `sinavm_push_back` stays green (`sinavm.c:59`); dropped before it was marked it is never collected | "it will be collected and reused" (`sinavm.h:46`) | `Leaked` in `GarbageReclaimed` |
| a list that contains itself (`list-new dup dup append`) is copied over and over, past the end of the half | "there is enough space in the free heap" (`twospace_allocator.c:123`) | `Knot` in `CollectionsSucceed` |
| `char_is_alpha` passes `vm->ds` and `sinavm_new_int(1)` as arguments: read first, `vm->ds` is stale | `sina_allocator.h:28-30` | evaluated from the right, as gcc does on x86; the other order is the mutant `char_is_alpha_DsFirst` |
| `append`, `list-head`, `list-prepend` change a list that `dup` shares, and literals in the code: `list-new dup 1 append` leaves `( 1 )` twice | "a policy of not changing data" (`sina_builtins.c:274`), which is why `dup` need not copy | `Effects` changes the shared list. The policy is false; `DataUnchanged` says what is left of it: these builtins (`Changing`) change the very list they are given, under all its names, and no builtin changes any other. The programs of `language` change lists they share |
| `break` leaves the flow control flag alone | "Used by builtins such as 'loop' and 'break'" (`sinavm.h:127`) | only `loop` sets `flowcontrol` |
| five `if`s that execute each other's symbols, the last one `roll`, need more than 16 registers | | `nested` in `RegistersSuffice` |
| `print_int` writes the character with that number | "print an integer" (`sina_builtins.c:251`) | `Characters` |
| a block is pushed on `ds` | "push chunk onto CS" (`sina_interpreter.h:28`) | `Push` |
| `'Z' 'A' sub mod` is modulo 25: y becomes A, z becomes B | "cesar shift the character" (`cesar_shift.sina:2`) | y and z in `ShiftsItsInput` |
| `sinavm_dereference_symbol` reads beyond `vm->bindings` | "or NULL if symbol was not bound yet" (`sinavm.h:106`) | `Outside` in `Environment` |
| with two comments or strings on a line, what stands between them is lost | "ignore comments" (`sina_lexer.l:20`) | `Plain` in `ParsesExactly`, `PrintsWhatItRead` |
| where `char` is signed, a byte beyond ASCII ends the program, and parsing succeeds | | "foreign" in `Reading` |
| symbols bound in a circle overflow the C stack | | `Circular` in `ItemEnds` |

The race the code's FIXME fears in binding symbols (`concurrent_allocator.c:324`) does not occur: `bind` pops the data to a register
first, and that hook greys it. `simple_allocator.c` no longer compiles: it sets a hook `sinavm.h` does not declare.

## Fairness

`Collector` is weakly fair: it is a thread of its own. In `FreeListHandshake` only `mutator_await_free_list` is fair for the mutator, in
`AnyBuiltin` only the operation it is in: nothing obliges a program to allocate. `ProgramRun`'s interpreter is fair. Weak fairness
suffices for the mutexes: no thread can take the one the other waits for over and over without waiting itself.
`FreeListService` asks that grants, the end of collections and the mutator's reaction are fair, never that anything is reclaimed.

`TwoSpace`, `Language` and `FrontEnd` have one thread, which nothing stops: `WF(Next)`. Their `Ended` step keeps a
finished process from looking like a deadlock. Everything the models take for input is there from the start (`stdin`, the text).

## Proofs

`FreeListHandshakeProofs` proves for any finite or infinite set of chunks and any split of it (`HalfAssumption`: the first half is part of the heap):
`TypeCorrect`, `HandoverIsSafe`, `AssertionsNeverFail`, `RequestsAreSeen`, `ChunksAreConserved` (`Spec => []P` each), and
`Refinement` (`Spec => Service!Spec`).

None of these is inductive alone. That the mutator waits at the handover holds because it took `mutex_freelist_ready` before it let the collector see the flag,
so `IInv` says which program counters own which mutex (`Owners`), when exactly the flag is up (`Flag`), how far the mutator must be
when the collector has seen a request (`Overlap`), and that the list to be overwritten is empty (`Starved`). `ControlStep` shows the
first three preserved, statement by statement, from type correctness alone; `ListStep` adds lists and assertions. The
refinement maps `CollectorAssign` to `Grant` and the end of a collection to `FinishCollection`; every other synchronisation is a stutter.

`SymbolsProofs` proves for any names, any builtins among them, any chunks and any size of `vm->bindings` (`ConstantsAssumption`):
`SymbolsTypeCorrect`, `TablesAgree`, `NewSymbolsMeanNothing`, `IdsAreKept`, and `SymbolsRefinement` (`Spec => E!Spec`). The inductive
invariant `Inv` is type correctness, that both trees agree, and that an id nobody has is unbound; without the last one a new name would
not start without a meaning, which `Environment` demands. `InsertKeepsTables` does all work on the trees, once, for the builtins and the lexer.
The refinement turns ids into names: `names` is the tree by id, `meaning` the bindings looked up through the tree by name.

### The marking collector

Two modules, one on top of the other, prove for a heap of any size from four chunks (`HeapAssumption`), any number of symbols
(`SymbolAssumption`: numbered from 0), and any calls of the builtins, as many as one likes (`CallsAssumption`, `MaxCallsAssumption`), beside
the collector, step by step as in run `gc`: `NothingLiveIsReclaimed`, `WhiteIsProtected`, `RegistersAreKept`, `SwapFindsNothingWhite`, `ListsIntact`,
`TypesKept`, `GarbageIsReclaimed` (`Spec => []P` each), and `CollectorServes` (`Spec => Service!Spec`). `CallsAssumption` leaves out `break` and `loop`, which need a
running block: `AnyBuiltin` has none, and with `break` `RegistersKept` is false (run `break`).

The invariant is `Inv == SwapInv /\ Counted /\ Listed /\ Queued /\ HeapSound`, and `HeapSound` is `Booting` (the two stacks are being made) or
`Sound(K, o, c, S)` for some `K`, `o`, `c` and `S`, which the proof carries along from step to step:

- `K` is a set of chunks that holds all the program can get at, and that no chunk of it leads out of. The invariant is about `K`, not about what can be
  reached, so that a step that only makes something unreachable changes nothing, and no proof needs to follow a path.
- `o` tells the list a node belongs to. Lists shared, emptied and refilled stay lists (`Owned`: the last node is where
  `LastOf` says, in the middle of a push or pop too), even while their first and last disagree. Without it, what `sinavm_pop_front_to_register` reads could be anything.
- `c` is what is known before the operations to come: which locals hold a chunk of which type, what is in the registers, what the assertions
  found on `ds`. It is a certificate as a type checker would give (`Certified`), and `BuiltinsFit` says that every builtin has one. It is what allows a
  theorem about *any* calls: the mutator steps are proved once for each operation, not for each builtin.
- `S` is the set of chunks whose successors have been seen to. While the collector marks, a chunk in `S` is not white, and its successors are grey or in `S` themselves (`Done`),
  but for what a thread still has in its hands: the chunk that is darkened (`AtWork`), what a hook has yet to look at (`HooksDone`), the node that is being
  linked (`Weak`), the roots still to be marked (`Pending`). `S` is not "black": a hook may write black late, on a chunk that the
  collector has not visited, or grey late, on one that it has. What a black chunk is good for is therefore history, not colour.

Two things were less obvious than they look. The first node of a list may change while the collector looks at the list, so that the old first is
all it darkens: what counts is that every node *along* the list will be marked (`Along`). And `Passes` says why the search for grey chunks must go
round more than once: a hook can make a chunk grey behind the scan and, late, make the only grey node ahead of it black; but there is one such node at a time, so that if nothing
was found in one round and grey is left, there is another ahead. It is this conjunct that fails for `ScanPasses_One`.

`Listed` says that free list and collector list are straight, disjoint, and together are the free green chunks. What `Closure` and
`Reachable` compute by recursion over a heap is taken as a least closed set: `ReachIsHull` and `ReachIsLeast` show in `ChunksProofs` that it is one.
No induction theorem is used for it: a recursive function is shown to exist by giving it, and to be unique by a greatest argument on which two of them would differ.

For `CollectorServes`, `Moved` says what a step does to both lists: `Allocate` takes the first free chunk, `Handover` passes the collector's list on,
`Build` may add a chunk, and everything else leaves them alone and moves `demand` and `tries` as the service does (`QuietlyServes`).

`GarbageIsReclaimed` is the opposite of `NothingLiveIsReclaimed` and needs an invariant of its own, `GarbageInv`, beside `Inv`. `Inv` does not say that
anything outside `K` is garbage. Here that is said of `lost`: there is a set that holds all the program can use, that nothing leads out of, and in which no
chunk was garbage at the last handover (`Holding`), so that garbage stays garbage until it is allocated again (`FreeIsNew`). What becomes of it:

- Its colour (`Fading`). The first handover that finds a chunk garbage may find it in any colour, and it may be marked once more in the collection that follows,
  for the hooks grey what was live a moment ago. What hangs on a chunk has not been garbage for longer than the chunk itself (`Outlives`), so the
  collector marks nothing that two handovers have found garbage (`WorksOnYoung`): it is white, since the colours swap, and `Build` takes it.
- That it is not green. The collector takes white chunks only, and a new chunk is green like a free one until something greys it. `GreenHeld` says where a green
  chunk that is not a node can be: it is a stack, or the operation to come pushes it or pushes to it, or `read_line` has it in a register or a local while it allocates
  the first number. This holds as every builtin but `read_line` pushes what it allocates in the very next operation (`NewSent`), and as the hook of a push colours the item
  and the list before it links them (`PushSeen`). The nodes of `sinavm_push_back` are the exception (`Leaked`).

### The copying collector

`TwoSpaceProofs` proves for halves of any size (`HalfAssumption`), pointers of four or eight bytes (`PointerAssumption`), any finite set of symbols
(`SymbolAssumption`) and any number of any calls (`CallsAssumption`: every builtin, `break` and `loop` included), `Spec => []P` for
`TypeCorrect` (`TypeOK`), `NothingStale` (`NoStalePointer`), `TypesKnown` (with four-byte pointers no copy meets a destroyed type), `ListsStayLists`
(`ListsWellFormed`, here for a heap that moves) and `RegistersGivenBack` (no register is in use between two builtins). They have one
hypothesis, `SetupFits`: the literals of the program (`Setup`) fit together as the operations of a builtin do. It is met by no literals at all
(`NoLiteralsFit`) and by the literals of the run (`BlockAndNumberFits`).

The invariant is `SpaceInv == Ranges /\ Processes /\ Contained`, and `Contained` says what state the machine is in:

- Outside a collection `MachineFits`: the stacks are being made (`Booting`), or there are `o` and `c` with `Sane` and `Knows` (between two operations) or
  `Sane` and `Waits` (in the middle of one that allocates); and every chunk lies in the half in use. `Sane` says that chunks and roots refer to chunks of the types they
  should (`Words`, `Rooted`), which list a node belongs to (`Owned`), and that a walk along a list comes to its last node (`AllEnd`: a set that holds the
  first node, and with each the next, holds the last; said so, no step of its proof needs induction). `Knows` says what context `c` promises of locals, registers and the items on
  `ds`: the certificates of `ChunksProofs` again. `Waits` promises nothing of any local, only of the registers, and that all the operation still needs is in
  them. That is the point: whatever moves, the registers move with it.
- During a collection `Collecting`: there are the heap `h`, locals, registers and bindings it began with, of which all of the above holds, and a function `fin`
  from finished copies to the chunks they copy, such that what is in memory now comes from them (`Copying`). `Original` says that a chunk of `h` is as it was until it is marked
  with its copy, `CopiedChunk` that a finished copy has the same contents with its pointers moved, `RootsMoved` that the roots before `root`
  point to copies and the others to where they did, and `Called` that frames are nested, each copying what the one before it waits for.

That no chunk is copied twice (`Injects`) is the difficult part, for a list that contains itself *is* begun more than once: its mark comes last. But the inner copy is
never finished. It would have to get past the pointer that the outer one waits for, whose copy is not finished either, and so on along the frames (`LeaveCopies`).

At the end everything that can be reached is an image of `h` under `fin` (`EndIsImage`), and an image of a machine in order is in order (`ImageWords`,
`ImageOwned`): none of `Sane`, `Knows` and `Waits` speaks of addresses. There is one lemma for each action (`StartFits`, `MoveFits`, `EndFits`,
`AllocateFits`, `WorkFits`), and, for the machine, one for each operation (`PopReady`, `FetchReady`, ...).

`ObjectHeapProofs` proves the refinement, `NothingMoves` (`Spec => Ideal!Spec`), with one more hypothesis: four-byte pointers, for with eight it is false
(`wide.cfg`: `unknown_type` is no state of `ObjectHeap`). A copy that runs past the end is `ObjectHeap`'s `OutOfMemory`.

- `Works` says on what the program works: on the heap `h`, locals, registers and bindings there are, or on those a collection began with, and `e`
  gives each chunk of `h` its name. Nothing in `h` is garbage (`Trimmed`). `Shows` says that the mapping yields just these, with names for addresses (`Alike`,
  `NamesOf`), wherever a collection is: a chunk has one holder, itself until it is marked and its finished copy from then on (`HolderIs`).
- So every step of a collection is a stutter: `MoveHidden` and `StartHidden` leave `Works` as it is, and `EndHidden` exchanges `h` for its image. Because there is
  no garbage in `h`, all of it has been copied (`ImageTrimmed`): this is where `Trimmed` is needed, and why `heap` must not keep chunks nothing refers to.
- Every step of the machine is one of `ObjectHeap`: an operation on chunks gives, name for name, the operation on names (`KeepSeen`, `PopSeen`, `HoldSeen`, ...,
  `StatementsSeen` for the interpreter's checks), what cannot be reached is the same on both sides (`NamedReach`), and for a new chunk there is always a name left, since every
  chunk takes room in the half (`NameLeft`).
- At `Hold` the locals the operation does not need any more are dropped; everything they refer to is in the registers (`HoldDrops`), or `h` would lose a chunk without
  being told. `WorkInv` therefore says that locals are the stacks and what is still used.

The same module proves, under the same hypotheses, that the memory is well used: `CollectionsCompact` (`Compacted`), `MemoryLasts` (`RunsOutOnlyWhenFull`) and
`CopiesFit` (`CollectionsSucceed`), `Spec => []P` each.

- `RoomInv` says that the chunks lie side by side from the start of the half to `heap_position` (`Laid`); that there are no gaps between what a collection has
  left, or between the copies it is making (`Packed`); and that the process is out of memory only where a collection has just left too little (`Exhausted`). Between
  collections there are gaps: what nothing refers to is no longer in `heap`, but still takes room. A copy keeps the type, and so the size, of what it
  copies (`CopiesKeepTypes`), as both go by one name.
- `LiveBytes` is a sum over a set, a fold. `LiveCounted` makes it the size of a set of pairs (`Cells`: each chunk with the numbers from 1 to its size). In
  chunks that lie side by side each pair has a byte of its own (`LaidFit`), and where there are no gaps each byte has a pair (`PackedFill`), so that the sum is
  the length of the row. That the fold is this number needs no induction theorem
  either: there would be a smallest set for which it is not (`AddsOnce`). `CollectionsCompact` follows at once, and
  with it `MemoryLasts`.
- `CopiesFit` is the claim of the comment at `twospace_allocator.c:123`, and what is missing in it. Each finished copy, each copy that is begun and the one to come
  stands for a chunk of `h`, all of different ones as long as none of the chunks that wait for their copy (`Line`) is there twice. Then they fit, because `h` did
  (`CopyFits`). If one is there twice, the line from it to itself is a circle of pointers (`CircleIsKnot`), which are still in place, because a chunk that waits has
  not been marked: a list contains itself. `KnotInv` remembers that `h` fitted (`BeganSmall`), and that during a collection, too, all
  pointers lead to chunks (`RefersInside`).

### The interpreter

`LanguageProofs` proves `LoopFindsItsBlock` for any sessions, literals, characters and width. (`NativesAssumption`: names bound to natives are those of
`builtins_add`.) `LoopHasBlock` is not inductive: what is needed is that `cs` is not empty while an item is interpreted, and that nothing is
interpreted between two items; every effect but that of `break`, which needs a block itself, leaves the blocks that are there.

### Only model-checked

- Liveness, and fairness in the refinements: `ENABLED` is out of TLAPS's reach here (`AwaitReturns`, `AnsweredUnlessEndless`, `AllocationReturns`, `ItemEnds`, `ParseEnds`).
- `RegistersBalanced` and `LiveNotFree` of `ProgramRun`: there the code itself lies in the heap, and what the interpreter's `Advance` writes to is known
  only to it. `LiveNotFree` does not hold for every program (`parse`), so a proof would need a bound on programs.
- What happens with eight-byte pointers, but for `TypeOK`, `NoStalePointer`, `ListsWellFormed` and the registers: `wide.cfg` shows what goes wrong.
- `EffectsHold`, `ParsesExactly`, `PrintsWhatItRead`: both sides are recursive over data, for which the provers have no induction.
- `RegistersSuffice`, `DataUnchanged`: nothing in them is particular to the programs of run `language`, but for other programs nothing is proved.
- `CommentsHold`, `ShiftsItsInput`: they are about `cesar_shift.sina`.

## Not modelled

Abstractions to keep in mind:
- Memory is sequentially consistent. On a machine that reorders the unfenced accesses more can go wrong than is shown here.
- In `ConcurrentGC` and `TwoSpace` a number has no value (a condition goes both ways), strings and input lines have one
  character, and the 27 native chunks `builtins_add` binds are left out: they are always reachable and refer to nothing. (In `TwoSpace`
  they take room that never changes.)
- The C stack has no limit: `move_chunk` needs a frame for each node of a list, and a circle of symbols or a knot printed by `pprint` ends only with the stack.
- A builtin that fails has no effects; in the code, `print-string` may have written a part of its list by then. What `print-string` asserts of each item
  is in `Effects` only: in `ConcurrentGC` and `ListMachine` it takes any list, more than the code does.
- Names have one letter, and a character in quotes is a number like any other.

Left out for good: the trace flag with `trace-on` and `trace-off`, `pprint_native` and `pprint_chunk_info` (output only), `main`'s
command line, `testharness.py` (builds and measures), `test.sina` and `symbols.sina` (they add one for ever, the shape of `loop`).
