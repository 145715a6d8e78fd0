----------------------------- MODULE AnyBuiltin -----------------------------
(***************************************************************************)
(* ConcurrentGC under a program that may call any builtin next: the        *)
(* interpreter is left out, and with it the chunks of the program's code,  *)
(* literal lists included.  ProgramRun puts both back.                     *)
(***************************************************************************)
EXTENDS ConcurrentGC

CONSTANTS Calls,      \* what the program may do, by name
          MaxCalls    \* how much of it is explored

(* _if is known by what it goes on to do.  break and loop are for the code *)
(* of a block, and here there is none.                                     *)
ASSUME CallsAssumption ==
  Calls \subseteq (BuiltinFunctions \ {"if", "break", "loop"})
                  \cup {"if-not", "if-block", "escaped-symbol", "symbol"}

ASSUME MaxCallsAssumption == MaxCalls \in Nat

VARIABLE calls

vars == <<gcVars, calls>>

Init == GCInit /\ todo = initialize /\ calls = 0

(* What the interpreter does for the next item of the program: a builtin,  *)
(* an escaped symbol, or a bound symbol.                                   *)
Statements(name) ==
  CASE name = "escaped-symbol" -> {escaped_symbol(s) : s \in Symbol}
    [] name = "symbol"         -> UNION {Bound(Meant(s)) : s \in Symbol}
    [] OTHER                   -> IF Fits(0, name) THEN {Program(name)} ELSE {}

Idle == process = "running" /\ todo = <<>>

Call ==
  /\ Idle /\ calls < MaxCalls
  /\ \E name \in Calls : \E ops \in Statements(name) : todo' = ops
  /\ calls' = calls + 1
  /\ loc' = [x \in {"cs", "ds"} |-> loc[x]]
  /\ UNCHANGED <<heap, shared, registers, mpc, hook, node, tries, flowcontrol,
                 collectorVars, process, lost>>

(* A wrong argument stops the process. *)
Fail ==
  /\ Idle
  /\ \E name \in Calls : Statements(name) = {}
  /\ process' = "error"
  /\ UNCHANGED <<heap, shared, registers, loc, opVars, flowcontrol, collectorVars,
                 lost, calls>>

Return ==
  /\ Idle
  /\ process' = "returned"
  /\ UNCHANGED <<heap, shared, registers, loc, opVars, flowcontrol, collectorVars,
                 lost, calls>>

Mutator == Call \/ Fail \/ Return \/ (MutatorStep /\ UNCHANGED calls)

Collector == CollectorStep /\ UNCHANGED calls

Next == Mutator \/ Collector \/ (Ended /\ UNCHANGED calls)

Spec == Init /\ [][Next]_vars

(* Both threads are scheduled; the program need not call anything more.    *)
FairSpec == Spec /\ WF_vars(MutatorStep /\ UNCHANGED calls) /\ WF_vars(Collector)

(* The collector on a real heap implements the allocator's abstract        *)
(* promise: every collection ends, hands over just what it reclaimed, and  *)
(* a mutator that finds nothing asks twice before the process ends.  The   *)
(* calls of run gc_fair leave the code stack alone, the first chunk of the *)
(* heap; with others a collection may be endless (ConcurrentGC!Endless).   *)
ImplementsService == Service!FairSpec

(* Every variable stays in its range. *)
TypeOK == GCTypeOK /\ calls \in 0 .. MaxCalls

=============================================================================
