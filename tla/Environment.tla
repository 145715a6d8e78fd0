----------------------------- MODULE Environment -----------------------------
(***************************************************************************)
(* What the symbols of a program are good for: a name means what it was    *)
(* last bound to, and nothing before that.  Names are numbered as they     *)
(* come; only the first Max - 1 can be bound, and to ask for the meaning   *)
(* of one beyond them may bring anything (Outside).                        *)
(***************************************************************************)
EXTENDS Naturals, Sequences

CONSTANTS Name, Chunk, Outside, NULL, Max, Builtin, Native(_)

VARIABLES names,    \* those that have come up, in order
          meaning,
          answer,   \* who asked last, and what came back
          phase

vars == <<names, meaning, answer, phase>>

Init ==
  /\ names = <<>>
  /\ meaning = [n \in Name |-> NULL]
  /\ answer = <<0, NULL>>
  /\ phase = "initializing"

(* The name is the i-th, old or new. *)
Comes(name, i) ==
  \/ i \in DOMAIN names /\ names[i] = name /\ names' = names
  \/ i = Len(names) + 1 /\ (\A j \in DOMAIN names : names[j] # name)
     /\ names' = Append(names, name)

MeansNow(name, i, c) ==
  IF i < Max THEN meaning' = [meaning EXCEPT ![name] = c] /\ phase' = phase
             ELSE meaning' = meaning /\ phase' = "error"

(* A builtin gets its name. *)
Define ==
  /\ phase = "initializing"
  /\ \E name \in Builtin, i \in 1 .. Len(names) + 1 : Comes(name, i) /\ MeansNow(name, i, Native(name))
  /\ UNCHANGED answer

Phases == << "initializing", "parsing", "running", "returned" >>

Proceed ==
  /\ \/ \E k \in 1 .. 3 : phase = Phases[k] /\ phase' = Phases[k + 1]
     \/ phase = "parsing" /\ phase' = "error"
  /\ UNCHANGED <<names, meaning, answer>>

Read ==
  /\ phase = "parsing"
  /\ \E name \in Name, i \in 1 .. Len(names) + 1 : Comes(name, i)
  /\ UNCHANGED <<meaning, answer, phase>>

Bind ==
  /\ phase = "running"
  /\ \E i \in DOMAIN names, c \in Chunk : MeansNow(names[i], i, c)
  /\ UNCHANGED <<names, answer>>

Ask ==
  /\ phase = "running"
  /\ \E i \in DOMAIN names, c \in Chunk \cup Outside \cup {NULL} :
       /\ i < Max => c = meaning[names[i]]
       /\ answer' = <<i, c>>
       /\ phase' \in {"running", "error"}
       /\ c = NULL <=> phase' = "error"
  /\ UNCHANGED <<names, meaning>>

Next == Define \/ Proceed \/ Read \/ Bind \/ Ask

Spec == Init /\ [][Next]_vars
=============================================================================
