--------------------------- MODULE CoreExtractor ---------------------------
(***************************************************************************)
(* The binary-split minimal-unsatisfiable-core routine                     *)
(*   nondeter_prog_state::MUC (af_prt_set f_set, aalta_formula *avoid)     *)
(* of progression/nondeter_prog_state.cpp, lines 656-754.                 *)
(*                                                                         *)
(* A conjunct of f_set is a literal (a number, ordered as the std::set     *)
(* iterates).  The propositional oracle SAT() is abstracted by a family    *)
(* of unsatisfiable cores: a conjunction, taken together with the side     *)
(* constraints (the global formula, _avoid and !X avoid, that is           *)
(* basic_to_check), is unsatisfiable iff it contains one of the cores.     *)
(* The empty core stands for unsatisfiable side constraints.               *)
(***************************************************************************)
EXTENDS Naturals, FiniteSets, Sequences, SequencesExt

CONSTANTS
  Lits,       \* the conjuncts a core can be made of
  MaxCores,   \* at most this many cores in the abstract oracle
  NULL        \* the NULL formula returned by MUC

ASSUME /\ Lits \subseteq Nat /\ Lits # {}
       /\ MaxCores \in Nat \ {0}

VARIABLES
  cores,      \* the oracle: its unsatisfiable cores (fixed in a run)
  fset,       \* argument f_set
  hasAvoid,   \* argument avoid # NULL
  untils,     \* _unsatisfied_untils, erased from the result when avoid # NULL
  lt,         \* the worklist std::list lt, used as a FIFO queue
  affirmed,   \* literals proven necessary
  pc,         \* "start", "loop", "done" (returned) or "exit" (exit (0))
  result      \* the returned core, or NULL

vars == <<cores, fset, hasAvoid, untils, lt, affirmed, pc, result>>

(* The oracle: SAT (S /\ side constraints) is empty.                       *)
Unsat(S) == \E c \in cores : c \subseteq S

(* split_binary: the first |P| \div 2 elements in iteration order go to    *)
(* P2, the others to P3.                                                   *)
LowHalf(P) ==
  {x \in P : Cardinality({y \in P : y < x}) < Cardinality(P) \div 2}

-----------------------------------------------------------------------------
(* Plausible faults, each used by one mutant run in place of the          *)
(* definition it is named after.                                           *)

\* The half is tested without the sets still in the queue (lt_formula).
StillUnsatNoQueue(S) == Unsat(S \cup affirmed)

\* The early return on unsat side constraints (basic_to_check) is missing.
BeginNoBasicCheck ==
  /\ pc = "start"
  /\ Unsat(fset)
  /\ lt' = <<fset>>
  /\ pc' = "loop"
  /\ UNCHANGED <<cores, fset, hasAvoid, untils, affirmed, result>>

\* When both halves are satisfiable the popped set is queued again whole.
KeepBothUnsplit ==
  /\ pc = "loop" /\ lt # <<>>
  /\ Cardinality(Head(lt)) >= 2
  /\ lt' = Append(Tail(lt), Head(lt))
  /\ UNCHANGED <<cores, fset, hasAvoid, untils, affirmed, pc, result>>

-----------------------------------------------------------------------------
Init ==
  /\ cores \in {F \in SUBSET SUBSET Lits : Cardinality(F) <= MaxCores}
  /\ fset \in SUBSET Lits
  /\ hasAvoid \in BOOLEAN
  \* only the Until conjuncts among f_set can be erased from the core
  /\ untils \in IF hasAvoid THEN SUBSET fset ELSE {{}}
  /\ lt = <<>>
  /\ affirmed = {}
  /\ pc = "start"
  /\ result = NULL

(* guarantee_check: f_set with the side constraints must be unsat, else    *)
(* the process prints the formulas and exits.                              *)
GuaranteeFails ==
  /\ pc = "start"
  /\ ~Unsat(fset)
  /\ pc' = "exit"
  /\ UNCHANGED <<cores, fset, hasAvoid, untils, lt, affirmed, result>>

(* basic_to_check: the side constraints alone are unsat, return NULL.      *)
BasicUnsat ==
  /\ pc = "start"
  /\ Unsat(fset)
  /\ Unsat({})
  /\ pc' = "done"
  /\ UNCHANGED <<cores, fset, hasAvoid, untils, lt, affirmed, result>>

Begin ==
  /\ pc = "start"
  /\ Unsat(fset)
  /\ ~Unsat({})
  /\ lt' = <<fset>>
  /\ pc' = "loop"
  /\ UNCHANGED <<cores, fset, hasAvoid, untils, affirmed, result>>

(* The SAT test of a half: the half, the affirmed literals and every set   *)
(* still queued (f_affirmed, lt_formula), with basic_to_check.            *)
StillUnsat(S) == Unsat(S \cup affirmed \cup UNION ToSet(Tail(lt)))

(* One iteration of the while (!lt.empty ()) loop pops P = lt.front ()    *)
(* and splits it; the alternatives below are the iteration's exits.        *)
Popped == Head(lt)
P2 == LowHalf(Popped)
P3 == Popped \ P2

(* A singleton half whose other half is empty is affirmed (the test of P2  *)
(* is skipped because P2 is empty).                                        *)
Affirm ==
  /\ pc = "loop" /\ lt # <<>>
  /\ \/ Cardinality(P2) = 1 /\ P3 = {}
     \/ P2 = {} /\ Cardinality(P3) = 1
  /\ affirmed' = affirmed \cup Popped
  /\ lt' = Tail(lt)
  /\ UNCHANGED <<cores, fset, hasAvoid, untils, pc, result>>

(* P2 alone (with the rest) is still unsat: queue P2 and drop P3.          *)
KeepLow ==
  /\ pc = "loop" /\ lt # <<>>
  /\ P2 # {} /\ ~(Cardinality(P2) = 1 /\ P3 = {})
  /\ StillUnsat(P2)
  /\ lt' = Append(Tail(lt), P2)
  /\ UNCHANGED <<cores, fset, hasAvoid, untils, affirmed, pc, result>>

(* P2 was satisfiable, P3 alone is still unsat: queue P3 and drop P2.      *)
KeepHigh ==
  /\ pc = "loop" /\ lt # <<>>
  /\ P2 # {} /\ ~(Cardinality(P2) = 1 /\ P3 = {})
  /\ ~StillUnsat(P2)
  /\ P3 # {}
  /\ StillUnsat(P3)
  /\ lt' = Append(Tail(lt), P3)
  /\ UNCHANGED <<cores, fset, hasAvoid, untils, affirmed, pc, result>>

(* Both halves are needed: queue both.                                     *)
KeepBoth ==
  /\ pc = "loop" /\ lt # <<>>
  /\ P2 # {} /\ ~(Cardinality(P2) = 1 /\ P3 = {})
  /\ ~StillUnsat(P2)
  /\ P3 # {}
  /\ ~StillUnsat(P3)
  /\ lt' = Tail(lt) \o <<P2, P3>>
  /\ UNCHANGED <<cores, fset, hasAvoid, untils, affirmed, pc, result>>

(* The queue is empty: return AND (affirmed), minus the outstanding Until  *)
(* conjuncts when an avoid formula was given; AND of the empty set is      *)
(* NULL.                                                                   *)
Finish ==
  /\ pc = "loop" /\ lt = <<>>
  /\ LET core == IF hasAvoid THEN affirmed \ untils ELSE affirmed
     IN  result' = IF core = {} THEN NULL ELSE core
  /\ pc' = "done"
  /\ UNCHANGED <<cores, fset, hasAvoid, untils, lt, affirmed>>

Next ==
  \/ GuaranteeFails \/ BasicUnsat \/ Begin
  \/ Affirm \/ KeepLow \/ KeepHigh \/ KeepBoth \/ Finish

(* A sequential loop in one thread: it keeps running while it can.         *)
Spec == Init /\ [][Next]_vars /\ WF_vars(Next)

-----------------------------------------------------------------------------
TypeOK ==
  /\ cores \subseteq SUBSET Lits
  /\ fset \subseteq Lits /\ untils \subseteq Lits
  /\ hasAvoid \in BOOLEAN
  /\ lt \in Seq(SUBSET Lits \ {{}})   \* no empty set is ever queued
  /\ affirmed \subseteq Lits
  /\ pc \in {"start", "loop", "done", "exit"}
  /\ result \in (SUBSET Lits) \cup {NULL}

(* Reference definition: S is a minimal unsatisfiable subset of F.         *)
IsMUS(S, F) ==
  /\ S \subseteq F
  /\ Unsat(S)
  /\ \A x \in S : ~Unsat(S \ {x})

(* When MUC returns a core for a call without avoid (the call of           *)
(* get_next_pair that learns a dead state), that core is a minimal         *)
(* unsatisfiable subset of f_set: it is still unsat with the side          *)
(* constraints, and dropping any one literal of it makes it satisfiable.   *)
CoreIsMUS ==
  (pc = "done" /\ result # NULL /\ ~hasAvoid) => IsMUS(result, fset)

(* The spec (4.3) promises a core that is still unsat under the same side  *)
(* constraints for every call, avoid given or not.                         *)
CoreStillUnsat ==
  (pc = "done" /\ result # NULL) => Unsat(result)

(* MUC returns NULL only through its early return on unsatisfiable side   *)
(* constraints: initial_seq reads a NULL core that way and folds the      *)
(* current avoid formula into _avoid.                                      *)
NullMeansSideUnsat ==
  (pc = "done" /\ result = NULL) => Unsat({})

(* The loop always ends: MUC returns or exits.                             *)
Terminates == <>(pc \in {"done", "exit"})

=============================================================================
