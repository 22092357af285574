----------------------------- MODULE NextDepth -----------------------------
(***************************************************************************)
(* The nested-next constraints added to _avoid when a progression state is *)
(* created (nondeter_prog_state::set_avoid -> global_next_n_true):         *)
(*   - get_next_n_formula: for an atom x that occurs as X^i x and X^j !x,   *)
(*     the depths d at which "X^d x or X^d !x, not both" is required;       *)
(*   - common_deep: the one depth shared by every nested literal, used to  *)
(*     push the propositional globals that deep.                            *)
(*   - set_avoid: the first _avoid, the And of avoid_next_false over the  *)
(*     alphabet, global_next_true and global_next_n_true.                  *)
(* The input is next_deeps (get_next_deep_map): each literal that occurs   *)
(* under two or more nested X, with the set of its depths.  A hash_map has *)
(* no fixed order, so the order the loop of common_deep visits the         *)
(* literals in is any order.                                               *)
(***************************************************************************)
EXTENDS Naturals, FiniteSets, Sequences, SequencesExt

CONSTANTS
  Atoms,      \* propositional atoms
  Depths,     \* nesting depths of X that occur (each at least 2)
  GlobalRs    \* the bodies r of the candidate globals G r (false R r)

ASSUME Depths \subseteq Nat \ {0, 1}

(* A literal: <<x, FALSE>> is the atom x, <<x, TRUE>> is !x.               *)
Lits == Atoms \X BOOLEAN
IsNot(l) == l[2]

VARIABLES
  deeps,      \* next_deeps: literal -> set of depths
  order,      \* the order the hash_map iterator visits the literals in
  i,          \* the iterator, as an index into order
  deep,       \* the local deep of common_deep
  ret,        \* its return value, -1 while running
  alphabet,   \* _formula->get_alphabet ()
  globals,    \* _globals: the bodies of the G conjuncts of _formula
  avoid,      \* _avoid as a set of constraints, {} while NULL
  pc          \* "loop", "done" (common_deep returned) or "set"

vars == <<deeps, order, i, deep, ret, alphabet, globals, avoid, pc>>

-----------------------------------------------------------------------------
(* Plausible faults, each used by one mutant run.                          *)

\* On a tie the positive depth is emitted instead of the negative one.
RECURSIVE NextNPosFirst(_, _)
NextNPosFirst(ps, ns) ==
  IF ps = <<>> \/ ns = <<>> THEN {}
  ELSE IF Head(ps) >= Head(ns) THEN {Head(ps)} \cup NextNPosFirst(ps, Tail(ns))
       ELSE {Head(ps)} \cup NextNPosFirst(Tail(ps), ns)

\* The iterator is advanced twice per literal.
TakeSkip ==
  /\ pc = "loop" /\ i <= Len(order)
  /\ ~IsNot(order[i]) /\ Cardinality(deeps[order[i]]) = 1
  /\ deep' = CHOOSE d \in deeps[order[i]] : TRUE
  /\ i' = i + 2
  /\ UNCHANGED <<deeps, order, ret, alphabet, globals, avoid, pc>>

-----------------------------------------------------------------------------
(* get_next_n_formula over the two depth sets in ascending order (a        *)
(* std::set iterates ascending): while neither is exhausted, the smaller   *)
(* front is emitted and advanced, the negative one on a tie.               *)
RECURSIVE NextN(_, _)
NextN(ps, ns) ==
  IF ps = <<>> \/ ns = <<>> THEN {}
  ELSE IF Head(ps) >= Head(ns) THEN {Head(ns)} \cup NextN(ps, Tail(ns))
       ELSE {Head(ps)} \cup NextN(Tail(ps), ns)

Sorted(S) == SetToSortSeq(S, <)

(* The first loop of global_next_n_true: the pairs <<x, d>> for which      *)
(* create_next_avoid_false (x, d) is conjoined.                            *)
NextNPairs ==
  UNION { {<<x, d>> : d \in NextN(Sorted(deeps[<<x, FALSE>>]),
                                  Sorted(deeps[<<x, TRUE>>]))} :
          x \in {y \in Atoms : {<<y, FALSE>>, <<y, TRUE>>} \subseteq DOMAIN deeps} }

(* is_prop: a literal, or an And / Or of propositional formulas.         *)
RECURSIVE IsProp(_)
IsProp(f) ==
  \/ f.op = "lit"
  \/ f.op \in {"and", "or"} /\ IsProp(f.l) /\ IsProp(f.r)

RECURSIVE AtomsOf(_)
AtomsOf(f) ==
  CASE f.op = "lit" -> {f.lit[1]}
    [] f.op \in {"and", "or"} -> AtomsOf(f.l) \cup AtomsOf(f.r)
    [] OTHER -> AtomsOf(f.r)

(* create_next_avoid_false (f, d): !(X^d f /\ X^d !f) /\ (X^d f \/ X^d !f). *)
AvoidFalse(l, d) == [kind |-> "xor", lit |-> l, d |-> d]

(* apply_next_n (f, d) (apply_next distributes over And and Or): X^d f.   *)
NextNTrue(f, d) == [kind |-> "next", f |-> f, d |-> d]

(* prop_in_globals: the And of the propositional global bodies.           *)
PropInGlobals == {r \in globals : IsProp(r)}

(* avoid_next_false (P): the depth-1 constraint for each atom of P.       *)
AvoidNextFalse == {AvoidFalse(<<x, FALSE>>, 1) : x \in alphabet}

(* global_next_true: next_must_true (G r) = X r for the propositional G r. *)
GlobalNextTrue == {NextNTrue(r, 1) : r \in PropInGlobals}

(* The second part of global_next_n_true, after common_deep returned deep: *)
(* for deep > 1 with no negated key, X^deep of the propositional globals  *)
(* and the depth-deep constraint of every key.                             *)
PushGlobals(d) ==
  IF PropInGlobals # {} /\ d > 1 /\ \A l \in DOMAIN deeps : ~IsNot(l)
  THEN {NextNTrue(r, d) : r \in PropInGlobals} \cup {AvoidFalse(l, d) : l \in DOMAIN deeps}
  ELSE {}

Init ==
  /\ deeps \in UNION {[K -> SUBSET Depths \ {{}}] : K \in SUBSET Lits}
  /\ order \in SetToSeqs(DOMAIN deeps)
  /\ i = 1
  /\ deep = -1
  /\ ret = -1
  /\ globals \in SUBSET GlobalRs
  /\ alphabet \in {A \in SUBSET Atoms :
                   /\ \A l \in DOMAIN deeps : l[1] \in A
                   /\ \A r \in globals : AtomsOf(r) \subseteq A}
  /\ avoid = {}
  \* common_deep runs only when prop_in_globals is not NULL
  /\ pc = IF PropInGlobals # {} THEN "loop" ELSE "done"

(* A negated literal: return 0.                                            *)
NotKey ==
  /\ pc = "loop" /\ i <= Len(order)
  /\ IsNot(order[i])
  /\ ret' = 0 /\ pc' = "done"
  /\ UNCHANGED <<deeps, order, i, deep, alphabet, globals, avoid>>

(* A literal at two or more depths: return 0.                              *)
ManyDepths ==
  /\ pc = "loop" /\ i <= Len(order)
  /\ ~IsNot(order[i]) /\ Cardinality(deeps[order[i]]) > 1
  /\ ret' = 0 /\ pc' = "done"
  /\ UNCHANGED <<deeps, order, i, deep, alphabet, globals, avoid>>

(* if (deep = -1) assigns -1 and is always true, so deep takes the depth   *)
(* of this literal and the comparison in the else branch never runs.      *)
Take ==
  /\ pc = "loop" /\ i <= Len(order)
  /\ ~IsNot(order[i]) /\ Cardinality(deeps[order[i]]) = 1
  /\ deep' = CHOOSE d \in deeps[order[i]] : TRUE
  /\ i' = i + 1
  /\ UNCHANGED <<deeps, order, ret, alphabet, globals, avoid, pc>>

(* The loop is done: return deep (-1 for an empty map).                    *)
LoopEnd ==
  /\ pc = "loop" /\ i > Len(order)
  /\ ret' = deep /\ pc' = "done"
  /\ UNCHANGED <<deeps, order, i, deep, alphabet, globals, avoid>>

(* set_avoid (): _avoid is NULL, so it becomes avoid_next_false (P) And   *)
(* global_next_true () And global_next_n_true (), the last the first loop *)
(* over next_deeps and the globals pushed to common_deep's depth.         *)
SetAvoid ==
  /\ pc = "done"
  /\ avoid' = AvoidNextFalse \cup GlobalNextTrue
               \cup {AvoidFalse(<<pr[1], FALSE>>, pr[2]) : pr \in NextNPairs}
               \cup PushGlobals(ret)
  /\ pc' = "set"
  /\ UNCHANGED <<deeps, order, i, deep, ret, alphabet, globals>>

Next == NotKey \/ ManyDepths \/ Take \/ LoopEnd \/ SetAvoid

Spec == Init /\ [][Next]_vars

-----------------------------------------------------------------------------
TypeOK ==
  /\ DOMAIN deeps \subseteq Lits
  /\ order \in Seq(Lits)
  /\ i \in 1..(Len(order) + 1)
  /\ deep \in Depths \cup {-1}
  /\ ret \in Depths \cup {0, -1}
  /\ alphabet \subseteq Atoms /\ globals \subseteq GlobalRs
  /\ \A c \in avoid : c.d \in Depths \cup {1}
  /\ pc \in {"loop", "done", "set"}

(* Reference for get_next_n_formula: an atom x seen as X^i x and X^j !x    *)
(* gets the constraint at exactly the depths of either literal up to the  *)
(* smaller of the two deepest ones.                                        *)
NextNIsPrefix ==
  \A x \in Atoms :
    {<<x, FALSE>>, <<x, TRUE>>} \subseteq DOMAIN deeps =>
      LET P == deeps[<<x, FALSE>>]
          N == deeps[<<x, TRUE>>]
          lim == IF Max(P) < Max(N) THEN Max(P) ELSE Max(N)
      IN  {d \in P \cup N : d <= lim} = {e[2] : e \in {pr \in NextNPairs : pr[1] = x}}

(* common_deep returns a depth d > 0 only when every nested literal occurs *)
(* at that one depth d, whatever order the hash_map iterates in (the      *)
(* comparison in its loop says so); otherwise 0, and the globals are not  *)
(* pushed.                                                                 *)
CommonDeepAgreed ==
  (pc = "done" /\ ret > 0) => \A l \in DOMAIN deeps : deeps[l] = {ret}

=============================================================================
