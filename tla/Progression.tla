---------------------------- MODULE Progression ----------------------------
(***************************************************************************)
(* The formula layer under nondeter_prog_state, as the UNSAT mode of      *)
(* get_next_pair sees it.                                                  *)
(*                                                                         *)
(* A progression state (an aalta_formula in the form the checker builds)  *)
(* is the set of its top-level conjuncts (to_set); the state TRUE is the   *)
(* empty set.  The library's flatted () and SAT () are not in the         *)
(* repository: a conjunct's flattening is given by its one-step options   *)
(* Opts[c], each the literals it puts on the current label, the Until     *)
(* markers it makes true and the conjuncts it requires of the next state. *)
(* An assignment P returned by SAT () is an option of every conjunct of a *)
(* formula, merged, with no complementary literals; an X atom is true in  *)
(* it only when some option requires it.                                  *)
(***************************************************************************)
EXTENDS Naturals, FiniteSets, Sequences

CONSTANTS
  Atoms,      \* propositional atoms
  Conj,       \* the conjuncts that states are made of
  Opts,       \* Conj -> the one-step options of the conjunct
  UntilConj,  \* the Until conjuncts (their marker is the conjunct itself)
  Globals,    \* _globals: top-level G (false R _) conjuncts of the input
  XOf,        \* partial map c -> the conjunct X c, where it exists
  Input       \* the input formula

Lit == Atoms \X BOOLEAN        \* <<x, TRUE>> is x, <<x, FALSE>> is !x

Option == [lab : SUBSET Lit, mark : SUBSET UntilConj, nxt : SUBSET Conj]

ASSUME /\ \A c \in Conj : Opts[c] # {} /\ \A o \in Opts[c] :
            o.lab \subseteq Lit /\ o.mark \subseteq UntilConj /\ o.nxt \subseteq Conj
       /\ UntilConj \cup Globals \cup Input \subseteq Conj
       /\ DOMAIN XOf \subseteq Conj /\ \A c \in DOMAIN XOf : XOf[c] \in Conj

NoOpt == [lab |-> {}, mark |-> {}, nxt |-> {}]

Merge(o, p) == [lab |-> o.lab \cup p.lab, mark |-> o.mark \cup p.mark,
                nxt |-> o.nxt \cup p.nxt]

Consistent(o) == \A x \in Atoms : ~({<<x, TRUE>>, <<x, FALSE>>} \subseteq o.lab)

(* The assignments SAT () can return for AND (X): one option per conjunct. *)
RECURSIVE Options(_)
Options(X) ==
  IF X = {} THEN {NoOpt}
  ELSE LET c == CHOOSE y \in X : TRUE
       IN  {m \in {Merge(o, p) : o \in Opts[c], p \in Options(X \ {c})} :
              Consistent(m)}

(* The X atoms that occur in the flattening of a state.                    *)
XAtoms(s) == UNION {o.nxt : o \in UNION {Opts[c] : c \in s}}

(* next_in (P, s->flatted ()): the X atoms of P that occur in s.           *)
NextIn(o, s) == o.nxt \cap XAtoms(s)

(* current_in (P): the atoms and markers of P, the label of a transition. *)
CurrentIn(o) == [lab |-> o.lab, mark |-> o.mark]

(* get_until_element_of: the markers of the top-level Untils.             *)
UntilsOf(s) == s \cap UntilConj

(* erase_global: a state without its global conjuncts; NULL is {} here,   *)
(* told apart from the state TRUE by the callers.                          *)
EraseGlobal(s) == s \ Globals

(* model (P, s->flatted ()): P satisfies some option of s.                *)
Models(o, s) ==
  \E p \in Options(s) :
    p.lab \subseteq o.lab /\ p.mark \subseteq o.mark /\ p.nxt \subseteq o.nxt

(* erase_from (f1, f2): f1 without f2's conjuncts, NULL ({}) when f2 is   *)
(* not contained in f1 or nothing is left.                                 *)
EraseFrom(f1, f2) == IF f2 \subseteq f1 THEN f1 \ f2 ELSE {}

(* apply_next over AND (core): the core of the X conjuncts, when each of  *)
(* them exists (a state can contain it only then).                        *)
ApplyNextCores(fr) == {{XOf[x] : x \in c} : c \in {c \in fr : c \subseteq DOMAIN XOf}}

(* A formula over next-state conjuncts, as built by update_avoid: a set of *)
(* frames (conjunction), each a set of cores (disjunction), each a set of *)
(* conjuncts (conjunction).  AND (S) is {{S}}, OR (Q) is {Q}.              *)
HoldsNext(N, g) == \A fr \in g : \E c \in fr : c \subseteq N

-----------------------------------------------------------------------------
(* Reference semantics: the states reachable from the input by progression *)
(* and which of them are LTL-satisfiable (a reachable cycle on which every *)
(* Until that occurs is fulfilled on some edge).                           *)
RECURSIVE Closure(_)
Closure(S) ==
  LET S2 == S \cup {o.nxt : o \in UNION {Options(s) : s \in S}}
  IN  IF S2 = S THEN S ELSE Closure(S2)

ReachStates == Closure({Input})

(* The options of every reachable state, computed once.                    *)
OptionsOf == [s \in ReachStates |-> Options(s)]
SuccOf == [s \in ReachStates |-> {o.nxt : o \in OptionsOf[s]}]

(* Options (s) for any state, from the cache when s is reachable.         *)
OptsOf(s) == IF s \in ReachStates THEN OptionsOf[s] ELSE Options(s)

(* The states reachable in one or more steps from S without leaving C.    *)
RECURSIVE StepsWithin(_, _)
StepsWithin(C, S) ==
  LET S2 == S \cup (C \cap UNION {SuccOf[s] : s \in S})
  IN  IF S2 = S THEN S ELSE StepsWithin(C, S2)

ReachWithin(C, x) ==
  StepsWithin(C, C \cap SuccOf[x])

(* The strongly connected part of S around x (empty when x is on no cycle *)
(* inside S).                                                              *)
SccOf(S, x) == {y \in S : y \in ReachWithin(S, x) /\ x \in ReachWithin(S, y)}

(* S holds a cycle on which every Until that occurs is fulfilled: some     *)
(* component of S is fulfilled as a whole, or one is after the states      *)
(* holding an Until it never fulfils are removed.                          *)
RECURSIVE HasGoodCycle(_)
HasGoodCycle(S) ==
  \E x \in S :
    LET K   == SccOf(S, x)
        bad == {s \in K : \E u \in UntilsOf(s) :
                  ~\E s2 \in K : \E o \in OptionsOf[s2] : o.nxt \in K /\ u \in o.mark}
    IN  /\ K # {}
        /\ \/ bad = {}
           \/ bad # K /\ HasGoodCycle(K \ bad)

(* The LTL-satisfiable reachable states: those that reach a good cycle.   *)
SatStates == {t \in ReachStates : HasGoodCycle(Closure({t}))}

=============================================================================
