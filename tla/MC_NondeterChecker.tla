------------------------- MODULE MC_NondeterChecker -------------------------
(***************************************************************************)
(* The formulas of MC_Formulas, checked by the whole search, and the      *)
(* rewrite the checker applies to its input before the search starts.     *)
(***************************************************************************)
EXTENDS NondeterChecker, MC_InvariantBuilder, SeparateNext, FiniteSets

(* The searches of these inputs are finite as they stand: no state        *)
(* constraint is needed.                                                   *)

(* Formulas over a and b with X nested up to three deep, over And, Or,    *)
(* Until and negation, and inside the operands of And and Until.          *)
MCAp == {<<"ap", "a">>, <<"ap", "b">>}
MCF1 == MCAp \cup {<<u, g>> : u \in {"X", "not"}, g \in MCAp}
             \cup {<<o, g, h>> : o \in {"and", "or", "U"}, g \in MCAp, h \in MCAp}
MCTested ==
  {<<"X", g>> : g \in MCF1} \cup {<<"X", <<"X", g>>>> : g \in MCF1}
  \cup {<<"X", <<"X", <<"X", g>>>>>> : g \in MCF1}
  \cup {<<o, <<"X", g>>, h>> : o \in {"and", "U"}, g \in MCF1, h \in MCAp}
  \cup {<<"X", <<o, <<"X", g>>, h>>>> : o \in {"and", "or"}, g \in MCF1, h \in MCAp}

(* Every lasso word of at most three positions over a and b.              *)
MCWords ==
  UNION {{[n |-> n, loop |-> l, lab |-> lb] : l \in 0..(n - 1),
                                              lb \in [0..(n - 1) -> SUBSET {"a", "b"}]}
         : n \in 1..3}

(* seperate_next leaves no X over an And or an Or, and the formula it     *)
(* returns holds on exactly the words the input holds on.                 *)
SeparateNextExact ==
  \A f \in MCTested :
     /\ Separated(SeparateNext(f))
     /\ \A w \in MCWords : Holds(w, 0, f) = Holds(w, 0, SeparateNext(f))

(* Once dfs has a formula on _visited, the input it searches is the one   *)
(* the nondeter_checker constructor rewrote with seperate_next, and that  *)
(* rewrite is exact: the checker answers for the formula it was given.    *)
SeparateNextSound == path # <<>> => SeparateNextExact

=============================================================================
