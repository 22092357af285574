---------------------------- MODULE SeparateNext ----------------------------
(***************************************************************************)
(* The rewrite the nondeter_checker constructor applies to its input,     *)
(* seperate_next, and apply_next, which it calls.  seperate_next pushes   *)
(* every X down through And and Or, so that the states the search builds  *)
(* are conjunctions whose X conjuncts are X of a formula that is not a    *)
(* conjunction or disjunction (the XOf of Progression).                   *)
(*                                                                         *)
(* A formula is a tuple: <<"ap", x>> for an atom, <<op, g>> for the unary *)
(* operators ("X", "not"; the aalta_formula with only r_af set) and       *)
(* <<op, g, h>> for the binary ones ("and", "or", "U"; l_af and r_af).    *)
(* The reference is the meaning of a formula on an ultimately periodic     *)
(* word, the only words the checker's answers are about.                  *)
(***************************************************************************)
EXTENDS Naturals, Sequences

IsBool(f) == f[1] \in {"and", "or"}

(* apply_next: X distributed over And and Or down to the first operand    *)
(* that is neither.                                                        *)
RECURSIVE ApplyNext(_)
ApplyNext(f) ==
  IF IsBool(f) THEN <<f[1], ApplyNext(f[2]), ApplyNext(f[3])>>
  ELSE <<"X", f>>

(* A variant that keeps X X g as X of the separated X g.                  *)
RECURSIVE SeparateNextNoCollapse(_)
SeparateNextNoCollapse(f) ==
  CASE f[1] = "X" /\ IsBool(f[2]) ->
         <<f[2][1], SeparateNextNoCollapse(<<"X", f[2][2]>>),
                    SeparateNextNoCollapse(<<"X", f[2][3]>>)>>
    [] f[1] = "X" -> <<"X", SeparateNextNoCollapse(f[2])>>
    [] Len(f) = 3 -> <<f[1], SeparateNextNoCollapse(f[2]), SeparateNextNoCollapse(f[3])>>
    [] f[1] = "ap" -> f
    [] OTHER -> <<f[1], SeparateNextNoCollapse(f[2])>>

(* seperate_next (f): X (g op h) becomes the op of the separated X g and   *)
(* X h; X X g becomes apply_next of the separated X g; X g with g of any  *)
(* other operator keeps its X over the separated g; any other operator is *)
(* rebuilt over its separated operands, and a leaf is kept.               *)
RECURSIVE SeparateNext(_)
SeparateNext(f) ==
  CASE f[1] = "X" /\ IsBool(f[2]) ->
         <<f[2][1], SeparateNext(<<"X", f[2][2]>>), SeparateNext(<<"X", f[2][3]>>)>>
    [] f[1] = "X" /\ f[2][1] = "X" -> ApplyNext(SeparateNext(f[2]))
    [] f[1] = "X" -> <<"X", SeparateNext(f[2])>>
    [] Len(f) = 3 -> <<f[1], SeparateNext(f[2]), SeparateNext(f[3])>>
    [] f[1] = "ap" -> f
    [] OTHER -> <<f[1], SeparateNext(f[2])>>

-----------------------------------------------------------------------------
(* The reference.  A lasso word of n positions loops from the last back   *)
(* to position loop; lab[i] is the set of atoms true at i.                *)
NextPos(w, i) == IF i = w.n - 1 THEN w.loop ELSE i + 1

RECURSIVE PosAfter(_, _, _)
PosAfter(w, i, k) == IF k = 0 THEN i ELSE PosAfter(w, NextPos(w, i), k - 1)

(* f holds at position i of w.  An Until is decided within n steps: the   *)
(* positions reachable from i are at most n and all come up by then.       *)
RECURSIVE Holds(_, _, _)
Holds(w, i, f) ==
  CASE f[1] = "ap"  -> f[2] \in w.lab[i]
    [] f[1] = "not" -> ~Holds(w, i, f[2])
    [] f[1] = "and" -> Holds(w, i, f[2]) /\ Holds(w, i, f[3])
    [] f[1] = "or"  -> Holds(w, i, f[2]) \/ Holds(w, i, f[3])
    [] f[1] = "X"   -> Holds(w, NextPos(w, i), f[2])
    [] f[1] = "U"   ->
         \E k \in 0..(w.n - 1) :
            /\ Holds(w, PosAfter(w, i, k), f[3])
            /\ \A j \in 0..(k - 1) : Holds(w, PosAfter(w, i, j), f[2])

(* No X has a conjunction or disjunction as its operand.                  *)
RECURSIVE Separated(_)
Separated(f) ==
  CASE f[1] = "ap" -> TRUE
    [] f[1] = "X"  -> ~IsBool(f[2]) /\ Separated(f[2])
    [] Len(f) = 3  -> Separated(f[2]) /\ Separated(f[3])
    [] OTHER       -> Separated(f[2])
=============================================================================
