--------------------------- MODULE MC_NextDepth ---------------------------
(* Two atoms, each possibly nested two to four times, positively and      *)
(* negatively: every next_deeps map over them and every iteration order,  *)
(* with every set of globals and every alphabet that contains them.       *)
EXTENDS NextDepth, Bool2Cnf, MC_LtlfSmv

CONSTANTS p, q

MCAtoms == {p, q}
MCDepths == 2..4

(* Global bodies: p, !p \/ q (propositional) and p \/ X q (not).          *)
L(x, neg) == [op |-> "lit", lit |-> <<x, neg>>]
MCGlobalRs == {L(p, FALSE),
               [op |-> "or", l |-> L(p, TRUE), r |-> L(q, FALSE)],
               [op |-> "or", l |-> L(p, FALSE), r |-> [op |-> "next", r |-> L(q, FALSE)]]}

-----------------------------------------------------------------------------
(* The CNF translation of bool2cnf over the formulas of two variables,    *)
(* 1 and 2, with at most two levels of connectives.  The parser numbers   *)
(* the variables first and every internal node after them, and a NOT node *)
(* stands for the negated literal of its operand: plus and minus print no  *)
(* clause for a NOT, so its index must be -(its operand's index).         *)
MCCnfVars == {1, 2}

Leaf(x) == <<"VAR", x>>
Level1 == {<<"NOT", Leaf(u)>> : u \in MCCnfVars}
          \cup {<<op, Leaf(u), Leaf(w)>> : op \in Types \ {"VAR", "NOT"}, u, w \in MCCnfVars}
Upto1 == {Leaf(u) : u \in MCCnfVars} \cup Level1
Level2 == {<<"NOT", s>> : s \in Level1}
          \cup {<<op, s, t>> : op \in Types \ {"VAR", "NOT"}, s, t \in Upto1}

(* The node tree of a shape, internal nodes numbered from k in post-order. *)
RECURSIVE Number(_, _)
Number(s, k) ==
  CASE s[1] = "VAR" -> <<MakeNode("VAR", Null, Null, s[2]), k>>
    [] s[1] = "NOT" -> LET c == Number(s[2], k)
                       IN <<MakeNode("NOT", c[1], Null, -c[1].index), c[2]>>
    [] OTHER        -> LET a == Number(s[2], k)
                           b == Number(s[3], a[2])
                       IN <<MakeNode(s[1], a[1], b[1], b[2]), b[2] + 1>>

MCCnfInputs == {Number(s, 3)[1] : s \in Upto1 \cup Level2}

(* The file the translator writes: the unit clause of the root, then       *)
(* plus (root).                                                            *)
CnfOf(f) == <<<<f.index>>>> \o Plus(f)

(* The translation is exact on every input: the counting pass reports the  *)
(* number of clauses the printing pass prints, and an assignment of the    *)
(* formula's variables satisfies the formula exactly when some values of   *)
(* the internal nodes' variables satisfy the printed clauses (plus, minus  *)
(* and their polarity switches at NOT, IMP and EQ in trans.c).            *)
CnfExact ==
  \A f \in MCCnfInputs :
     /\ Len(Plus(f)) = PlusCount(f)
     /\ \A v \in SUBSET MCCnfVars :
          Eval(f, v) <=> \E e \in SUBSET Internal(f) : Models(CnfOf(f), v \cup e)

(* CnfExact, checked once the search of common_deep has returned.          *)
CnfSound == ret # -1 => CnfExact

(* The SMV model ltlf2smv writes has as counterexamples exactly the       *)
(* finite models of its input, for every input whose root ltlf2tran has   *)
(* a case for; any other root leaves INIT var0 = TRUE naming no variable. *)
Smv1Sound == ret # -1 => Smv1ExactAll

(* The BNF model of ltlf2smv_2, with its F and U DEFINEs over one-step X  *)
(* variables, is exact on every BNF input.                                *)
Smv2Sound == ret # -1 => Smv2ExactAll

(* The NNF model of ltlf2smv_3 is exact on every input without AND, and   *)
(* malformed, get_expr writing "" for the AND, on every input with one.   *)
Smv3Sound == ret # -1 => Smv3ExactAll

(* The model main prints, by ltlf2smv_4, is well formed exactly for the   *)
(* inputs without a temporal operator or an AND, and exact on those.      *)
Smv4Sound == ret # -1 => Smv4ExactAll

============================================================================
