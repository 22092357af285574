---------------------------- MODULE MC_LtlfSmv ----------------------------
(* The inputs the three encodings of ltlf2smv are checked on: formulas    *)
(* over the atoms a and b with at most two levels of operators, each      *)
(* against every word of one to three positions over a and b.  Three      *)
(* positions let an X, a U or an R look two steps ahead and reach the     *)
(* last position, where Tail changes what every next-step conjunct says.  *)
EXTENDS LtlfSmv

AtomA == <<"ap", "a">>
AtomB == <<"ap", "b">>
LtlLeaves == {AtomA, AtomB}

LtlWords == UNION {[1..n -> SUBSET LtlLeaves] : n \in 1..3}

(* The formulas of at most two levels over the operators Un and Bin, one  *)
(* operand of a binary second level a leaf; and a few with the constants. *)
LtlUpto1(Un, Bin) ==
  LtlLeaves \cup {<<op, g>> : op \in Un, g \in LtlLeaves}
            \cup {<<op, g, h>> : op \in Bin, g, h \in LtlLeaves}
LtlUpto2(Un, Bin) ==
  LET L1 == LtlUpto1(Un, Bin)
  IN L1 \cup {<<op, g>> : op \in Un, g \in L1}
        \cup {<<op, g, h>> : op \in Bin, g \in L1, h \in LtlLeaves}
        \cup {<<op, h, g>> : op \in Bin, g \in L1, h \in LtlLeaves}

LtlConsts(Un) == {<<op, <<c>>>> : op \in Un, c \in {"true", "false"}}

RECURSIVE HasOp(_, _)
HasOp(f, ops) == f[1] \in ops \/ \E c \in Children(f) : HasOp(c, ops)

(* ltlf2smv: every operator but the weak next.                             *)
Enc1Inputs == LtlUpto2({"not", "X", "F", "G"}, {"and", "or", "imp", "eq", "U", "R"})
              \cup LtlConsts({"not", "X", "F", "G"})

(* ltlf2smv_2: the BNF operators, NOT never directly over a NOT.          *)
RECURSIVE NoDoubleNot(_)
NoDoubleNot(f) ==
  /\ f[1] = "not" => f[2][1] # "not"
  /\ \A c \in Children(f) : NoDoubleNot(c)

Enc2Inputs == {f \in LtlUpto2({"not", "X", "F"}, {"or", "U"}) : NoDoubleNot(f)}

(* ltlf2smv_3: negation normal form, NOT only over an atom.                *)
RECURSIVE IsNnf(_)
IsNnf(f) ==
  /\ f[1] = "not" => f[2][1] = "ap"
  /\ \A c \in Children(f) : IsNnf(c)

Enc3Inputs ==
  {f \in LtlUpto2({"not", "X", "N", "F", "G"}, {"and", "or", "U", "R"}) : IsNnf(f)}
  \cup LtlConsts({"X", "N", "F", "G"})

(* ltlf2smv writes, for every input, a model whose counterexamples to     *)
(* G ! Tail are exactly the finite models of the input: the one TRANS     *)
(* equation per subformula of ltlf2tran, with (! Tail) on every step to   *)
(* the next position, determines each variable from the last position    *)
(* back, and INIT var0 = TRUE names the root.                              *)
Smv1ExactAll ==
  \A f \in Enc1Inputs :
     IF f[1] \in Handled1 THEN ExactOn(Ltlf2Smv(f), f, LtlWords)
                          ELSE ~WellFormed(Ltlf2Smv(f))

(* ltlf2smv_2 is exact on every BNF input: the DEFINEs of F and U over    *)
(* the variable of their X, whose equation moves one step, and the        *)
(* variables get_expr declares while VAR is still being written.          *)
Smv2ExactAll == \A f \in Enc2Inputs : ExactOn(Ltlf2Smv2(f), f, LtlWords)

(* ltlf2smv_3 is exact on every NNF input without an AND, its             *)
(* implications leaving free exactly the variables whose truth the input *)
(* does not need; and an AND anywhere in an input makes the model          *)
(* malformed, because get_expr has no case for it.                        *)
Smv3ExactAll ==
  \A f \in Enc3Inputs :
     IF HasOp(f, {"and"}) THEN ~WellFormed(Ltlf2Smv3(f))
                          ELSE ExactOn(Ltlf2Smv3(f), f, LtlWords)

(* ltlf2smv_4, the encoding main prints for the NNF of its input, writes  *)
(* a usable model only for an input of atoms, constants, NOT and OR: any  *)
(* temporal operator leaves INIT naming a variable that neither VAR,      *)
(* printed before get_expr inserts into P, nor a DEFINE declares, and an  *)
(* AND leaves it empty.  Where it is usable it is exact.                  *)
Smv4ExactAll ==
  \A f \in Enc3Inputs :
     IF HasOp(f, {"and", "X", "N", "F", "G", "U", "R"})
     THEN ~WellFormed(Ltlf2Smv4(f))
     ELSE ExactOn(Ltlf2Smv4(f), f, LtlWords)
============================================================================
