------------------------------ MODULE LtlfSmv ------------------------------
(***************************************************************************)
(* ltlparser/ltlf2smv: the translation of an LTLf formula (LTL over       *)
(* finite traces) into an SMV model whose LTLSPEC G ! Tail has a           *)
(* counterexample exactly for the finite models of the formula: Tail marks *)
(* the last position of the trace.  Four encodings: ltlf2smv (one state    *)
(* variable and one TRANS equation per subformula), ltlf2smv_2 (the BNF    *)
(* encoding: DEFINEs for F and U and a state variable for each X),        *)
(* ltlf2smv_3 (the NNF encoding, with implications), and ltlf2smv_4, the  *)
(* one main () prints, whose ltlf2trans_4 call is commented out.          *)
(*                                                                         *)
(* A formula is a tuple: <<"ap", x>>, <<"true">>, <<"false">>, <<op, g>>  *)
(* for "not", "X", "N" (weak next), "F", "G", and <<op, g, h>> for "and", *)
(* "or", "imp", "eq", "U", "R".  The text the translator writes is kept   *)
(* as structure: an SMV expression is a tuple, and a variable is named by *)
(* the formula it stands for (get_var gives one name per to_string of a   *)
(* formula, so two occurrences of a subformula share their variable).     *)
(***************************************************************************)
EXTENDS Naturals, Sequences, FiniteSets, TLC

(* SMV expressions.  SEmpty is the "" get_expr returns for an operator it  *)
(* has no case for.                                                        *)
SVar(n)      == <<"var", n>>
SConst(b)    == <<"const", b>>
STail        == <<"tail">>
SNot(e)      == <<"not", e>>
SAnd(e1, e2) == <<"and", e1, e2>>
SOr(e1, e2)  == <<"or", e1, e2>>
SImp(e1, e2) == <<"imp", e1, e2>>
SEq(e1, e2)  == <<"eq", e1, e2>>
SNext(e)     == <<"next", e>>
SEmpty       == <<"empty">>

TailName == <<"Tail">>

IsLeaf(f) == f[1] \in {"ap", "true", "false"}
Children(f) == IF IsLeaf(f) THEN {} ELSE {f[k] : k \in 2..Len(f)}

(* get_var: an atom is its own variable (_var), TRUE and FALSE are the     *)
(* constants, any other formula the variable VARS gives its text.         *)
GetVar(f) ==
  CASE f[1] = "true"  -> SConst(TRUE)
    [] f[1] = "false" -> SConst(FALSE)
    [] OTHER          -> SVar(f)

(* The names of the variables among expressions (TRUE and FALSE erased).   *)
NamesOf(es) == {e[2] : e \in {x \in es : x[1] = "var"}}

-----------------------------------------------------------------------------
(* ltlf2tran: the operators it has a case for, and the right-hand side of *)
(* the equation "var = (...)" it writes for each.  var2 and var3 are the  *)
(* variables of the operands; N has no case.                               *)
Handled1 == {"not", "X", "G", "F", "U", "R", "and", "or", "imp", "eq"}

(* The Until equation without the (! Tail) conjunct.                      *)
Rhs1UntilAnyTail(f) ==
  LET v == GetVar(f)
      l == GetVar(f[2])
      r == GetVar(f[Len(f)])
  IN CASE f[1] = "not" -> SNot(l)
       [] f[1] = "X"   -> SAnd(SNot(STail), SNext(l))
       [] f[1] = "G"   -> SAnd(l, SImp(SNot(STail), SNext(v)))
       [] f[1] = "F"   -> SOr(l, SAnd(SNot(STail), SNext(v)))
       [] f[1] = "U"   -> SOr(r, SAnd(l, SNext(v)))
       [] f[1] = "R"   -> SAnd(r, SOr(l, SImp(SNot(STail), SNext(v))))
       [] OTHER        -> <<f[1], l, r>>

Rhs1(f) ==
  LET v == GetVar(f)
      l == GetVar(f[2])
      r == GetVar(f[Len(f)])
  IN CASE f[1] = "not" -> SNot(l)
       [] f[1] = "X"   -> SAnd(SNot(STail), SNext(l))
       [] f[1] = "G"   -> SAnd(l, SImp(SNot(STail), SNext(v)))
       [] f[1] = "F"   -> SOr(l, SAnd(SNot(STail), SNext(v)))
       [] f[1] = "U"   -> SOr(r, SAnd(SAnd(SNot(STail), l), SNext(v)))
       [] f[1] = "R"   -> SAnd(r, SOr(l, SImp(SNot(STail), SNext(v))))
       [] OTHER        -> <<f[1], l, r>>

(* ltlf2tran (root, P): the TRANS conjuncts of root and of its operands,   *)
(* and the variables it inserts into P.                                     *)
RECURSIVE Ltlf2Tran(_)
Ltlf2Tran(f) ==
  IF f[1] \notin Handled1 THEN [tr |-> {}, p |-> {}]
  ELSE LET sub == {Ltlf2Tran(c) : c \in Children(f)}
       IN [tr |-> {SEq(GetVar(f), Rhs1(f))} \cup UNION {s.tr : s \in sub},
           p  |-> NamesOf({GetVar(f)} \cup {GetVar(c) : c \in Children(f)})
                  \cup UNION {s.p : s \in sub}]

(* get_alphabet (root), of the ltlparser library: the atoms of root.       *)
RECURSIVE Alphabet(_)
Alphabet(f) ==
  IF f[1] = "ap" THEN {f} ELSE UNION {Alphabet(c) : c \in Children(f)}

(* The name "var0" of INIT: the first formula get_var named.  ltlf2tran    *)
(* names its root first, when it has a case for it; otherwise no          *)
(* variable is ever called var0.                                           *)
Var0(f) == IF f[1] \in Handled1 THEN f ELSE <<"var0">>

(* ltlf2smv (root): VAR (the alphabet, P and Tail), INIT var0 = TRUE,       *)
(* TRANS the conjunction of ltlf2tran, LTLSPEC G ! Tail.                    *)
Ltlf2Smv(f) ==
  LET t == Ltlf2Tran(f)
  IN [decl  |-> Alphabet(f) \cup t.p \cup {TailName},
      defs  |-> <<>>,
      trans |-> t.tr,
      init  |-> SEq(SVar(Var0(f)), SConst(TRUE)),
      abort |-> FALSE]

-----------------------------------------------------------------------------
(* get_expr (root, P): the expression of a formula over the variables.    *)
(* It has no case for AND, IMPLIES and EQUIV: those give "".               *)
RECURSIVE GetExpr(_)
GetExpr(f) ==
  CASE f[1] = "true"  -> SConst(TRUE)
    [] f[1] = "false" -> SConst(FALSE)
    [] f[1] = "ap"    -> SVar(f)
    [] f[1] = "not"   -> SNot(GetExpr(f[2]))
    [] f[1] = "or"    -> SOr(GetExpr(f[2]), GetExpr(f[3]))
    [] f[1] \in {"X", "N", "F", "U", "G", "R"} -> SVar(f)
    [] OTHER          -> SEmpty

(* The variables get_expr inserts into P: those of X and N.                *)
RECURSIVE ExprNames(_)
ExprNames(f) ==
  CASE f[1] \in {"not", "or"} -> UNION {ExprNames(c) : c \in Children(f)}
    [] f[1] \in {"X", "N"}    -> {f}
    [] OTHER                  -> {}

(* create_operation (eNEXT, NULL, root): the X root whose variable stands  *)
(* for "root holds from the next position on".                             *)
NextOf(f) == <<"X", f>>

(* The DEFINE of F, U, G and R (ltlf2trans_2 and _3) and the TRANS        *)
(* conjunct of its X variable; ltlf2trans_2 writes it as an equation,      *)
(* ltlf2trans_3 as an implication.                                          *)
FutureDef(f) == SOr(GetExpr(f[2]), SVar(NextOf(f)))

(* The Until DEFINE with the "& (var4)" never appended to var2.            *)
UntilDefNoNext(f) == SOr(GetExpr(f[3]), GetExpr(f[2]))

UntilDef(f) == SOr(GetExpr(f[3]), SAnd(GetExpr(f[2]), SVar(NextOf(f))))

(* The Globally DEFINE of ltlf2trans_3 without its "Tail |".               *)
GloballyDefNoTail(f) == SAnd(GetExpr(f[2]), SVar(NextOf(f)))

GloballyDef(f) == SAnd(GetExpr(f[2]), SOr(STail, SVar(NextOf(f))))

ReleaseDef(f) == SAnd(GetExpr(f[3]), SOr(GetExpr(f[2]), SOr(STail, SVar(NextOf(f)))))

NextStep(f) == SAnd(SNot(STail), SNext(SVar(f)))

(* What one call of ltlf2trans_2 or _3 adds: TRANS conjuncts, DEFINEs (a   *)
(* function from names), variables of P, and whether an assert failed.     *)
NoOut == [tr |-> {}, defs |-> <<>>, p |-> {}, abort |-> FALSE]
Join(S) == [tr    |-> UNION {s.tr : s \in S},
            defs  |-> [n \in UNION {DOMAIN s.defs : s \in S} |->
                         (CHOOSE s \in S : n \in DOMAIN s.defs).defs[n]],
            p     |-> UNION {s.p : s \in S},
            abort |-> \E s \in S : s.abort]
Out(tr, n, d, p) == [tr |-> tr, defs |-> (n :> d), p |-> p, abort |-> FALSE]

(* ltlf2trans_2: the BNF encoding.  A NOT over a NOT fails its assert; an  *)
(* X is an equation on its variable; F and U are DEFINEs over the         *)
(* variable of their X, whose equation follows them one step; OR recurses. *)
(* already_exists lets each name be written once: the conjuncts and       *)
(* DEFINEs are sets and functions, and a repeat writes the same text.      *)
RECURSIVE Trans2(_)
Trans2(f) ==
  CASE f[1] = "not" -> LET r == Trans2(f[2])
                       IN [r EXCEPT !.abort = @ \/ f[2][1] = "not"]
    [] f[1] = "X"   -> Join({[NoOut EXCEPT
                               !.tr = {SEq(SVar(f), SAnd(SNot(STail), SNext(GetExpr(f[2]))))},
                               !.p = {f} \cup ExprNames(f[2])],
                             Trans2(f[2])})
    [] f[1] = "F"   -> Join({Out({SEq(SVar(NextOf(f)), NextStep(f))}, f, FutureDef(f),
                                 {NextOf(f)} \cup ExprNames(f[2])),
                             Trans2(f[2])})
    [] f[1] = "U"   -> Join({Out({SEq(SVar(NextOf(f)), NextStep(f))}, f, UntilDef(f),
                                 {NextOf(f)} \cup ExprNames(f[2]) \cup ExprNames(f[3])),
                             Trans2(f[2]), Trans2(f[3])})
    [] f[1] = "or"  -> Join({Trans2(f[2]), Trans2(f[3])})
    [] OTHER        -> NoOut

(* ltlf2trans_3: the NNF encoding.  A NOT (over an atom) adds nothing; X  *)
(* and N are implications on their variable; F, G, U and R are DEFINEs    *)
(* whose X variable implies the next step; AND and OR recurse.             *)
RECURSIVE Trans3(_)
Trans3(f) ==
  LET Temporal(d, ops) ==
        Join({Out({SImp(SVar(NextOf(f)), NextStep(f))}, f, d,
                  {NextOf(f)} \cup UNION {ExprNames(c) : c \in ops}) }
             \cup {Trans3(c) : c \in ops})
  IN CASE f[1] = "X" -> Join({[NoOut EXCEPT
                              !.tr = {SImp(SVar(f), SAnd(SNot(STail), SNext(GetExpr(f[2]))))},
                              !.p = {f} \cup ExprNames(f[2])],
                              Trans3(f[2])})
       [] f[1] = "N" -> Join({[NoOut EXCEPT
                              !.tr = {SImp(SVar(f), SOr(STail, SAnd(SNot(STail),
                                                                   SNext(GetExpr(f[2])))))},
                              !.p = {f} \cup ExprNames(f[2])],
                              Trans3(f[2])})
       [] f[1] = "F" -> Temporal(FutureDef(f), {f[2]})
       [] f[1] = "G" -> Temporal(GloballyDef(f), {f[2]})
       [] f[1] = "U" -> Temporal(UntilDef(f), {f[2], f[3]})
       [] f[1] = "R" -> Temporal(ReleaseDef(f), {f[2], f[3]})
       [] f[1] \in {"and", "or"} -> Join({Trans3(f[2]), Trans3(f[3])})
       [] OTHER      -> NoOut

(* ltlf2smv_2, _3 and _4: VAR is printed from P before INIT, so the        *)
(* variables get_expr (root, P) inserts while writing INIT are declared    *)
(* only if the translation inserted them already.  _4 translates nothing.  *)
(* The models written with VAR printed after INIT, so that the variables *)
(* get_expr (root, P) inserts are declared.                               *)
SmvOfLateVar(f, t) ==
  [decl  |-> Alphabet(f) \cup t.p \cup ExprNames(f) \cup {TailName},
   defs  |-> t.defs,
   trans |-> t.tr,
   init  |-> GetExpr(f),
   abort |-> t.abort]

SmvOf(f, t) ==
  [decl  |-> Alphabet(f) \cup t.p \cup {TailName},
   defs  |-> t.defs,
   trans |-> t.tr,
   init  |-> GetExpr(f),
   abort |-> t.abort]

Ltlf2Smv2(f) == SmvOf(f, Trans2(f))
Ltlf2Smv3(f) == SmvOf(f, Trans3(f))
Ltlf2Smv4(f) == SmvOf(f, NoOut)


-----------------------------------------------------------------------------
(* The meaning of a generated model.  SMV rejects a model with an "" in   *)
(* an expression or a variable neither declared nor defined; ltlf2smv_2   *)
(* stops at a failed assert.                                               *)
RECURSIVE Refs(_)
Refs(e) ==
  CASE e[1] = "var" -> {e[2]}
    [] e[1] \in {"not", "next", "and", "or", "imp", "eq"} ->
         UNION {Refs(e[k]) : k \in 2..Len(e)}
    [] OTHER -> {}

RECURSIVE HasEmpty(_)
HasEmpty(e) ==
  \/ e = SEmpty
  \/ e[1] \in {"not", "next", "and", "or", "imp", "eq"} /\ \E k \in 2..Len(e) : HasEmpty(e[k])

ExprsOf(m) == {m.init} \cup m.trans \cup {m.defs[n] : n \in DOMAIN m.defs}

WellFormed(m) ==
  /\ ~m.abort
  /\ \A e \in ExprsOf(m) : ~HasEmpty(e) /\ Refs(e) \subseteq m.decl \cup DOMAIN m.defs

(* An expression in the state s (the set of true variables) with          *)
(* successor t; a DEFINE is expanded where it is used.                    *)
RECURSIVE SEval(_, _, _, _)
SEval(m, e, s, t) ==
  CASE e[1] = "var"   -> IF e[2] \in DOMAIN m.defs THEN SEval(m, m.defs[e[2]], s, t)
                                                   ELSE e[2] \in s
    [] e[1] = "const" -> e[2]
    [] e[1] = "tail"  -> TailName \in s
    [] e[1] = "not"   -> ~SEval(m, e[2], s, t)
    [] e[1] = "and"   -> SEval(m, e[2], s, t) /\ SEval(m, e[3], s, t)
    [] e[1] = "or"    -> SEval(m, e[2], s, t) \/ SEval(m, e[3], s, t)
    [] e[1] = "imp"   -> SEval(m, e[2], s, t) => SEval(m, e[3], s, t)
    [] e[1] = "eq"    -> SEval(m, e[2], s, t) = SEval(m, e[3], s, t)
    [] e[1] = "next"  -> SEval(m, e[2], t, t)

TransOK(m, s, t) == \A c \in m.trans : SEval(m, c, s, t)

(* A counterexample to G ! Tail whose first Tail is the last position of  *)
(* the word w (a sequence of sets of atoms): the variables of P take some *)
(* values at each position.  Once Tail holds, no conjunct the translator  *)
(* writes reads next (), so the path can stay in its last state forever:  *)
(* the last state only has to satisfy TRANS towards itself.               *)
FreeVars(m) == {n \in m.decl : n[1] # "ap" /\ n # TailName}
Val(w, pos, S) == S \cup w[pos] \cup (IF pos = Len(w) THEN {TailName} ELSE {})

RECURSIVE OkFrom(_, _, _)
OkFrom(m, w, pos) ==
  IF pos = Len(w)
  THEN {S \in SUBSET FreeVars(m) : TransOK(m, Val(w, pos, S), Val(w, pos, S))}
  ELSE LET later == OkFrom(m, w, pos + 1)
       IN {S \in SUBSET FreeVars(m) :
             \E S2 \in later : TransOK(m, Val(w, pos, S), Val(w, pos + 1, S2))}

Accepts(m, w) ==
  \E S \in OkFrom(m, w, 1) : SEval(m, m.init, Val(w, 1, S), Val(w, 1, S))

(* The reference: f holds at position pos of the finite word w.  X is the   *)
(* strong next, N the weak one.                                            *)
RECURSIVE LHolds(_, _, _)
LHolds(w, pos, f) ==
  CASE f[1] = "ap"    -> f \in w[pos]
    [] f[1] = "true"  -> TRUE
    [] f[1] = "false" -> FALSE
    [] f[1] = "not"   -> ~LHolds(w, pos, f[2])
    [] f[1] = "and"   -> LHolds(w, pos, f[2]) /\ LHolds(w, pos, f[3])
    [] f[1] = "or"    -> LHolds(w, pos, f[2]) \/ LHolds(w, pos, f[3])
    [] f[1] = "imp"   -> LHolds(w, pos, f[2]) => LHolds(w, pos, f[3])
    [] f[1] = "eq"    -> LHolds(w, pos, f[2]) = LHolds(w, pos, f[3])
    [] f[1] = "X"     -> pos < Len(w) /\ LHolds(w, pos + 1, f[2])
    [] f[1] = "N"     -> pos = Len(w) \/ LHolds(w, pos + 1, f[2])
    [] f[1] = "F"     -> \E j \in pos..Len(w) : LHolds(w, j, f[2])
    [] f[1] = "G"     -> \A j \in pos..Len(w) : LHolds(w, j, f[2])
    [] f[1] = "U"     -> \E j \in pos..Len(w) : LHolds(w, j, f[3])
                            /\ \A k \in pos..(j - 1) : LHolds(w, k, f[2])
    [] f[1] = "R"     -> \A j \in pos..Len(w) : LHolds(w, j, f[3])
                            \/ \E k \in pos..(j - 1) : LHolds(w, k, f[2])

(* The model m of f is well formed and has a counterexample ending at      *)
(* exactly the words of W that are models of f.                            *)
ExactOn(m, f, W) == WellFormed(m) /\ \A w \in W : Accepts(m, w) <=> LHolds(w, 1, f)

=============================================================================
