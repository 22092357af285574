------------------------------ MODULE Bool2Cnf ------------------------------
(***************************************************************************)
(* The translation of a propositional formula into CNF of                  *)
(* bool2cnf/trans.c: plus (node) prints the clauses that make node->index *)
(* imply the node's subformula, minus (node) the clauses that make the     *)
(* subformula imply node->index (the Plaisted-Greenbaum polarity           *)
(* encoding).  Each function runs in one of two modes: with result_output  *)
(* set it prints its clauses, without it it only adds their number to      *)
(* no_clauses, the count of the DIMACS header.  Plus and Minus are the     *)
(* printing mode, PlusCount and MinusCount the counting mode.              *)
(*                                                                         *)
(* A node is the record of make_node: its type, its children and its      *)
(* index, the DIMACS variable (or, for a NOT node, literal) standing for  *)
(* it.  A clause is the sequence of literals one printf line prints.      *)
(***************************************************************************)
EXTENDS Integers, Sequences

Null == [type |-> "null"]

Types == {"VAR", "AND", "OR", "EQ", "IMP", "NOT"}

MakeNode(type, left, right, index) ==
  [type |-> type, left |-> left, right |-> right, index |-> index]

RECURSIVE Plus(_), Minus(_), PlusCount(_), MinusCount(_)

(* minus with its OR case printing only the first two of its clauses.      *)
MinusOrTwo(n) ==
  LET x == n.index
      l == n.left.index
      r == n.right.index
  IN CASE n = Null         -> <<>>
       [] n.type = "VAR"   -> <<>>
       [] n.type = "AND"   -> <<<<-l, -r, x>>>> \o Minus(n.left) \o Minus(n.right)
       [] n.type = "OR"    -> <<<<-l, r, x>>, <<l, -r, x>>>>
                              \o Minus(n.left) \o Minus(n.right)
       [] n.type = "EQ"    -> <<<<l, r, x>>, <<-l, -r, x>>>>
                              \o Minus(n.left) \o Minus(n.right)
                              \o Plus(n.left) \o Plus(n.right)
       [] n.type = "IMP"   -> <<<<-l, -r, x>>, <<l, -r, x>>, <<l, r, x>>>>
                              \o Plus(n.left) \o Minus(n.right)
       [] n.type = "NOT"   -> Plus(n.left)

(* plus (node), printing: node->index implies the node.  The clauses of   *)
(* the node come first, then those of its children in the order of the    *)
(* calls; a VAR prints nothing and a NOT only switches to minus.          *)
Plus(n) ==
  LET x == n.index
      l == n.left.index
      r == n.right.index
  IN CASE n = Null         -> <<>>
       [] n.type = "VAR"   -> <<>>
       [] n.type = "AND"   -> <<<<-x, l>>, <<-x, r>>>> \o Plus(n.left) \o Plus(n.right)
       [] n.type = "OR"    -> <<<<-x, l, r>>>> \o Plus(n.left) \o Plus(n.right)
       [] n.type = "EQ"    -> <<<<-x, -l, r>>, <<-x, l, -r>>>>
                              \o Plus(n.left) \o Plus(n.right)
                              \o Minus(n.left) \o Minus(n.right)
       [] n.type = "IMP"   -> <<<<-x, -l, r>>>> \o Minus(n.left) \o Plus(n.right)
       [] n.type = "NOT"   -> Minus(n.left)

(* minus (node), printing: the node implies node->index.                   *)
Minus(n) ==
  LET x == n.index
      l == n.left.index
      r == n.right.index
  IN CASE n = Null         -> <<>>
       [] n.type = "VAR"   -> <<>>
       [] n.type = "AND"   -> <<<<-l, -r, x>>>> \o Minus(n.left) \o Minus(n.right)
       [] n.type = "OR"    -> <<<<-l, r, x>>, <<l, -r, x>>, <<-l, -r, x>>>>
                              \o Minus(n.left) \o Minus(n.right)
       [] n.type = "EQ"    -> <<<<l, r, x>>, <<-l, -r, x>>>>
                              \o Minus(n.left) \o Minus(n.right)
                              \o Plus(n.left) \o Plus(n.right)
       [] n.type = "IMP"   -> <<<<-l, -r, x>>, <<l, -r, x>>, <<l, r, x>>>>
                              \o Plus(n.left) \o Minus(n.right)
       [] n.type = "NOT"   -> Plus(n.left)

(* plus (node) with result_output 0: the clauses it would print, counted.  *)
PlusCount(n) ==
  CASE n = Null       -> 0
    [] n.type = "VAR" -> 0
    [] n.type = "AND" -> 2 + PlusCount(n.left) + PlusCount(n.right)
    [] n.type = "OR"  -> 1 + PlusCount(n.left) + PlusCount(n.right)
    [] n.type = "EQ"  -> 2 + PlusCount(n.left) + PlusCount(n.right)
                           + MinusCount(n.left) + MinusCount(n.right)
    [] n.type = "IMP" -> 1 + MinusCount(n.left) + PlusCount(n.right)
    [] n.type = "NOT" -> MinusCount(n.left)

(* minus (node) with result_output 0.                                      *)
MinusCount(n) ==
  CASE n = Null       -> 0
    [] n.type = "VAR" -> 0
    [] n.type = "AND" -> 1 + MinusCount(n.left) + MinusCount(n.right)
    [] n.type = "OR"  -> 3 + MinusCount(n.left) + MinusCount(n.right)
    [] n.type = "EQ"  -> 2 + MinusCount(n.left) + MinusCount(n.right)
                           + PlusCount(n.left) + PlusCount(n.right)
    [] n.type = "IMP" -> 3 + PlusCount(n.left) + MinusCount(n.right)
    [] n.type = "NOT" -> PlusCount(n.left)

-----------------------------------------------------------------------------
(* The reference: the meaning of a node under the set v of DIMACS         *)
(* variables that are true, and of the printed clauses.                    *)
RECURSIVE Eval(_, _)
Eval(n, v) ==
  CASE n.type = "VAR" -> n.index \in v
    [] n.type = "AND" -> Eval(n.left, v) /\ Eval(n.right, v)
    [] n.type = "OR"  -> Eval(n.left, v) \/ Eval(n.right, v)
    [] n.type = "EQ"  -> Eval(n.left, v) = Eval(n.right, v)
    [] n.type = "IMP" -> Eval(n.left, v) => Eval(n.right, v)
    [] n.type = "NOT" -> ~Eval(n.left, v)

LitTrue(lit, v) == IF lit > 0 THEN lit \in v ELSE -lit \notin v

Models(cls, v) == \A k \in 1..Len(cls) : \E j \in 1..Len(cls[k]) : LitTrue(cls[k][j], v)

(* The variables of the internal nodes: every node but a VAR and a NOT.    *)
RECURSIVE Internal(_)
Internal(n) ==
  CASE n.type = "VAR" -> {}
    [] n.type = "NOT" -> Internal(n.left)
    [] OTHER          -> {n.index} \cup Internal(n.left) \cup Internal(n.right)
=============================================================================
