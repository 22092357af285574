------------------------------ MODULE SatSolver ------------------------------
(***************************************************************************)
(* sat_solver::sat and sat_solver::tarjan (sat_solver.cpp): the earlier   *)
(* on-the-fly checker, a Tarjan search over the DNF successors of a       *)
(* formula that accepts as soon as the edges collected in the current     *)
(* strongly connected part fulfil the formula (scc_sat).                   *)
(*                                                                         *)
(* A formula is a progression state of Progression (a set of conjuncts,   *)
(* TRUE is {}); dnf_formula (u)->get_next () is Options (u): its current   *)
(* part is o.lab, its next part o.nxt.  scc_sat walks the syntax of the   *)
(* formula: Syn gives the syntax tree of each conjunct.  The recursion of *)
(* tarjan is the stack `frames`; a frame's `wait` holds the clause whose   *)
(* successor is being searched.  The clauses are taken shortest next part *)
(* first, equal lengths in any order (the comparison is in the absent     *)
(* dnf_formula library).                                                   *)
(* olg_formula (sat () / unsat ()) is absent as well: it is a sound quick *)
(* check that may answer or not.                                           *)
(***************************************************************************)
EXTENDS Progression, TLC

CONSTANT Syn   \* Conj -> the syntax tree of the conjunct

VARIABLES
  dfn,     \* sat_solver::dfn, the visit number of each visited formula
  low,     \* sat_solver::low
  index,   \* _index
  stk,     \* _stk (and _instk, which holds the same formulas)
  scc,     \* _scc: the edge set es of each expanded formula
  frames,  \* the active tarjan calls: [u, todo (clauses left), wait]
  ret,     \* {v} when the call on v has just returned false
  last,    \* {_states.back ()}: the formula of the latest clause taken
  result   \* "none", "sat", "unsat", or "stuck" (never returns)

vars == <<dfn, low, index, stk, scc, frames, ret, last, result>>

Frame == [u : SUBSET Conj, todo : SUBSET Option, wait : SUBSET Option]

Top == frames[Len(frames)]

OnStack(v) == \E i \in 1..Len(stk) : stk[i] = v

LowMin(a, b) == IF a < b THEN a ELSE b

(* scc_sat (af, s): the obligations of a formula met by the literals s.   *)
RECURSIVE SccSatF(_, _)
SccSatF(f, es) ==
  CASE f.op = "and" -> SccSatF(f.l, es) /\ SccSatF(f.r, es)
    [] f.op = "or"  -> SccSatF(f.l, es) \/ SccSatF(f.r, es)
    [] f.op \in {"until", "release", "next"} -> SccSatF(f.r, es)
    [] f.op = "true"  -> TRUE
    [] f.op = "false" -> FALSE
    [] f.op = "lit"   -> f.lit \in es

(* scc_sat (u->unique (), es): u is the And of its conjuncts.             *)
SccSat(u, es) == \A c \in u : SccSatF(Syn[c], es)

(* The length of a formula: its syntax nodes; a state is the And of its   *)
(* conjuncts.                                                              *)
RECURSIVE TreeLen(_)
TreeLen(f) ==
  CASE f.op \in {"and", "or"} -> 1 + TreeLen(f.l) + TreeLen(f.r)
    [] f.op \in {"until", "release"} -> 1 + TreeLen(f.l) + TreeLen(f.r)
    [] f.op = "next" -> 1 + TreeLen(f.r)
    [] OTHER -> 1

RECURSIVE SumLen(_)
SumLen(S) == IF S = {} THEN 0
             ELSE LET c == CHOOSE x \in S : TRUE IN TreeLen(Syn[c]) + SumLen(S \ {c})

FormulaLen(s) == IF s = {} THEN 1 ELSE SumLen(s) + Cardinality(s) - 1

(* std::sort (dnf_arr, ...) orders the clauses by the length of their    *)
(* next part (line 296): the next clause taken is a shortest one left.    *)
LenOf == [s \in ReachStates |-> FormulaLen(s)]
Sorted(o, todo) == \A p \in todo : LenOf[o.nxt] <= LenOf[p.nxt]

(* split2set (And, current, es): the literals of the current part.         *)
Split2Set(o) == o.lab

(* olg_formula (u): sat () and unsat () are sound; either may stay silent. *)
OlgSat(v)   == v \in SatStates
OlgUnsat(v) == v \notin SatStates

(* init (): nothing visited, _index = 1, empty stack and edge sets.       *)
Init ==
  /\ dfn = [x \in {} |-> 0]
  /\ low = [x \in {} |-> 0]
  /\ index = 1
  /\ stk = <<>>
  /\ scc = [x \in {} |-> {}]
  /\ frames = <<>>
  /\ ret = {}
  /\ last = {}
  /\ result = "none"

(* tarjan (v) entered from the frames fr: number v; TRUE and the olg      *)
(* answers return at once; otherwise push v and its DNF clauses.          *)
Visit(v, fr) ==
  /\ dfn' = dfn @@ (v :> index)
  /\ low' = low @@ (v :> index)
  /\ index' = index + 1
  /\ \/ /\ v = {}
        /\ result' = "sat"
        /\ UNCHANGED <<stk, scc, frames, ret>>
     \/ /\ v # {} /\ OlgSat(v)
        /\ result' = "sat"
        /\ UNCHANGED <<stk, scc, frames, ret>>
     \/ /\ v # {} /\ OlgUnsat(v)
        /\ ret' = {v}
        /\ frames' = fr
        /\ UNCHANGED <<stk, scc, result>>
     \/ /\ v # {}
        /\ scc' = scc @@ (v :> {})
        /\ stk' = Append(stk, v)
        /\ frames' = Append(fr, [u |-> v, todo |-> OptsOf(v), wait |-> {}])
        /\ UNCHANGED <<ret, result>>

(* The merge of an edge u -> v into u's edge set when low[u] = low[v], and *)
(* the scc_sat check.  On success aff is _states.back (), the formula of  *)
(* the latest clause taken anywhere in the search (calls that returned    *)
(* false leave their entries); the evidence loop `while (aff != v)` never *)
(* advances aff: it only ends when aff = v.                                *)
MergeCheck(u, v, o, lw, aff) ==
  IF lw[u] = lw[v]
  THEN LET es == scc[u] \cup Split2Set(o) \cup (IF u # v THEN scc[v] ELSE {})
       IN  /\ scc' = [scc EXCEPT ![u] = es]
           /\ result' = IF ~SccSat(u, es) THEN result
                        ELSE IF aff = {v} THEN "sat" ELSE "stuck"
  ELSE UNCHANGED <<scc, result>>

Running == result = "none" /\ ret = {}

(* sat (afp): init () and tarjan (afp).                                   *)
Start ==
  /\ result = "none" /\ DOMAIN dfn = {}
  /\ last' = last
  /\ Visit(Input, <<>>)

(* A clause whose successor is not yet numbered: recurse into it.         *)
Descend ==
  /\ Running /\ frames # <<>> /\ Top.wait = {}
  /\ \E o \in Top.todo :
       /\ Sorted(o, Top.todo)
       /\ o.nxt \notin DOMAIN dfn
       /\ last' = {Top.u}
       /\ Visit(o.nxt, [frames EXCEPT ![Len(frames)] =
                          [@ EXCEPT !.todo = @ \ {o}, !.wait = {o}]])

(* A clause whose successor is numbered: lower low[u] when it is on the   *)
(* stack, then merge and check.                                            *)
Cross ==
  /\ Running /\ frames # <<>> /\ Top.wait = {}
  /\ \E o \in Top.todo :
       LET u  == Top.u
           v  == o.nxt
           lw == IF OnStack(v) THEN [low EXCEPT ![u] = LowMin(@, low[v])] ELSE low
       IN  /\ Sorted(o, Top.todo)
           /\ v \in DOMAIN dfn
           /\ low' = lw
           /\ frames' = [frames EXCEPT ![Len(frames)].todo = @ \ {o}]
           /\ last' = {u}
           /\ MergeCheck(u, v, o, lw, {u})
           /\ UNCHANGED <<dfn, index, stk, ret>>

(* The recursive call returned false: lower low[u], merge and check.      *)
Resume ==
  /\ result = "none" /\ ret # {} /\ frames # <<>>
  /\ \E o \in Top.wait :
       LET u  == Top.u
           v  == o.nxt
           lw == [low EXCEPT ![u] = LowMin(@, low[v])]
       IN  /\ low' = lw
           /\ frames' = [frames EXCEPT ![Len(frames)].wait = {}]
           /\ ret' = {}
           /\ MergeCheck(u, v, o, lw, last)
           /\ UNCHANGED <<dfn, index, stk, last>>

(* All clauses done: a root pops its component off the stack; return     *)
(* false.                                                                  *)
Close ==
  /\ Running /\ frames # <<>> /\ Top.wait = {} /\ Top.todo = {}
  /\ LET u == Top.u
         i == CHOOSE j \in 1..Len(stk) : stk[j] = u
     IN  /\ stk' = IF dfn[u] = low[u] THEN SubSeq(stk, 1, i - 1) ELSE stk
         /\ ret' = {u}
  /\ frames' = SubSeq(frames, 1, Len(frames) - 1)
  /\ UNCHANGED <<dfn, low, index, scc, last, result>>

(* The outermost call returned false: sat () is false.                    *)
Answer ==
  /\ result = "none" /\ ret # {} /\ frames = <<>>
  /\ result' = "unsat"
  /\ UNCHANGED <<dfn, low, index, stk, scc, frames, ret, last>>

Next == Start \/ Descend \/ Cross \/ Resume \/ Close \/ Answer

Spec == Init /\ [][Next]_vars

-----------------------------------------------------------------------------
TypeOK ==
  /\ DOMAIN dfn = DOMAIN low /\ DOMAIN dfn \subseteq ReachStates
  /\ \A x \in DOMAIN dfn : dfn[x] \in 1..index - 1 /\ low[x] \in 1..dfn[x]
  /\ index \in Nat \ {0}
  /\ stk \in Seq(ReachStates) /\ DOMAIN scc \subseteq DOMAIN dfn
  /\ \A x \in DOMAIN scc : scc[x] \subseteq Lit
  /\ frames \in Seq(Frame)
  /\ ret \subseteq ReachStates /\ Cardinality(ret) <= 1
  /\ last \subseteq ReachStates /\ Cardinality(last) <= 1
  /\ result \in {"none", "sat", "unsat", "stuck"}

(* sat () returns: the evidence loop of lines 353-357 is never entered   *)
(* with aff # v, where it would pop _path for ever.                        *)
NeverStuck == result # "stuck"

=============================================================================
