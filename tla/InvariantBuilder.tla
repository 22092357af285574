-------------------------- MODULE InvariantBuilder --------------------------
(***************************************************************************)
(* The UNSAT_PUSURING mode of nondeter_prog_state::get_next_pair          *)
(* (progression/nondeter_prog_state.cpp, lines 1114-1268) with what it    *)
(* calls: compute_next_pair_from_history and compute_next_pair_via_seq,   *)
(* distinguish_states, initial_seq, compute_muc / MUC_set, update_avoid,  *)
(* update_seq, is_invariant, is_initially, update_global_flatted_formula, *)
(* update_avoid_with, the transition graph _f_node_map (update_node,      *)
(* fill_witness_from_to, previous_state) and the histories                *)
(* _until_avoid_seqs and _pre_seq_hist.                                    *)
(*                                                                         *)
(* One behaviour is a series of calls that enter UNSAT mode, each from a  *)
(* reachable formula `root' with outstanding Untils U that the formula    *)
(* cannot fulfil in one step; the static state (_avoid, the global        *)
(* formula, the histories) carries over from call to call.  MUC is the    *)
(* routine of CoreExtractor, used through what that module checks of it: *)
(* it returns a minimal unsatisfiable subset, minus U.                     *)
(***************************************************************************)
EXTENDS Progression, SequencesExt

CONSTANTS
  MaxCalls    \* number of UNSAT-mode calls in a behaviour

VARIABLES
  \* static members of nondeter_prog_state
  avoidL,     \* the formulas g learnt into _avoid as !X g
  gfr,        \* frames OR (seq[i]) added to _global_flatted_formula
  lastInv,    \* _last_invariant: {} for NULL, else {the last f learnt}
  untilSeqs,  \* _until_avoid_seqs: Until -> seq
  preSeqHist, \* _pre_seq_hist
  witness,    \* _witness, replayed by later calls of get_next_pair
  calls,      \* calls made so far
  \* one call
  root,       \* _formula (= _unsat_root)
  U,          \* _unsatisfied / _unsatisfied_untils
  pc,         \* where the call is
  viaSeq,     \* running compute_next_pair_via_seq rather than the main loop
  visited,    \* the set S / visited of explored states
  common,     \* the common conjuncts of distinguish_states
  seq,        \* the avoidable sequence (seq[1] is the code's seq[0])
  pos,        \* the code's pos (0-based)
  nodes,      \* _f_node_map: state -> transition into it, or NoTran
  todo,       \* states compute_muc has still to visit
  qm,         \* the set Q of compute_muc
  res,        \* the result res of compute_muc
  ret         \* what the call returned

statics == <<avoidL, gfr, lastInv, untilSeqs, preSeqHist, witness, calls>>
locals == <<root, U, pc, viaSeq, visited, common, seq, pos, nodes, todo, qm, res, ret>>
vars == <<statics, locals>>

NoTran == [pre |-> "none"]
EmptyPair == [kind |-> "empty"]
NoneRet == [kind |-> "none"]

-----------------------------------------------------------------------------
(* The checking formula of create_check_formula (cur, not_next): the      *)
(* options of cur (a formula as a set of frames; {} is NULL), with        *)
(* _global_flatted_formula (the globals and the added frames), !X        *)
(* not_next ({} is NULL) and _avoid.                                      *)

CoreChoices(g) == {ch \in [g -> UNION g] : \A fr \in g : ch[fr] \in fr}

FormulaOptions(g) == UNION {Options(UNION {ch[fr] : fr \in g}) : ch \in CoreChoices(g)}

RECURSIVE WithFrames(_, _)
WithFrames(os, F) ==
  IF F = {} THEN os
  ELSE LET fr == CHOOSE x \in F : TRUE
       IN  WithFrames({m \in {Merge(o, p) : o \in os, p \in UNION {Options(c) : c \in fr}} :
                         Consistent(m)}, F \ {fr})

GlobalOpts == WithFrames(Options(Globals), gfr)

Admissible(o, nn) ==
  /\ nn = {} \/ ~HoldsNext(o.nxt, nn)
  /\ \A g \in avoidL : ~HoldsNext(o.nxt, g)

Check(g, nn) ==
  {o \in {Merge(c, x) : c \in FormulaOptions(g), x \in GlobalOpts} :
     Consistent(o) /\ Admissible(o, nn)}

Unsat(F, nn) == Check({{F}}, nn) = {}

(* create_check_formula (S, not_next): OR of the states of S without their *)
(* globals; a state that is only globals gives NULL and drops out, TRUE   *)
(* stays.                                                                  *)
VisitedFormula(S) ==
  LET curs == {EraseGlobal(s) : s \in {s \in S : s = {} \/ EraseGlobal(s) # {}}}
  IN  IF curs = {} THEN {} ELSE {curs}

Fulfils(o) == o.mark \cap U # {}

(* Fault: previous_state returns the first state without the model test. *)
PrevStatesFirst(S, o) == S

(* previous_state (S, P): the first state of S, in pointer order, that P   *)
(* satisfies: any of them.                                                 *)
PrevStates(S, o) == {s \in S : Models(o, s)}

(* is_invariant (f): create_check_formula (f, f) is unsat.                 *)
IsInvariant(g) == Check(g, g) = {}

(* is_initially (f): _input_flatted /\ !f->flatted () is unsat.            *)
IsInitially(g) ==
  \A o \in Options(Input) : \E p \in FormulaOptions(g) :
    p.lab \subseteq o.lab /\ p.mark \subseteq o.mark /\ p.nxt \subseteq o.nxt

(* update_avoid (seq, pos): AND of OR (seq[i]) for i <= pos.               *)
UpdateAvoid(sq, p) == {sq[i] : i \in 1..(p + 1)}

(* update_seq (seq, S, pos)                                                *)
UpdateSeq(sq, S, p) == IF Len(sq) > p THEN [sq EXCEPT ![p + 1] = @ \cup S]
                       ELSE Append(sq, S)

(* Fault: the repeat test of update_avoid_with inverted, a new f dropped. *)
LearnIgnored(g) == avoidL' = avoidL /\ lastInv' = {g}

(* update_avoid_with (f): _avoid gets !X f (_avoids only drops repeats);  *)
(* f becomes _last_invariant even when it is a repeat.                     *)
Learn(g) == avoidL' = avoidL \cup {g} /\ lastInv' = {g}

-----------------------------------------------------------------------------
(* MUC (f_set, avoid) with avoid given, as CoreExtractor models it: exit   *)
(* when f_set is satisfiable with the side constraints, NULL when they    *)
(* alone are unsat, else a minimal unsatisfiable subset without U (NULL   *)
(* when that leaves nothing).                                              *)
MUSes(F, nn) ==
  {M \in SUBSET F : Unsat(M, nn) /\ \A x \in M : ~Unsat(M \ {x}, nn)}

MucOutcomes(F, nn) ==
  IF ~Unsat(F, nn) THEN {[kind |-> "exit"]}
  ELSE IF Unsat({}, nn) THEN {[kind |-> "null"]}
  ELSE {IF M \ U = {} THEN [kind |-> "null"] ELSE [kind |-> "core", core |-> M \ U] :
          M \in MUSes(F, nn)}

(* MUC_set (f, Q, avoid): the sets of cores it can return; ok is FALSE    *)
(* when a MUC call inside exits.  A core q of Q whose removal leaves f    *)
(* unsat is dropped first (any of them: Q iterates in pointer order).     *)
RECURSIVE MucSet(_, _, _)
MucSet(f, Q, nn) ==
  LET drop == {q \in Q : EraseFrom(f, q) # {} /\ Unsat(EraseFrom(f, q), nn)}
      \* what follows one outcome m of MUC (f->to_set (), avoid)
      after(m) ==
        CASE m.kind = "exit" -> {[ok |-> FALSE, cores |-> {}]}
          [] m.kind = "null" -> {[ok |-> TRUE, cores |-> {}]}
          [] OTHER ->
               LET t == EraseFrom(f, m.core)
               IN  IF t # {} /\ Unsat(t, nn)
                   THEN {[ok |-> r.ok, cores |-> {m.core} \cup r.cores] : r \in MucSet(t, Q, nn)}
                   ELSE {[ok |-> TRUE, cores |-> {m.core}]}
  IN  IF drop # {} THEN UNION {MucSet(EraseFrom(f, q), Q \ {q}, nn) : q \in drop}
      ELSE UNION {after(m) : m \in MucOutcomes(f, nn)}

-----------------------------------------------------------------------------
(* Fault: no node is made for f (the first half of update_node skipped). *)
UpdateNodeNoPre(nd, f, lab, nx) ==
  IF nx \in DOMAIN nd THEN [ok |-> FALSE, map |-> nd]
  ELSE [ok |-> TRUE, map |-> nd @@ (nx :> [lab |-> lab, pre |-> f])]

(* update_node (f, NULL, P, nx): f gets a node (keeping its transition),  *)
(* then nx gets the transition (P, f); exit (0) if nx already has a node. *)
UpdateNode(nd, f, lab, nx) ==
  LET nd1 == IF f \in DOMAIN nd THEN nd ELSE nd @@ (f :> NoTran)
  IN  IF nx \in DOMAIN nd1 THEN [ok |-> FALSE, map |-> nd1]
      ELSE [ok |-> TRUE, map |-> nd1 @@ (nx :> [lab |-> lab, pre |-> f])]

(* fill_witness_from_to (dest): the transitions from dest back to          *)
(* _unsat_root, dest's first; exit (0) on a missing node or transition.    *)
RECURSIVE FillWitness(_, _)
FillWitness(nd, d) ==
  IF d \notin DOMAIN nd \/ nd[d] = NoTran THEN [ok |-> FALSE, w |-> <<>>]
  ELSE LET st == [lab |-> nd[d].lab, nx |-> d]
       IN  IF nd[d].pre = root THEN [ok |-> TRUE, w |-> <<st>>]
           ELSE LET r == FillWitness(nd, nd[d].pre)
                IN  [ok |-> r.ok, w |-> <<st>> \o r.w]

-----------------------------------------------------------------------------
(* States the search can be in: reachable from the input through          *)
(* successors _avoid does not rule out.                                    *)
Excluded(t) == \E g \in avoidL : HoldsNext(t, g)

RECURSIVE AdmClosure(_)
AdmClosure(S) ==
  LET S2 == S \cup {t \in UNION {SuccOf[s] : s \in S} : ~Excluded(t)}
  IN  IF S2 = S THEN S ELSE AdmClosure(S2)

AdmReach == AdmClosure({Input})

(* _pre_seq_hist / _until_avoid_seqs as compute_next_pair_from_history     *)
(* reads them; adjust_to_unsatisfied keeps the cores of seq[0] that are an *)
(* outstanding Until themselves.                                           *)
Adjust(sq) ==
  LET q2 == {c \in sq[1] : \E u \in U : c = {u}}
  IN  IF q2 = {} THEN <<>> ELSE [sq EXCEPT ![1] = q2]

HistSeqs ==
  IF preSeqHist = <<>> THEN {untilSeqs[u] : u \in U \cap DOMAIN untilSeqs}
  ELSE IF Adjust(preSeqHist) = <<>> THEN {} ELSE {Adjust(preSeqHist)}

(* update_until_avoid_seqs (P, seq): an Until that P fulfils gets the new  *)
(* seq; one with an entry already keeps it (hash_map::insert).            *)
UntilSeqsAfter(o) ==
  LET keep == {u \in DOMAIN untilSeqs : u \notin U \cap o.mark}
  IN  [u \in keep \cup U |-> IF u \in keep THEN untilSeqs[u]
                             ELSE [seq EXCEPT ![1] = {{u}}]]

(* update_pre_seq_hist (P, seq)                                            *)
PreSeqHistAfter(o) ==
  IF U \ o.mark # {} THEN [seq EXCEPT ![1] = {U \ o.mark}] ELSE <<>>

(* The call returns the last transition of the witness (the first step),  *)
(* the rest stays in _witness; _f_node_map is cleared.                     *)
ReturnWitness(w) ==
  /\ ret' = [kind |-> "pair", path |-> Reverse(w)]
  /\ witness' = Front(w)
  /\ nodes' = <<>>
  /\ pc' = "done"

ReturnEmpty ==
  /\ ret' = EmptyPair
  /\ nodes' = <<>>
  /\ pc' = "done"

-----------------------------------------------------------------------------
Init ==
  /\ avoidL = {} /\ gfr = {} /\ lastInv = {} /\ untilSeqs = <<>> /\ preSeqHist = <<>>
  /\ witness = <<>> /\ calls = 0
  /\ root = Input /\ U = {} /\ pc = "idle" /\ viaSeq = FALSE
  /\ visited = {} /\ common = {} /\ seq = <<>> /\ pos = 0 /\ nodes = <<>>
  /\ todo = {} /\ qm = {} /\ res = {} /\ ret = NoneRet

(* get_next_pair enters UNSAT_PUSURING mode: _formula with _avoid is      *)
(* satisfiable but no assignment fulfils an outstanding Until.            *)
StartCall ==
  /\ pc \in {"idle", "done"} /\ witness = <<>> /\ calls < MaxCalls
  /\ \E r \in AdmReach : \E u \in SUBSET UntilsOf(r) \ {{}} :
       LET ro == {o \in OptionsOf[r] : ~Excluded(o.nxt)}
       IN  /\ ro # {}
           /\ \A o \in ro : o.mark \cap u = {}
           /\ root' = r /\ U' = u
  /\ calls' = calls + 1
  /\ pc' = "start" /\ viaSeq' = FALSE /\ visited' = {} /\ common' = {}
  /\ seq' = <<>> /\ pos' = 0 /\ nodes' = <<>> /\ todo' = {} /\ qm' = {}
  /\ res' = {} /\ ret' = NoneRet
  /\ UNCHANGED <<avoidL, lastInv, gfr, untilSeqs, preSeqHist, witness>>

(* A later get_next_pair returns the next step of _witness.               *)
ReplayWitness ==
  /\ pc = "done" /\ witness # <<>>
  /\ witness' = Front(witness)
  /\ UNCHANGED <<avoidL, lastInv, gfr, untilSeqs, preSeqHist, calls, locals>>

(* assignment_pair fulfils the last outstanding Until: _pre_seq_hist is   *)
(* cleared.                                                                *)
AllFulfilled ==
  /\ pc \in {"idle", "done"} /\ preSeqHist # <<>>
  /\ preSeqHist' = <<>>
  /\ UNCHANGED <<avoidL, lastInv, gfr, untilSeqs, witness, calls, locals>>

(* With a global formula, no formula holding all of U can fulfil one of   *)
(* them: learn !X AND (U).                                                 *)
GlobalDead ==
  /\ pc = "start" /\ (Globals # {} \/ gfr # {})
  /\ \A o \in Check({{U}}, {}) : ~Fulfils(o)
  /\ Learn({{U}})
  /\ ReturnEmpty
  /\ UNCHANGED <<gfr, untilSeqs, preSeqHist, witness, calls, root, U, viaSeq,
                 visited, common, seq, pos, todo, qm, res>>

GlobalLive ==
  /\ pc = "start"
  /\ (Globals = {} /\ gfr = {}) \/ \E o \in Check({{U}}, {}) : Fulfils(o)
  /\ pc' = "hist"
  /\ UNCHANGED <<statics, root, U, viaSeq, visited, common, seq, pos, nodes,
                 todo, qm, res, ret>>

(* compute_next_pair_from_history finds no sequence: distinguish_states    *)
(* starts from {_formula} with its non-global conjuncts as common.        *)
HistNone ==
  /\ pc = "hist" /\ HistSeqs = {}
  /\ visited' = {root} /\ common' = EraseGlobal(root)
  /\ pc' = "dist"
  /\ UNCHANGED <<statics, root, U, viaSeq, seq, pos, nodes, todo, qm, res, ret>>

(* It finds one: compute_next_pair_via_seq walks it from {_formula}.       *)
HistFound ==
  /\ pc = "hist"
  /\ \E sq \in HistSeqs :
       /\ seq' = sq /\ pos' = Len(sq) - 1
  /\ viaSeq' = TRUE /\ visited' = {root}
  /\ pc' = "walk"
  /\ UNCHANGED <<statics, root, U, common, nodes, todo, qm, res, ret>>

(* Fault: distinguish_states without !X AND (common): any assignment.    *)
DistFormulaAll == Check(VisitedFormula(visited), {})

(* distinguish_states: an assignment of a visited state that fulfils an   *)
(* outstanding Until or leaves a common conjunct behind.                  *)
DistFormula ==
  {o \in Check(VisitedFormula(visited), {}) :
     Fulfils(o) \/ ~HoldsNext(o.nxt, {{common}})}

(* The formula without its globals, as a one-formula frame set.           *)
Single(f) == IF f = {} THEN {} ELSE {{f}}

(* One iteration of the loop of distinguish_states on an assignment P.   *)
(* If P fulfils an outstanding Until the witness is the path to the state *)
(* previous_state picks.  Otherwise the transition is recorded and the    *)
(* successor added; the call stops at the successor if it can fulfil an   *)
(* outstanding Until, and else narrows common to what the successor keeps. *)
(* assert (pre_state != NULL) fails when no visited state models P.       *)
DistStep ==
  /\ pc = "dist"
  /\ \E o \in DistFormula :
       IF PrevStates(visited, o) = {}
       THEN pc' = "crash" /\ UNCHANGED <<witness, common, nodes, visited>>
       ELSE \E pre \in PrevStates(visited, o) :
              LET nx == NextIn(o, pre)
                  un == UpdateNode(nodes, pre, CurrentIn(o), nx)
                  fw == FillWitness(un.map, nx)
                  fp == FillWitness(nodes, pre)
              IN  IF Fulfils(o)
                  THEN /\ witness' = fp.w /\ common' = {}
                       /\ pc' = IF fp.ok THEN "distEnd" ELSE "exit"
                       /\ UNCHANGED <<nodes, visited>>
                  ELSE /\ nodes' = un.map
                       /\ visited' = visited \cup {nx}
                       /\ IF ~un.ok THEN pc' = "exit" /\ UNCHANGED <<witness, common>>
                          ELSE IF \E o2 \in Check(Single(EraseGlobal(nx)), {}) : Fulfils(o2)
                          THEN /\ witness' = fw.w /\ common' = {}
                               /\ pc' = IF fw.ok THEN "distEnd" ELSE "exit"
                          ELSE /\ common' = common \cap nx
                               /\ UNCHANGED <<pc, witness>>
  /\ UNCHANGED <<avoidL, lastInv, gfr, untilSeqs, preSeqHist, calls, root, U, viaSeq,
                 seq, pos, todo, qm, res, ret>>

DistDone ==
  /\ pc = "dist" /\ DistFormula = {}
  /\ pc' = "distEnd"
  /\ UNCHANGED <<statics, root, U, viaSeq, visited, common, seq, pos, nodes,
                 todo, qm, res, ret>>

(* common is empty: return _witness.back () (undefined on an empty vector). *)
DistWitness ==
  /\ pc = "distEnd" /\ common = {}
  /\ IF witness = <<>> THEN pc' = "crash" /\ UNCHANGED <<witness, nodes, ret>>
     ELSE ReturnWitness(witness)
  /\ UNCHANGED <<avoidL, lastInv, gfr, untilSeqs, preSeqHist, calls, root, U, viaSeq,
                 visited, common, seq, pos, todo, qm, res>>

(* Fault: AND (common) learnt without the is_invariant test.            *)
DistInvariantUnchecked ==
  /\ pc = "distEnd" /\ common # {}
  /\ Learn({{common}})
  /\ ReturnEmpty
  /\ UNCHANGED <<gfr, untilSeqs, preSeqHist, witness, calls, root, U, viaSeq,
                 visited, common, seq, pos, todo, qm, res>>

(* AND (common) is an invariant: learn !X AND (common).                   *)
DistInvariant ==
  /\ pc = "distEnd" /\ common # {}
  /\ IsInvariant({{common}})
  /\ Learn({{common}})
  /\ ReturnEmpty
  /\ UNCHANGED <<gfr, untilSeqs, preSeqHist, witness, calls, root, U, viaSeq,
                 visited, common, seq, pos, todo, qm, res>>

(* initial_seq: seq = [ {AND (U)} ].                                       *)
SeqStart ==
  /\ pc = "distEnd" /\ common # {}
  /\ ~IsInvariant({{common}})
  /\ seq' = <<{U}>> /\ pos' = 0
  /\ pc' = "iseq"
  /\ UNCHANGED <<statics, root, U, viaSeq, visited, common, nodes, todo, qm, res, ret>>

(* The loop of initial_seq ends: AND (common) has a successor outside     *)
(* OR (seq[pos]); the main loop starts at pos = seq.size () - 1.          *)
SeqLeave ==
  /\ pc = "iseq"
  /\ Check({{common}}, {seq[pos + 1]}) # {}
  /\ pc' = "muc"
  /\ UNCHANGED <<statics, root, U, viaSeq, visited, common, seq, pos, nodes,
                 todo, qm, res, ret>>

(* The loop body of initial_seq: MUC (common, OR (seq[pos])).  A NULL    *)
(* core: learn !X OR (seq[pos]), clear seq, return the empty pair.  A     *)
(* core: push it as a new frame; if the conjunction of the frames is an   *)
(* invariant, learn it and return the empty pair.                          *)
SeqCore ==
  /\ pc = "iseq"
  /\ Check({{common}}, {seq[pos + 1]}) = {}
  /\ \E m \in MucOutcomes(common, {seq[pos + 1]}) :
       CASE m.kind = "null" ->
              /\ Learn({seq[pos + 1]}) /\ seq' = <<>> /\ ReturnEmpty
              /\ UNCHANGED pos
         [] m.kind = "core" ->
              LET sq == Append(seq, {m.core})
                  av == UpdateAvoid(sq, pos + 1)
              IN  IF IsInvariant(av)
                  THEN /\ Learn(av) /\ seq' = <<>> /\ ReturnEmpty
                       /\ UNCHANGED pos
                  ELSE /\ seq' = sq /\ pos' = pos + 1
                       /\ UNCHANGED <<avoidL, lastInv, nodes, pc, ret>>
         [] OTHER -> pc' = "exit" /\ UNCHANGED <<avoidL, lastInv, seq, pos, nodes, ret>>
  /\ UNCHANGED <<gfr, untilSeqs, preSeqHist, witness, calls, root, U, viaSeq,
                 visited, common, todo, qm, res>>

(* compute_muc (visited, seq, pos) begins: Q = seq[pos+1] if there is one. *)
MucBegin ==
  /\ pc = "muc"
  /\ todo' = visited /\ res' = {}
  /\ qm' = IF pos + 1 < Len(seq) THEN seq[pos + 2] ELSE {}
  /\ pc' = "mucState"
  /\ UNCHANGED <<statics, root, U, viaSeq, visited, common, seq, pos, nodes, ret>>

(* One state of S (the set iterates in pointer order: any of them): the   *)
(* cores X c of seq[pos] it contains, then the cores MUC_set finds.       *)
MucState ==
  /\ pc = "mucState"
  /\ \E s \in todo :
       LET f  == EraseGlobal(s)
           xr == {xc \in ApplyNextCores(seq[pos + 1]) : xc \subseteq f}
       IN  IF s # {} /\ f = {}
           THEN /\ pc' = "mucEnd"       \* erase_global gives NULL: return res
                /\ UNCHANGED <<todo, qm, res>>
           ELSE \E r \in MucSet(f, qm \cup xr, {seq[pos + 1]}) :
                  IF ~r.ok THEN pc' = "exit" /\ UNCHANGED <<todo, qm, res>>
                  ELSE /\ res' = res \cup xr \cup r.cores
                       /\ qm' = qm \cup xr \cup r.cores
                       /\ todo' = todo \ {s}
                       /\ UNCHANGED pc
  /\ UNCHANGED <<statics, root, U, viaSeq, visited, common, seq, pos, nodes, ret>>

MucStatesDone ==
  /\ pc = "mucState" /\ todo = {}
  /\ pc' = "mucEnd"
  /\ UNCHANGED <<statics, root, U, viaSeq, visited, common, seq, pos, nodes,
                 todo, qm, res, ret>>

(* After compute_muc: a non-empty qi goes into seq[pos+1] and pos grows.  *)
NewPos == IF res # {} THEN pos + 1 ELSE pos
NewSeq == IF res # {} THEN UpdateSeq(seq, res, pos + 1) ELSE seq
NewAvoid == UpdateAvoid(NewSeq, NewPos)

(* The frames up to pos are an invariant and OR (seq[pos]) is an          *)
(* invariant that holds initially: OR (seq[i]), i >= 1, join the global   *)
(* formula and !X AND (U) is learnt.                                       *)
MucGlobal ==
  /\ pc = "mucEnd"
  /\ IsInvariant(NewAvoid)
  /\ IsInvariant({NewSeq[NewPos + 1]}) /\ IsInitially({NewSeq[NewPos + 1]})
  /\ gfr' = gfr \cup {NewSeq[i] : i \in 2..Len(NewSeq)}
  /\ Learn({{U}})
  /\ seq' = NewSeq /\ pos' = NewPos
  /\ ReturnEmpty
  /\ UNCHANGED <<untilSeqs, preSeqHist, witness, calls, root, U, viaSeq,
                 visited, common, todo, qm, res>>

(* The frames up to pos are an invariant otherwise: learn !X of them.     *)
MucLearn ==
  /\ pc = "mucEnd"
  /\ IsInvariant(NewAvoid)
  /\ ~(IsInvariant({NewSeq[NewPos + 1]}) /\ IsInitially({NewSeq[NewPos + 1]}))
  /\ Learn(NewAvoid)
  /\ seq' = NewSeq /\ pos' = NewPos
  /\ ReturnEmpty
  /\ UNCHANGED <<gfr, untilSeqs, preSeqHist, witness, calls, root, U, viaSeq,
                 visited, common, todo, qm, res>>

(* No visited state leaves OR (seq[pos]): compute_muc again.  Both this  *)
(* and MucStep first assert (!qi.empty ()).                                *)
MucRetry ==
  /\ pc = "mucEnd"
  /\ ~IsInvariant(NewAvoid)
  /\ Check(VisitedFormula(visited), {NewSeq[NewPos + 1]}) = {}
  /\ IF res = {} THEN pc' = "abort" /\ UNCHANGED <<seq, pos>>
     ELSE seq' = NewSeq /\ pos' = NewPos /\ pc' = "muc"
  /\ UNCHANGED <<statics, root, U, viaSeq, visited, common, nodes, todo, qm, res, ret>>

(* A visited state leaves OR (seq[pos]): record the transition (unguarded *)
(* update_node), add the successor, and go one frame down.                *)
MucStep ==
  /\ pc = "mucEnd"
  /\ ~IsInvariant(NewAvoid)
  /\ \E o \in Check(VisitedFormula(visited), {NewSeq[NewPos + 1]}) :
       IF res = {} THEN pc' = "abort" /\ UNCHANGED <<nodes, visited>>
       ELSE IF PrevStates(visited, o) = {} THEN pc' = "crash" /\ UNCHANGED <<nodes, visited>>
       ELSE \E pre \in PrevStates(visited, o) :
              LET nx == NextIn(o, pre)
                  un == UpdateNode(nodes, pre, CurrentIn(o), nx)
              IN  /\ nodes' = un.map
                  /\ visited' = visited \cup {nx}
                  /\ pc' = IF un.ok THEN "walk" ELSE "exit"
  /\ seq' = NewSeq /\ pos' = NewPos - 1
  /\ UNCHANGED <<statics, root, U, viaSeq, common, todo, qm, res, ret>>

(* The inner loop: at pos = 0 a visited state that fulfils an outstanding *)
(* Until, else one that leaves OR (seq[pos]).                              *)
WalkFormula ==
  IF pos = 0 THEN {o \in Check(VisitedFormula(visited), {}) : Fulfils(o)}
  ELSE Check(VisitedFormula(visited), {seq[pos + 1]})

WalkStuck ==
  /\ pc = "walk" /\ WalkFormula = {}
  /\ pc' = "muc"
  /\ UNCHANGED <<statics, root, U, viaSeq, visited, common, seq, pos, nodes,
                 todo, qm, res, ret>>

(* pos drops below 0: fill the witness to the state that fulfils, update  *)
(* the histories and return the first step.                                *)
WalkFulfil ==
  /\ pc = "walk" /\ pos = 0
  /\ \E o \in WalkFormula :
       IF PrevStates(visited, o) = {} THEN pc' = "crash" /\ UNCHANGED <<untilSeqs, preSeqHist, witness, nodes, ret>>
       ELSE \E pre \in PrevStates(visited, o) :
              LET fw == FillWitness(nodes, pre)
              IN  IF ~fw.ok THEN pc' = "exit" /\ UNCHANGED <<untilSeqs, preSeqHist, witness, nodes, ret>>
                  ELSE /\ ReturnWitness(fw.w)
                       /\ untilSeqs' = UntilSeqsAfter(o)
                       /\ preSeqHist' = PreSeqHistAfter(o)
  /\ UNCHANGED <<avoidL, lastInv, gfr, calls, root, U, viaSeq, visited, common, seq, pos,
                 todo, qm, res>>

(* One frame down: record the transition (compute_next_pair_via_seq only  *)
(* for a successor not yet visited) and add the successor.                *)
WalkDown ==
  /\ pc = "walk" /\ pos > 0
  /\ \E o \in WalkFormula :
       IF PrevStates(visited, o) = {} THEN pc' = "crash" /\ UNCHANGED <<nodes, visited>>
       ELSE \E pre \in PrevStates(visited, o) :
              LET nx == NextIn(o, pre)
                  un == UpdateNode(nodes, pre, CurrentIn(o), nx)
              IN  IF viaSeq /\ nx \in visited THEN UNCHANGED <<pc, nodes, visited>>
                  ELSE /\ nodes' = un.map
                       /\ visited' = visited \cup {nx}
                       /\ pc' = IF un.ok THEN "walk" ELSE "exit"
  /\ pos' = pos - 1
  /\ UNCHANGED <<statics, root, U, viaSeq, common, seq, todo, qm, res, ret>>

Next ==
  \/ StartCall \/ ReplayWitness \/ AllFulfilled
  \/ GlobalDead \/ GlobalLive \/ HistNone \/ HistFound
  \/ DistStep \/ DistDone \/ DistWitness \/ DistInvariant
  \/ SeqStart \/ SeqLeave \/ SeqCore
  \/ MucBegin \/ MucState \/ MucStatesDone
  \/ MucGlobal \/ MucLearn \/ MucRetry \/ MucStep
  \/ WalkStuck \/ WalkFulfil \/ WalkDown

Spec == Init /\ [][Next]_vars

-----------------------------------------------------------------------------
Phases == {"idle", "start", "hist", "dist", "distEnd", "iseq", "muc",
           "mucState", "mucEnd", "walk", "done", "exit", "crash", "abort"}

TypeOK ==
  /\ avoidL \subseteq SUBSET SUBSET SUBSET Conj
  /\ gfr \subseteq SUBSET SUBSET Conj
  /\ lastInv \subseteq SUBSET SUBSET SUBSET Conj /\ Cardinality(lastInv) <= 1
  /\ DOMAIN untilSeqs \subseteq UntilConj
  /\ preSeqHist \in Seq(SUBSET SUBSET Conj)
  /\ calls \in 0..MaxCalls
  /\ root \subseteq Conj /\ U \subseteq UntilsOf(root)
  /\ pc \in Phases /\ viaSeq \in BOOLEAN
  /\ visited \subseteq SUBSET Conj /\ common \subseteq Conj
  /\ seq \in Seq(SUBSET SUBSET Conj)
  /\ pos \in -1..Len(seq)
  /\ DOMAIN nodes \subseteq SUBSET Conj
  /\ \A x \in DOMAIN nodes :
       nodes[x] = NoTran \/ nodes[x] \in [lab : [lab : SUBSET Lit, mark : SUBSET UntilConj],
                                          pre : DOMAIN nodes]
  /\ todo \subseteq visited
  /\ ret.kind \in {"none", "empty", "pair"}

(* The search never stops the process: no exit (0) in update_node,        *)
(* fill_witness_from_to or MUC, no failed assert and no undefined         *)
(* _witness.back () on any call sequence.                                  *)
NoAbnormalExit == pc \notin {"exit", "crash", "abort"}

(* What _avoid and the global formula learn is sound: when the input is   *)
(* satisfiable, a lasso with every Until fulfilled is still reachable      *)
(* through successors that no learnt !X g rules out.                        *)
SatPreserved ==
  Input \in SatStates => HasGoodCycle({t \in AdmReach : ~Excluded(t)})

(* One progression step s -> t under a transition label l.                 *)
IsStep(s, l, t) ==
  \E o \in Options(s) : o.lab \subseteq l.lab /\ l.mark \subseteq o.mark /\ o.nxt = t

(* A pair the UNSAT mode returns starts a witness _witness replays: a path *)
(* of progression steps from _formula that fulfils an outstanding Until on *)
(* one of its steps or ends in a formula with an admissible assignment     *)
(* that does; otherwise following it makes no progress.                   *)
WitnessIsPath ==
  ret.kind = "pair" =>
    /\ ret.path # <<>>
    /\ \A i \in 1..Len(ret.path) :
         IsStep(IF i = 1 THEN root ELSE ret.path[i - 1].nx, ret.path[i].lab, ret.path[i].nx)
    /\ \/ \E i \in 1..Len(ret.path) : ret.path[i].lab.mark \cap U # {}
       \/ \E o \in Options(Last(ret.path).nx) : ~Excluded(o.nxt) /\ Fulfils(o)


(* Every call of the UNSAT mode that returns the empty pair has learnt     *)
(* something that rules out a successor of _formula that _avoid still     *)
(* allowed: dfs sees the formula lose a successor each time, the measure  *)
(* its termination rests on (a repeated learning is a no-op in             *)
(* update_avoid_with).                                                     *)
EmptyPairCutsRoot ==
  [][ret'.kind = "empty" /\ ret.kind # "empty" =>
       \E o \in OptsOf(root) :
         ~Excluded(o.nxt) /\ \E g \in avoidL' : HoldsNext(o.nxt, g)]_vars

=============================================================================
