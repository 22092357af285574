-------------------------- MODULE NondeterChecker --------------------------
(***************************************************************************)
(* One query of the nondeterministic checker, end to end: check () and    *)
(* dfs () of checking/nondeter_checker.cpp with set_next_wanted and       *)
(* get_next_wanted, calling nondeter_prog_state::get_next_pair on the     *)
(* formula at the top of _visited.  get_next_pair is modelled whole: the  *)
(* _witness replay, the SAT_PUSURING query on _next_wanted, the dead      *)
(* formula (MUC and update_avoid_with), the free and the pursuing         *)
(* assignment, and the UNSAT_PUSURING mode, which is InvariantBuilder run *)
(* from the current formula and its outstanding Untils.                   *)
(*                                                                         *)
(* Every member of nondeter_prog_state is static, so a dfs () frame only  *)
(* holds its formula and the pair it is working on.  The initial _avoid   *)
(* of set_avoid (NextDepth) starts here as no formula: its constraints    *)
(* on X atoms and nested X (avoid_next_false, global_next_n_true) only    *)
(* keep X x and X !x apart, which Options already does, and the X r of    *)
(* global_next_true for a propositional global G r adds to a successor   *)
(* conjuncts of r that its own G r requires at once: the successor        *)
(* differs in its conjuncts, not in its models.                            *)
(***************************************************************************)
EXTENDS InvariantBuilder

CONSTANTS
  LitConj,    \* conjuncts that are literals: oper () > Undefined, or Not
  GConj,      \* conjuncts of the form G g (false R g), the globals among them
  MaxWanted   \* compute_next_wanted_count_ bound of set_next_wanted (10)

ASSUME Input # {} /\ LitConj \subseteq Conj /\ Globals \subseteq GConj /\ GConj \subseteq Conj
       /\ MaxWanted \in Nat

VARIABLES
  path,             \* nondeter_checker::_visited
  edges,            \* _visited_edges, as collect_until sees them: markers
  fints,            \* _formula_ints: formula -> position in _visited
  frames,           \* the active dfs () calls, innermost last
  unsatisfied,      \* nondeter_prog_state::_unsatisfied
  noUntilFulfilled, \* _no_until_fulfilled
  started,          \* ~nondeter_checker::_start
  nextWanted,       \* _next_wanted: its disjuncts, {} for NULL
  wantedCount,      \* compute_next_wanted_count_, saturated at MaxWanted+1
  satPos,           \* _satisfied_pos
  nextSatPos,       \* _next_satisfied_pos
  result            \* "none", the verdict of check (), or "exit"

dfsVars == <<path, edges, fints, frames, unsatisfied, noUntilFulfilled, started,
             nextWanted, wantedCount, satPos, nextSatPos, result>>
allVars == <<vars, dfsVars>>

NoLab == [lab |-> {}, mark |-> {}]
Top == frames[Len(frames)]
SetTop(r) == frames' = [frames EXCEPT ![Len(frames)] = r]

-----------------------------------------------------------------------------
(* get_nexts (flat): the X atoms of the flattening, but X G g.            *)
NextsOf(f) == XAtoms(f) \ GConj

(* get_next_formula (w, P) for the state w: NULL (no record) when a        *)
(* conjunct of w is neither an X atom of the flattening, nor a G formula, *)
(* nor a literal; else AND (X w) /\ !X of the other X atoms.  X l for a   *)
(* literal l that is no X atom of f is free and constrains nothing.       *)
Wantable(w, f) ==
  /\ \A c \in w : c \in NextsOf(f) \cup GConj \cup LitConj
  /\ ~(w \subseteq GConj /\ NextsOf(f) = {})

WantOf(w, f) == [in |-> w \cap NextsOf(f), out |-> NextsOf(f) \ w]

(* get_next_wanted (flat): the disjunction over _visited[sp] down to      *)
(* _visited[0].                                                            *)
NextWanted(f, sp) ==
  {WantOf(path[i + 1], f) : i \in {j \in 0..sp : Wantable(path[j + 1], f)}}

(* The assignments of f /\ _next_wanted: an option of f whose X atoms     *)
(* meet no !X of a disjunct, with the disjunct's X atoms set (no _avoid). *)
WantedOpts(f) ==
  {[lab |-> o.lab, mark |-> o.mark, nxt |-> o.nxt \cup w.in] :
     <<o, w>> \in {ow \in Options(f) \X nextWanted : ow[1].nxt \cap ow[2].out = {}}}

(* The assignments of _flatted_formula /\ _avoid.                          *)
AdmOpts(f) == {o \in Options(f) : ~Excluded(o.nxt)}

(* update_unsatisfied (): the Untils f no longer holds are dropped.       *)
UpdateUnsatisfied(f) == unsatisfied \cap UntilsOf(f)

(* _avoid == FALSE                                                          *)
AvoidFalse == {} \in avoidL

(* contain (_formula, _last_invariant): each conjunct of the last learnt   *)
(* f is a conjunct of _formula (an OR of several cores never is).          *)
ContainsLast(f) ==
  \E g \in lastInv : \A fr \in g : \E c \in fr : fr = {c} /\ c \subseteq f

(* MUC (erase_global (_formula)->to_set (), NULL) when _formula /\ _avoid  *)
(* is unsat: exit when the check formula is satisfiable, NULL when the    *)
(* side constraints alone are unsat, else a minimal unsat subset (no       *)
(* Until is erased without avoid).                                         *)
DeadMuc(F) ==
  IF ~Unsat(F, {}) THEN {[kind |-> "exit"]}
  ELSE IF Unsat({}, {}) THEN {[kind |-> "null"]}
  ELSE {[kind |-> "core", core |-> M] : M \in MUSes(F, {})}

(* assignment_pair (P) for the option o of the top formula, with the      *)
(* outstanding set Uo: the pair <<current_in (P), next_in (P, flat)>>.     *)
AssignmentPair(o, Uo) ==
  LET nx == NextIn(o, Top.f) IN
  /\ SetTop([Top EXCEPT !.phase = "have", !.lab = CurrentIn(o), !.nx = nx])
  /\ IF Uo = {}
     THEN /\ unsatisfied' = UntilsOf(nx) /\ noUntilFulfilled' = TRUE
          /\ UNCHANGED preSeqHist
     ELSE /\ unsatisfied' = Uo \ o.mark
          /\ IF Uo \ o.mark = {}
             THEN noUntilFulfilled' = FALSE /\ preSeqHist' = <<>>
             ELSE UNCHANGED <<noUntilFulfilled, preSeqHist>>

(* A variant that collects the markers of every edge from _visited[0].    *)
CollectedFromRoot(es, p) == UNION {es[k] : k \in 1..Len(es)}

(* collect_until over the edges from pos (0-based) and model (pos):       *)
(* model_until holds when every Until of the formula at pos is marked.    *)
CollectedFrom(es, p) == UNION {es[k] : k \in (p + 1)..Len(es)}
Model(p, es) == UntilsOf(path[p + 1]) \subseteq CollectedFrom(es, p)


-----------------------------------------------------------------------------
CheckerInit ==
  /\ Init
  /\ path = <<>> /\ edges = <<>> /\ fints = <<>> /\ frames = <<>>
  /\ unsatisfied = {} /\ noUntilFulfilled = TRUE /\ started = FALSE
  /\ nextWanted = {} /\ wantedCount = 0 /\ satPos = 0 /\ nextSatPos = 0
  /\ result = "none"

Idle == result = "none" /\ frames = <<>> /\ path = <<>>

(* check () on an input other than TRUE and FALSE (those it answers at    *)
(* once): the input is pushed at position 0 and dfs () starts.  The quick  *)
(* olg_formula check before it is not in the repository.                  *)
CheckStart ==
  /\ Idle /\ Input # {}
  /\ path' = <<Input>> /\ fints' = (Input :> 0)
  /\ frames' = <<[f |-> Input, phase |-> "enter", lab |-> NoLab, nx |-> {}]>>
  /\ UNCHANGED <<vars, edges, unsatisfied, noUntilFulfilled, started, nextWanted,
                 wantedCount, satPos, nextSatPos, result>>

(* dfs () on TRUE returns true, up to check ().                            *)
EnterTrue ==
  /\ frames # <<>> /\ Top.phase = "enter" /\ Top.f = {}
  /\ result' = "sat" /\ frames' = <<>>
  /\ UNCHANGED <<vars, path, edges, fints, unsatisfied, noUntilFulfilled, started,
                 nextWanted, wantedCount, satPos, nextSatPos>>

(* initial_unsatisfied (_input): _unsatisfied becomes the Until elements *)
(* of the input, and set_unsatisfied_untils copies their Untils into      *)
(* _unsatisfied_untils, the same set under the model's naming.            *)
InitialUnsatisfied == UntilsOf(Input)

(* dfs () on any other formula: set_next_wanted (f).  The first call seeds *)
(* _unsatisfied from the input; once every Until has been fulfilled it    *)
(* computes _next_wanted from _visited[_satisfied_pos] down to            *)
(* _visited[0], at most MaxWanted times.                                   *)
Enter ==
  /\ frames # <<>> /\ Top.phase = "enter" /\ Top.f # {}
  /\ started' = TRUE
  /\ LET U0 == IF started THEN unsatisfied ELSE InitialUnsatisfied IN
     /\ unsatisfied' = U0
     /\ IF U0 = {} /\ ~noUntilFulfilled
        THEN /\ wantedCount' = IF wantedCount > MaxWanted THEN wantedCount
                                                          ELSE wantedCount + 1
             /\ IF wantedCount + 1 <= MaxWanted
                THEN /\ satPos' = nextSatPos
                     /\ nextSatPos' = Len(path) - 1
                     /\ nextWanted' = NextWanted(Top.f, nextSatPos)
                ELSE UNCHANGED <<satPos, nextSatPos, nextWanted>>
        ELSE UNCHANGED <<wantedCount, satPos, nextSatPos, nextWanted>>
  /\ SetTop([Top EXCEPT !.phase = "next"])
  /\ UNCHANGED <<vars, path, edges, fints, noUntilFulfilled, result>>

-----------------------------------------------------------------------------
(* get_next_pair (), one action per way through it.                       *)
Asking == frames # <<>> /\ Top.phase = "next"

(* _witness is not empty: its last pair is returned as it is.             *)
ReplayPair ==
  /\ Asking /\ witness # <<>>
  /\ SetTop([Top EXCEPT !.phase = "have", !.lab = Last(witness).lab,
                        !.nx = Last(witness).nx])
  /\ witness' = Front(witness)
  /\ UNCHANGED <<avoidL, gfr, lastInv, untilSeqs, preSeqHist, calls, locals,
                 path, edges, fints, unsatisfied, noUntilFulfilled, started,
                 nextWanted, wantedCount, satPos, nextSatPos, result>>

(* A variant that returns the pair and leaves _next_wanted set.           *)
WantedPairKeepWanted ==
  /\ Asking /\ witness = <<>> /\ nextWanted # {}
  /\ \E o \in WantedOpts(Top.f) : AssignmentPair(o, unsatisfied)
  /\ UNCHANGED <<avoidL, gfr, lastInv, untilSeqs, witness, calls, locals,
                 path, edges, fints, started, wantedCount, satPos, nextSatPos,
                 result, nextWanted>>

(* SAT_PUSURING: _flatted_formula /\ _next_wanted is satisfiable.           *)
WantedPair ==
  /\ Asking /\ witness = <<>> /\ nextWanted # {}
  /\ \E o \in WantedOpts(Top.f) : AssignmentPair(o, unsatisfied)
  /\ nextWanted' = {}
  /\ UNCHANGED <<avoidL, gfr, lastInv, untilSeqs, witness, calls, locals,
                 path, edges, fints, started, wantedCount, satPos, nextSatPos,
                 result>>

(* It is not: _next_wanted is reset and the call goes on.                 *)
WantedMiss ==
  /\ Asking /\ witness = <<>> /\ nextWanted # {}
  /\ WantedOpts(Top.f) = {}
  /\ nextWanted' = {}
  /\ UNCHANGED <<vars, path, edges, fints, frames, unsatisfied, noUntilFulfilled,
                 started, wantedCount, satPos, nextSatPos, result>>

(* From here on update_unsatisfied () has run.                            *)
Plain == Asking /\ witness = <<>> /\ nextWanted = {}

(* _avoid is FALSE, or _formula /\ _avoid is unsat and _formula contains  *)
(* _last_invariant: the empty pair.                                        *)
DeadAtOnce ==
  /\ Plain
  /\ AvoidFalse \/ (AdmOpts(Top.f) = {} /\ ContainsLast(Top.f))
  /\ unsatisfied' = UpdateUnsatisfied(Top.f)
  /\ SetTop([Top EXCEPT !.phase = "dead"])
  /\ UNCHANGED <<vars, path, edges, fints, noUntilFulfilled, started, nextWanted,
                 wantedCount, satPos, nextSatPos, result>>

(* Otherwise an unsat _formula learns !X of the MUC of its non-global      *)
(* conjuncts; with none left, or a NULL core, _avoid becomes FALSE.        *)
DeadLearn ==
  /\ Plain /\ ~AvoidFalse
  /\ AdmOpts(Top.f) = {} /\ ~ContainsLast(Top.f)
  /\ LET F == EraseGlobal(Top.f) IN
     IF F = {}
     THEN avoidL' = avoidL \cup {{}} /\ UNCHANGED <<lastInv, result>>
     ELSE \E m \in DeadMuc(F) :
            CASE m.kind = "exit" -> result' = "exit" /\ UNCHANGED <<avoidL, lastInv>>
              [] m.kind = "null" -> avoidL' = avoidL \cup {{}} /\ lastInv' = {}
                                    /\ UNCHANGED result
              [] OTHER -> Learn({{m.core}}) /\ UNCHANGED result
  /\ unsatisfied' = UpdateUnsatisfied(Top.f)
  /\ SetTop([Top EXCEPT !.phase = "dead"])
  /\ UNCHANGED <<gfr, untilSeqs, preSeqHist, witness, calls, locals, path, edges,
                 fints, noUntilFulfilled, started, nextWanted, wantedCount,
                 satPos, nextSatPos>>

(* No outstanding Until: any assignment.                                   *)
FreePair ==
  /\ Plain /\ ~AvoidFalse
  /\ UpdateUnsatisfied(Top.f) = {}
  /\ \E o \in AdmOpts(Top.f) : AssignmentPair(o, {})
  /\ UNCHANGED <<avoidL, gfr, lastInv, untilSeqs, witness, calls, locals, path,
                 edges, fints, started, nextWanted, wantedCount, satPos,
                 nextSatPos, result>>

(* An assignment that fulfils one of the outstanding Untils.               *)
PursuePair ==
  /\ Plain /\ ~AvoidFalse
  /\ UpdateUnsatisfied(Top.f) # {}
  /\ \E o \in AdmOpts(Top.f) :
       /\ o.mark \cap UpdateUnsatisfied(Top.f) # {}
       /\ AssignmentPair(o, UpdateUnsatisfied(Top.f))
  /\ UNCHANGED <<avoidL, gfr, lastInv, untilSeqs, witness, calls, locals, path,
                 edges, fints, started, nextWanted, wantedCount, satPos,
                 nextSatPos, result>>

(* None does: the UNSAT_PUSURING mode starts on _formula.                  *)
UnsatEnter ==
  /\ Plain /\ ~AvoidFalse
  /\ AdmOpts(Top.f) # {}
  /\ UpdateUnsatisfied(Top.f) # {}
  /\ \A o \in AdmOpts(Top.f) : o.mark \cap UpdateUnsatisfied(Top.f) = {}
  /\ unsatisfied' = UpdateUnsatisfied(Top.f)
  /\ root' = Top.f /\ U' = UpdateUnsatisfied(Top.f)
  /\ pc' = "start" /\ viaSeq' = FALSE /\ visited' = {} /\ common' = {}
  /\ seq' = <<>> /\ pos' = 0 /\ nodes' = <<>> /\ todo' = {} /\ qm' = {}
  /\ res' = {} /\ ret' = NoneRet
  /\ SetTop([Top EXCEPT !.phase = "unsat"])
  /\ UNCHANGED <<statics, path, edges, fints, noUntilFulfilled, started,
                 nextWanted, wantedCount, satPos, nextSatPos, result>>

(* Variants of UnsatReturn: one gives up on a witness of more than one   *)
(* step, one returns the last step of the witness instead of the first.   *)
UnsatReturnShortOnly ==
  /\ frames # <<>> /\ Top.phase = "unsat" /\ pc = "done"
  /\ IF ret.kind = "empty" \/ Len(ret.path) > 1
     THEN SetTop([Top EXCEPT !.phase = "dead"])
     ELSE SetTop([Top EXCEPT !.phase = "have", !.lab = ret.path[1].lab,
                             !.nx = ret.path[1].nx])
  /\ UNCHANGED <<vars, path, edges, fints, unsatisfied, noUntilFulfilled, started,
                 nextWanted, wantedCount, satPos, nextSatPos, result>>

UnsatReturnLast ==
  /\ frames # <<>> /\ Top.phase = "unsat" /\ pc = "done"
  /\ IF ret.kind = "empty" THEN SetTop([Top EXCEPT !.phase = "dead"])
     ELSE SetTop([Top EXCEPT !.phase = "have", !.lab = Last(ret.path).lab,
                             !.nx = Last(ret.path).nx])
  /\ UNCHANGED <<vars, path, edges, fints, unsatisfied, noUntilFulfilled, started,
                 nextWanted, wantedCount, satPos, nextSatPos, result>>

(* The UNSAT mode has returned: the first step of its witness, or the     *)
(* empty pair.                                                             *)
UnsatReturn ==
  /\ frames # <<>> /\ Top.phase = "unsat" /\ pc = "done"
  /\ IF ret.kind = "empty" THEN SetTop([Top EXCEPT !.phase = "dead"])
     ELSE SetTop([Top EXCEPT !.phase = "have", !.lab = ret.path[1].lab,
                             !.nx = ret.path[1].nx])
  /\ UNCHANGED <<vars, path, edges, fints, unsatisfied, noUntilFulfilled, started,
                 nextWanted, wantedCount, satPos, nextSatPos, result>>

(* A step of the UNSAT mode.                                               *)
UnsatStep ==
  /\ \/ GlobalDead \/ GlobalLive \/ HistNone \/ HistFound
     \/ DistStep \/ DistDone \/ DistWitness \/ DistInvariant
     \/ SeqStart \/ SeqLeave \/ SeqCore
     \/ MucBegin \/ MucState \/ MucStatesDone
     \/ MucGlobal \/ MucLearn \/ MucRetry \/ MucStep
     \/ WalkStuck \/ WalkFulfil \/ WalkDown
  /\ UNCHANGED dfsVars

-----------------------------------------------------------------------------
(* The loop body of dfs () on the pair <<lab, nx>> (_explored stays empty). *)
Having == frames # <<>> /\ Top.phase = "have"

(* visited (nx) finds nx on record and model (pos) holds: true all the way *)
(* up.                                                                     *)
CycleFound ==
  /\ Having
  /\ Top.nx \in DOMAIN fints
  /\ edges' = Append(edges, Top.lab.mark)
  /\ Model(fints[Top.nx], edges')
  /\ result' = "sat" /\ frames' = <<>>
  /\ UNCHANGED <<vars, path, fints, unsatisfied, noUntilFulfilled, started,
                 nextWanted, wantedCount, satPos, nextSatPos>>

(* Otherwise nx is recorded if new and pushed, and dfs () recurses.        *)
Descend ==
  /\ Having
  /\ edges' = Append(edges, Top.lab.mark)
  /\ IF Top.nx \in DOMAIN fints
     THEN ~Model(fints[Top.nx], edges') /\ UNCHANGED fints
     ELSE fints' = fints @@ (Top.nx :> Len(path))
  /\ path' = Append(path, Top.nx)
  /\ frames' = Append([frames EXCEPT ![Len(frames)].phase = "wait"],
                      [f |-> Top.nx, phase |-> "enter", lab |-> NoLab, nx |-> {}])
  /\ UNCHANGED <<vars, unsatisfied, noUntilFulfilled, started, nextWanted,
                 wantedCount, satPos, nextSatPos, result>>

(* A variant in which a formula with no pair left ends the whole check    *)
(* () with false, whatever its depth.                                      *)
ExhaustAnyDepth ==
  /\ frames # <<>> /\ Top.phase = "dead"
  /\ result' = "unsat" /\ frames' = <<>>
  /\ UNCHANGED <<vars, path, edges, fints, unsatisfied, noUntilFulfilled, started,
                 nextWanted, wantedCount, satPos, nextSatPos>>

(* The root has no pair left: check () returns false.                     *)
ExhaustRoot ==
  /\ Len(frames) = 1 /\ Top.phase = "dead"
  /\ result' = "unsat" /\ frames' = <<>>
  /\ UNCHANGED <<vars, path, edges, fints, unsatisfied, noUntilFulfilled, started,
                 nextWanted, wantedCount, satPos, nextSatPos>>

(* Variants of the pop: the record of nx kept, _next_satisfied_pos        *)
(* compared with the size before the pop, or lowered on every pop; and a  *)
(* pop that leaves a call at depth two waiting.                            *)
BacktrackDeep ==
  /\ Len(frames) > 2 /\ Top.phase = "dead"
  /\ LET n == Len(frames) - 1 IN
     /\ frames' = [SubSeq(frames, 1, n) EXCEPT ![n].phase = "next"]
     /\ fints' = [x \in DOMAIN fints \ {frames[n].nx} |-> fints[x]]
  /\ path' = Front(path) /\ edges' = Front(edges)
  /\ nextSatPos' = IF Len(path) - 2 < nextSatPos THEN nextSatPos - 1 ELSE nextSatPos
  /\ UNCHANGED <<vars, unsatisfied, noUntilFulfilled, started, nextWanted,
                 wantedCount, satPos, result>>

BacktrackKeepRecord ==
  /\ Len(frames) > 1 /\ Top.phase = "dead"
  /\ LET n == Len(frames) - 1 IN
     frames' = [SubSeq(frames, 1, n) EXCEPT ![n].phase = "next"]
  /\ path' = Front(path) /\ edges' = Front(edges)
  /\ nextSatPos' = IF Len(path) - 2 < nextSatPos THEN nextSatPos - 1 ELSE nextSatPos
  /\ UNCHANGED <<vars, fints, unsatisfied, noUntilFulfilled, started, nextWanted,
                 wantedCount, satPos, result>>

BacktrackSatPosLate ==
  /\ Len(frames) > 1 /\ Top.phase = "dead"
  /\ LET n == Len(frames) - 1 IN
     /\ frames' = [SubSeq(frames, 1, n) EXCEPT ![n].phase = "next"]
     /\ fints' = [x \in DOMAIN fints \ {frames[n].nx} |-> fints[x]]
  /\ path' = Front(path) /\ edges' = Front(edges)
  /\ nextSatPos' = IF Len(path) - 1 < nextSatPos THEN nextSatPos - 1 ELSE nextSatPos
  /\ UNCHANGED <<vars, unsatisfied, noUntilFulfilled, started, nextWanted,
                 wantedCount, satPos, result>>

BacktrackSatPosAlways ==
  /\ Len(frames) > 1 /\ Top.phase = "dead"
  /\ LET n == Len(frames) - 1 IN
     /\ frames' = [SubSeq(frames, 1, n) EXCEPT ![n].phase = "next"]
     /\ fints' = [x \in DOMAIN fints \ {frames[n].nx} |-> fints[x]]
  /\ path' = Front(path) /\ edges' = Front(edges)
  /\ nextSatPos' = nextSatPos - 1
  /\ UNCHANGED <<vars, unsatisfied, noUntilFulfilled, started, nextWanted,
                 wantedCount, satPos, result>>

(* A deeper call returns false: its caller pops nx and the edge, lowers    *)
(* _next_satisfied_pos past the new end, erases nx from _formula_ints and *)
(* asks get_next_pair again.                                               *)
Backtrack ==
  /\ Len(frames) > 1 /\ Top.phase = "dead"
  /\ LET n == Len(frames) - 1 IN
     /\ frames' = [SubSeq(frames, 1, n) EXCEPT ![n].phase = "next"]
     /\ fints' = [x \in DOMAIN fints \ {frames[n].nx} |-> fints[x]]
  /\ path' = Front(path) /\ edges' = Front(edges)
  /\ nextSatPos' = IF Len(path) - 2 < nextSatPos THEN nextSatPos - 1 ELSE nextSatPos
  /\ UNCHANGED <<vars, unsatisfied, noUntilFulfilled, started, nextWanted,
                 wantedCount, satPos, result>>

CheckerNext ==
  \/ CheckStart \/ EnterTrue \/ Enter
  \/ ReplayPair \/ WantedPair \/ WantedMiss \/ DeadAtOnce \/ DeadLearn
  \/ FreePair \/ PursuePair \/ UnsatEnter \/ UnsatReturn \/ UnsatStep
  \/ CycleFound \/ Descend \/ ExhaustRoot \/ Backtrack

CheckerSpec == CheckerInit /\ [][CheckerNext]_allVars

(* check () is one sequential thread: whatever step it can take, it takes. *)
CheckerFairSpec == CheckerSpec /\ WF_allVars(CheckerNext)


-----------------------------------------------------------------------------
CheckerPhases == {"enter", "next", "unsat", "have", "dead", "wait"}

CheckerTypeOK ==
  /\ TypeOK
  /\ path \in Seq(SUBSET Conj) /\ edges \in Seq(SUBSET UntilConj)
  /\ DOMAIN fints \subseteq SUBSET Conj
  /\ frames \in Seq([f : SUBSET Conj, phase : CheckerPhases,
                     lab : [lab : SUBSET Lit, mark : SUBSET UntilConj],
                     nx : SUBSET Conj])
  /\ unsatisfied \subseteq UntilConj
  /\ {noUntilFulfilled, started} \subseteq BOOLEAN
  /\ wantedCount \in 0..(MaxWanted + 1) /\ {satPos, nextSatPos} \subseteq Nat
  /\ result \in {"none", "sat", "unsat", "exit"}

(* check () answers correctly: "sat" exactly when the input has a lasso   *)
(* on which every Until is fulfilled.  This is the whole search: the      *)
(* loop test of dfs, the learnt _avoid, the global formula and the        *)
(* witnesses of the UNSAT mode together.                                   *)
VerdictSound ==
  result \in {"sat", "unsat"} => (result = "sat" <=> Input \in SatStates)

(* check () returns: the search stops with a verdict (or an exit).  The    *)
(* recursion of dfs re-pushes a formula already on _visited when the loop *)
(* back to it does not fulfil its Untils (the else of visited () is       *)
(* commented out), so termination rests on get_next_pair running out of  *)
(* pairs: each empty pair has learnt a !X that cuts a successor.          *)
Terminates == <>(result # "none")

(* A pair replayed from _witness starts at the formula it is asked for:   *)
(* the witness the UNSAT mode built from _formula is only ever consumed by *)
(* the dfs calls on its own successors, never by a caller that got control *)
(* back after a deeper call returned false.                                *)
WitnessReplayedInPlace ==
  frames # <<>> /\ Top.phase = "next" /\ witness # <<>> =>
    IsStep(Top.f, Last(witness).lab, Last(witness).nx)

(* _formula_ints only records formulas at the positions of _visited that  *)
(* hold them: the position a loop test reads (visited (), model ()) is on *)
(* the current path after every pop of dfs.                                *)
FintsOnPath ==
  \A x \in DOMAIN fints : fints[x] < Len(path) /\ path[fints[x] + 1] = x

(* _next_satisfied_pos stays a position of _visited across the pops of    *)
(* dfs: get_next_wanted reads _visited[_satisfied_pos] down to            *)
(* _visited[0] with it.                                                    *)
WantedFromPath ==
  path # <<>> => nextSatPos < Len(path)

(* The SAT_PUSURING branch of get_next_pair returns assignment_pair (P)   *)
(* without the update_unsatisfied () every other branch runs first, and   *)
(* _unsatisfied is in general stale when get_next_pair is called (it is    *)
(* static and dfs never restores it on a pop).  The branch is safe only   *)
(* because _next_wanted is set, by set_next_wanted, only while            *)
(* _unsatisfied is empty, and is cleared in the same call that makes it   *)
(* non-empty again: whenever _next_wanted is set, no Until is outstanding. *)
WantedOnlyWhenFulfilled ==
  nextWanted # {} => unsatisfied = {}


(* dfs implements the search LassoSearch states: _visited is its path,    *)
(* the markers pushed in _edges its edge labels, check ()'s answer its     *)
(* verdict.  get_next_pair, the UNSAT mode and the learning of _avoid are  *)
(* steps that leave all three alone.  So every pair dfs pushes is a        *)
(* progression step of the formula on top of _visited, every pop takes    *)
(* back exactly the last formula and edge, and sat is answered only at    *)
(* TRUE or on a loop whose edges fulfil the Untils of its head.           *)
LS == INSTANCE LassoSearch WITH marks <- edges, verdict <- result

ImplementsLassoSearch == LS!LassoSpec

=============================================================================
