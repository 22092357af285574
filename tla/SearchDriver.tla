--------------------------- MODULE SearchDriver ---------------------------
(***************************************************************************)
(* The depth-first search of checking/nondeter_checker.cpp (check, dfs,    *)
(* visited, model, collect_until, set_next_wanted) together with the       *)
(* obligation bookkeeping of progression/nondeter_prog_state.cpp           *)
(* (_unsatisfied, update_unsatisfied, assignment_pair).                    *)
(*                                                                         *)
(* A formula is a model value of States.  What get_next_pair returns for a *)
(* formula is abstracted to an edge of the constant relation Succ: the     *)
(* until-marked literals of the assignment (collect_until of the edge)    *)
(* and the next formula.  The propositional oracle behind get_next_pair   *)
(* is not modelled, so every call may return any edge its branch allows,  *)
(* or the empty pair.  The recursion of dfs is an explicit stack of        *)
(* frames, one per active call.                                            *)
(***************************************************************************)
EXTENDS Naturals, FiniteSets, Sequences, SequencesExt

CONSTANTS
  States,     \* formulas the search can reach, TrueF among them
  TrueF,      \* aalta_formula::TRUE ()
  FalseF,     \* aalta_formula::FALSE (), second part of the empty pair
  Inputs,     \* candidate input formulas (_input after seperate_next)
  Markers,    \* until markers (get_var of an Until)
  Untils,     \* Untils[s]: markers of the top-level Until conjuncts of s
  Succ,       \* set of <<s, label, t>>: an assignment of s and its successor
  MaxWanted   \* compute_next_wanted_count_ bound of set_next_wanted (10)

ASSUME /\ TrueF \in States /\ FalseF \notin States /\ Inputs \subseteq States \cup {FalseF}
       /\ Untils \in [States -> SUBSET Markers]
       /\ Succ \subseteq States \X (SUBSET Markers) \X States
       /\ MaxWanted \in Nat

Pair == [lab : SUBSET Markers, nx : States \cup {FalseF}]
EmptyPair == [lab |-> {}, nx |-> FalseF]           \* empty_pair ()
Out(s) == {[lab |-> e[2], nx |-> e[3]] : e \in {x \in Succ : x[1] = s}}

VARIABLES
  input,            \* _input
  visited,          \* _visited: formulas on the current path
  edges,            \* _visited_edges: the label of each edge taken
  fints,            \* _formula_ints: formula -> position in _visited
  frames,           \* one record per active dfs () call
  unsatisfied,      \* nondeter_prog_state::_unsatisfied
  noUntilFulfilled, \* nondeter_prog_state::_no_until_fulfilled
  started,          \* ~nondeter_checker::_start
  nextWanted,       \* nondeter_prog_state::_next_wanted # NULL
  replaying,        \* nondeter_prog_state::_witness is not empty
  wantedCount,      \* compute_next_wanted_count_, saturated at MaxWanted+1
  satPos,           \* _satisfied_pos
  nextSatPos,       \* _next_satisfied_pos
  result            \* "none", or the verdict of check ()

vars == <<input, visited, edges, fints, frames, unsatisfied, noUntilFulfilled,
          started, nextWanted, replaying, wantedCount, satPos, nextSatPos,
          result>>
oblVars == <<unsatisfied, noUntilFulfilled>>
wantVars == <<started, nextWanted, wantedCount, satPos, nextSatPos>>

Top == frames[Len(frames)]
SetTop(r) == frames' = [frames EXCEPT ![Len(frames)] = r]

(* collect_until over the edges es from position pos (0-based) to the end,*)
(* and model (pos): they fulfil the untils of the formula at pos.          *)
CollectedFrom(es, pos) == UNION {es[k] : k \in (pos + 1)..Len(es)}
ModelUntil(s, P) == Untils[s] \subseteq P
Model(pos, es) == ModelUntil(visited[pos + 1], CollectedFrom(es, pos))

(* assignment_pair: the obligation update for the chosen edge e, starting *)
(* from the outstanding set U.                                             *)
AssignmentPair(e, U) ==
  IF U = {}
  THEN /\ unsatisfied' = Untils[e.nx]
       /\ noUntilFulfilled' = TRUE
  ELSE /\ unsatisfied' = U \ e.lab
       /\ noUntilFulfilled' = IF U \ e.lab = {} THEN FALSE
                                                ELSE noUntilFulfilled

-----------------------------------------------------------------------------
Init ==
  /\ input \in Inputs
  /\ visited = <<>>
  /\ edges = <<>>
  /\ fints = <<>>
  /\ frames = <<>>
  /\ unsatisfied = {}
  /\ noUntilFulfilled = TRUE
  /\ started = FALSE
  /\ nextWanted = FALSE
  /\ replaying = FALSE
  /\ wantedCount = 0
  /\ satPos = 0
  /\ nextSatPos = 0
  /\ result = "none"

(* check (): TRUE is sat and FALSE unsat at once; otherwise the input is  *)
(* pushed with position 0 and dfs () starts.  (The olg_formula shortcut is *)
(* not modelled: it decides nothing about the search.)                    *)
Idle == result = "none" /\ frames = <<>> /\ visited = <<>>

CheckTrue ==
  /\ Idle /\ input = TrueF
  /\ result' = "sat"
  /\ UNCHANGED <<input, visited, edges, fints, frames, oblVars, wantVars,
                 replaying>>

CheckFalse ==
  /\ Idle /\ input = FalseF
  /\ result' = "unsat"
  /\ UNCHANGED <<input, visited, edges, fints, frames, oblVars, wantVars,
                 replaying>>

Check ==
  /\ Idle /\ input \notin {TrueF, FalseF}
  /\ visited' = <<input>>
  /\ fints' = input :> 0
  /\ frames' = <<[f |-> input, phase |-> "enter", pa |-> EmptyPair]>>
  /\ UNCHANGED <<input, edges, oblVars, wantVars, replaying, result>>

(* dfs () entry on f = TRUE: return true, up to check ().                  *)
EnterTrue ==
  /\ frames # <<>> /\ Top.phase = "enter" /\ Top.f = TrueF
  /\ result' = "sat"
  /\ frames' = <<>>
  /\ UNCHANGED <<input, visited, edges, fints, oblVars, wantVars, replaying>>

(* dfs () entry on any other formula: set_next_wanted (f), which seeds the *)
(* obligations from the input on the first call and, once every until has *)
(* been fulfilled, computes the wanted next formula from _visited[i] for   *)
(* i = _satisfied_pos down to 0 (at most MaxWanted times).                 *)
Enter ==
  /\ frames # <<>> /\ Top.phase = "enter" /\ Top.f # TrueF
  /\ started' = TRUE
  /\ LET U == IF started THEN unsatisfied ELSE Untils[input] IN
     /\ unsatisfied' = U
     /\ IF U = {} /\ ~noUntilFulfilled
        THEN /\ wantedCount' = IF wantedCount > MaxWanted THEN wantedCount
                                                          ELSE wantedCount + 1
             /\ IF wantedCount + 1 <= MaxWanted
                THEN /\ satPos' = nextSatPos
                     /\ nextSatPos' = Len(visited) - 1
                     /\ nextWanted' \in BOOLEAN  \* NULL if no formula fits
                ELSE UNCHANGED <<satPos, nextSatPos, nextWanted>>
        ELSE UNCHANGED <<wantedCount, satPos, nextSatPos, nextWanted>>
  /\ SetTop([Top EXCEPT !.phase = "next"])
  /\ UNCHANGED <<input, visited, edges, fints, noUntilFulfilled, replaying, result>>

-----------------------------------------------------------------------------
(* get_next_pair, one action per way it returns.                           *)
Asking == frames # <<>> /\ Top.phase = "next"
Answer(e) == SetTop([Top EXCEPT !.phase = "have", !.pa = e])
Outstanding == unsatisfied \cap Untils[Top.f]     \* update_unsatisfied ()

(* The next entry of _witness, left by an earlier UNSAT_PUSURING search.   *)
ReplayPair ==
  /\ Asking /\ replaying
  /\ \E e \in Out(Top.f) : Answer(e)
  /\ replaying' \in BOOLEAN
  /\ UNCHANGED <<input, visited, edges, fints, oblVars, wantVars, result>>

(* SAT_PUSURING: the formula with _next_wanted is satisfiable.             *)
WantedPair ==
  /\ Asking /\ ~replaying /\ nextWanted
  /\ \E e \in Out(Top.f) : Answer(e) /\ AssignmentPair(e, unsatisfied)
  /\ nextWanted' = FALSE
  /\ UNCHANGED <<input, visited, edges, fints, started, wantedCount, satPos,
                 nextSatPos, replaying, result>>

(* No admissible assignment is left (the formula is dead under _avoid, or  *)
(* the UNSAT_PUSURING search proved an invariant): the empty pair.         *)
DeadPair ==
  /\ Asking /\ ~replaying
  /\ unsatisfied' = Outstanding
  /\ nextWanted' = FALSE
  /\ Answer(EmptyPair)
  /\ UNCHANGED <<input, visited, edges, fints, noUntilFulfilled, started,
                 wantedCount, satPos, nextSatPos, replaying, result>>

(* No outstanding until: any assignment.                                   *)
FreePair ==
  /\ Asking /\ ~replaying
  /\ Outstanding = {}
  /\ \E e \in Out(Top.f) : Answer(e) /\ AssignmentPair(e, Outstanding)
  /\ nextWanted' = FALSE
  /\ UNCHANGED <<input, visited, edges, fints, started, wantedCount, satPos,
                 nextSatPos, replaying, result>>

(* An assignment fulfilling one of the outstanding untils, OR (_unsatisfied).*)
PursuePair ==
  /\ Asking /\ ~replaying
  /\ Outstanding # {}
  /\ \E e \in Out(Top.f) :
       /\ e.lab \cap Outstanding # {}
       /\ Answer(e) /\ AssignmentPair(e, Outstanding)
  /\ nextWanted' = FALSE
  /\ UNCHANGED <<input, visited, edges, fints, started, wantedCount, satPos,
                 nextSatPos, replaying, result>>

(* UNSAT_PUSURING found a path towards a fulfilment: the first step of the *)
(* witness is returned without assignment_pair, the rest stays queued.     *)
UnsatModePair ==
  /\ Asking /\ ~replaying
  /\ Outstanding # {}
  /\ \E e \in Out(Top.f) : Answer(e)
  /\ unsatisfied' = Outstanding
  /\ nextWanted' = FALSE
  /\ replaying' \in BOOLEAN
  /\ UNCHANGED <<input, visited, edges, fints, noUntilFulfilled, started,
                 wantedCount, satPos, nextSatPos, result>>

-----------------------------------------------------------------------------
(* The loop body of dfs () for a returned pair pa = <<lab, nx>>.           *)
Having == frames # <<>> /\ Top.phase = "have" /\ Top.pa # EmptyPair

(* visited (nx): the recorded position, or record nx at the next one.      *)
RecordPos(s) == fints @@ (s :> Len(visited))

(* nx is on record and the edges since its position fulfil its untils:     *)
(* model (pos) holds and dfs returns true all the way up.                  *)
CycleFound ==
  /\ Having
  /\ Top.pa.nx \in DOMAIN fints
  /\ edges' = Append(edges, Top.pa.lab)
  /\ Model(fints[Top.pa.nx], edges')
  /\ result' = "sat"
  /\ frames' = <<>>
  /\ UNCHANGED <<input, visited, fints, oblVars, wantVars, replaying>>

(* Otherwise nx is pushed and dfs () recurses, whether or not nx was on    *)
(* record (the else before the recursion is commented out).               *)
Descend ==
  /\ Having
  /\ edges' = Append(edges, Top.pa.lab)
  /\ \/ /\ Top.pa.nx \notin DOMAIN fints
        /\ fints' = RecordPos(Top.pa.nx)
     \/ /\ Top.pa.nx \in DOMAIN fints
        /\ ~Model(fints[Top.pa.nx], edges')
        /\ UNCHANGED fints
  /\ visited' = Append(visited, Top.pa.nx)
  /\ frames' = Append([frames EXCEPT ![Len(frames)].phase = "wait"],
                      [f |-> Top.pa.nx, phase |-> "enter", pa |-> EmptyPair])
  /\ UNCHANGED <<input, oblVars, wantVars, replaying, result>>

(* The root's pairs are exhausted: check () returns false.                *)
ExhaustRoot ==
  /\ Len(frames) = 1 /\ Top.phase = "have" /\ Top.pa = EmptyPair
  /\ result' = "unsat"
  /\ frames' = <<>>
  /\ UNCHANGED <<input, visited, edges, fints, oblVars, wantVars, replaying>>

(* After a pop leaves n formulas on the path, _next_satisfied_pos is kept *)
(* at most n - 1.                                                          *)
RestoreNextSatPos(n) == IF n - 1 < nextSatPos THEN nextSatPos - 1
                                              ELSE nextSatPos

(* A deeper call returns false; its caller pops nx and the edge, keeps     *)
(* _next_satisfied_pos on the stack, erases nx from _formula_ints and asks *)
(* get_next_pair again.                                                    *)
Backtrack ==
  /\ Len(frames) > 1 /\ Top.phase = "have" /\ Top.pa = EmptyPair
  /\ LET parent == frames[Len(frames) - 1] IN
     /\ frames' = [SubSeq(frames, 1, Len(frames) - 1)
                     EXCEPT ![Len(frames) - 1].phase = "next"]
     /\ visited' = Front(visited)
     /\ nextSatPos' = RestoreNextSatPos(Len(visited) - 1)
     /\ edges' = Front(edges)
     /\ fints' = [s \in DOMAIN fints \ {parent.pa.nx} |-> fints[s]]
  /\ UNCHANGED <<input, oblVars, started, nextWanted, wantedCount, satPos,
                 replaying, result>>

Next ==
  \/ CheckTrue \/ CheckFalse \/ Check \/ EnterTrue \/ Enter
  \/ ReplayPair \/ WantedPair \/ DeadPair \/ FreePair \/ PursuePair
  \/ UnsatModePair
  \/ CycleFound \/ Descend \/ ExhaustRoot \/ Backtrack

Spec == Init /\ [][Next]_vars

-----------------------------------------------------------------------------
Phases == {"enter", "next", "have", "wait"}

TypeOK ==
  /\ visited \in Seq(States)
  /\ edges \in Seq(SUBSET Markers)
  /\ DOMAIN fints \subseteq States
  /\ \A s \in DOMAIN fints : fints[s] \in Nat
  /\ frames \in Seq([f : States, phase : Phases, pa : Pair])
  /\ unsatisfied \subseteq Markers
  /\ {noUntilFulfilled, started, nextWanted, replaying} \subseteq BOOLEAN
  /\ wantedCount \in 0..(MaxWanted + 1)
  /\ {satPos, nextSatPos} \subseteq Nat
  /\ result \in {"none", "sat", "unsat"}

(* Every formula on the path is on record in _formula_ints at its first    *)
(* position on the path, so that a later revisit of it is recognised.      *)
PathOnRecord ==
  \A i \in 1..Len(visited) :
    /\ visited[i] \in DOMAIN fints
    /\ fints[visited[i]] + 1 <= Len(visited)
    /\ visited[fints[visited[i]] + 1] = visited[i]

=============================================================================
