# TLA+ models of Aalta's nondeterministic LTL satisfiability checker

This directory holds TLA+ models of the core of `src/LTL_SAT_solver/Aalta_v2.0`.
That core is the on-the-fly search in `checking/nondeter_checker.cpp`, together with
the progression state in `progression/nondeter_prog_state.cpp`. The models also cover the
earlier Tarjan checker of `sat_solver.cpp`. Every module is translated from those sources. `PROJECT.json` maps each definition to the lines it models.

## The system

`main.cpp` builds an `aalta_formula` and hands it to `nondeter_checker::check`.
The parts and how they interact:

| Part | Code | State | What it does |
|---|---|---|---|
| Search Driver | `nondeter_checker::check`, `dfs`, `visited`, `model`, `set_next_wanted` | `_visited` (formulas on the path), `_visited_edges` (the label of each edge), `_formula_ints` (formula to position), `_satisfied_pos`, `_next_satisfied_pos`, `compute_next_wanted_count_` | A recursive DFS over formulas. A revisited formula whose loop fulfils its Untils means SAT. TRUE means SAT. When the root is exhausted, the answer is UNSAT. |
| Next-State Selector | `nondeter_prog_state::get_next_pair` | `_witness`, `_next_wanted`, `_avoid` | Chooses the next assignment and successor for a formula. It returns in one of six ways: witness replay, SAT_PUSURING on `_next_wanted`, a dead state (the empty pair, after learning), any assignment, an assignment that fulfils an outstanding Until, or UNSAT_PUSURING. |
| Obligation tracker | `initial_unsatisfied`, `update_unsatisfied`, `assignment_pair` | `_unsatisfied`, `_no_until_fulfilled` (static) | Tracks the Untils still to be fulfilled on the current path. |
| Core Extractor | `MUC` (binary, linear), `UC` | local worklist | Shrinks an unsatisfiable conjunction to a core. The core is learnt into `_avoid`. |
| Unsat-Invariant Builder | `distinguish_states`, `initial_seq`, `compute_muc`, `update_avoid`, `is_invariant`, `UNSAT_INVARIANT(_BACK)` | `seq`, `_avoids`, `_pre_seq_hist` | Proves that no outstanding Until can be fulfilled from the current formula. |
| Transition Graph | `update_node`, `add_transition_to_node`, `fill_witness_from_to` | `_f_node_map` | Records the steps the invariant search took, so that a witness path can be replayed into `_witness`. |
| Nested-next constraints | `set_avoid`, `avoid_next_false`, `global_next_true`, `global_next_n_true`, `get_next_n_formula`, `common_deep` | `_avoid` (first value) | Builds the first `_avoid`: X x and X !x exclusive, X r for propositional globals G r, and the same at nested depths. |
| Tarjan checker | `sat_solver::sat`, `tarjan`, `scc_sat`, `split2set` | `dfn`, `low`, `_stk`, `_scc`, `_path`, `_states` | An older checker. It runs Tarjan's algorithm over the DNF successors and accepts when the edges of a strongly connected part fulfil the formula. `main ()` does not call it. |
| CNF translation | `bool2cnf/trans.c`: `make_node`, `plus`, `minus` | `no_clauses`, `result_output` | A separate tool. It translates a propositional formula into DIMACS CNF by the Plaisted-Greenbaum encoding. |
| LTLf to SMV translation | `ltlparser/ltlf2smv/ltlf2smv.cpp`: `get_var`, `ltlf2tran`, `get_expr`, `ltlf2trans_2`, `ltlf2trans_3`, `ltlf2smv`, `ltlf2smv_2/_3/_4` | `id_num`, `VARS`, `already_exists` (static) | A separate tool. It writes an SMV model whose `LTLSPEC G ! Tail` fails exactly on the finite models of the LTLf input. |

The whole search runs in one thread and is synchronous. The hard behaviours are therefore not thread interleavings. They are:
- the order of steps across recursive frames that share static state (`_witness`, `_unsatisfied`, `_next_satisfied_pos`, `_formula_ints`);
- backtracking, which must restore what it changed;
- core minimisation that depends on the SAT oracle.

The aalta_formula library (hash-consed formulas, the SAT call, `model_until`) is not in the repository. Each module abstracts it, as described below.

## Modules and runs

### CoreExtractor (`CoreExtractor.tla`, `MC_CoreExtractor.tla`)

This module models the binary `MUC (af_prt_set f_set, aalta_formula *avoid)` (lines 625-754).
- **Oracle.** A conjunct is a number, taken in the order the `std::set` iterates. The SAT oracle is a family of unsatisfiable `cores`: a conjunction is UNSAT with the side constraints iff it contains a core. The empty core means the side constraints alone are UNSAT.
- **State.** The worklist `lt` is a FIFO sequence. `affirmed` holds the conjuncts found necessary. `pc` records whether MUC returned or exited.
- **Actions.** There is one action for each exit of the loop body:
  - `Affirm`: a singleton is affirmed.
  - `KeepLow`: P2 is still UNSAT.
  - `KeepHigh`: P3 is still UNSAT.
  - `KeepBoth`: both halves are needed.
  - `Finish`: the queue is empty. The outstanding Untils are erased and `AND` of an empty set gives NULL.
- **Bounds.** There are 4 conjuncts and at most 3 cores, which is every family of up to 3 cores over 4 literals. At these sizes, splits of 4, 2 and 1, both halves needed, and overlapping cores all occur.

| Run | Result |
|---|---|
| `CoreExtractor_mus` (pass) | Without avoid, MUC always terminates (`Terminates`, under weak fairness: it is a sequential loop) and returns a minimal unsatisfiable subset (`CoreIsMUS`). |
| `CoreExtractor_untils` (violation) | With avoid, erasing `_unsatisfied_untils` can leave a satisfiable core. Spec §4.3 says the core stays unsatisfiable. |
| `CoreExtractor_null` (violation) | MUC can return NULL while the side constraints are satisfiable. `initial_seq` treats NULL as "side constraints UNSAT". |

### SearchDriver (`SearchDriver.tla`, `MC_SearchDriver.tla`)

This module models `check` and `dfs`, with the recursion as an explicit stack of `frames`. It also models the obligation tracker and `set_next_wanted`.
- **What get_next_pair can return.** A formula is a model value. `Succ` holds the assignments `get_next_pair` can return: the until markers the assignment makes true, and the next formula. `Untils[s]` gives the markers of the top-level Untils of `s`, as `get_until_element_of` computes them.
- **How get_next_pair is modelled.** There is one action for each way `get_next_pair` returns: `ReplayPair`, `WantedPair`, `DeadPair`, `FreePair`, `PursuePair` and `UnsatModePair`. Each action updates the obligations the way the code does on that path: `update_unsatisfied` and/or `assignment_pair`, or neither.
- **What is left out of get_next_pair.** Its propositional content is not modelled. Every call may return any successor the branch allows, so the properties hold for any answers the oracle gives.
- **Witness.** `_witness` is reduced to a flag that says whether it is non-empty.
- **Counter.** `compute_next_wanted_count_` saturates above its bound of 10.
- **Graph.** `MC_SearchDriver` uses four formulas r, a, b and TRUE, with these edges:

  | Edge | Label |
  |---|---|
  | r → a | none |
  | r → b | `{m1}` |
  | a → r | none |
  | a → a | `{m1}` |
  | b → b | none |
  | b → r | `{m2}` |
  | b → TRUE | `{m2}` |

  This graph gives a loop through the input that fulfils nothing, a loop that fulfils, a formula with its own Until, and TRUE. The inputs are r, TRUE and FALSE.
- **Bound.** Paths are limited to 5 formulas (`DepthBound`). That is enough for a repeat, a backtrack past the saved position, and a second heuristic call.

| Run | Result |
|---|---|
| `SearchDriver_record` (violation) | `PathOnRecord` fails. A revisited formula whose loop fulfils nothing is pushed and explored again (nondeter_checker.cpp:171, the commented-out `else`); spec §4.6 says it is not. Popping that repeat then erases the `_formula_ints` entry of its earlier occurrence, which is still on the path (lines 187-189). A later loop back to it is no longer recognised. |

The safety and verdict properties of the search are checked on the full model, `NondeterChecker`, below.

### NextDepth (`NextDepth.tla`, `MC_NextDepth.tla`)

This module models how `set_avoid` builds the first `_avoid`.
- **get_next_n_formula.** A RECURSIVE operator over the two sorted depth sets.
- **common_deep.** Its loop over `next_deeps`, visited in any order, since a `hash_map` has no fixed order. It runs only when `prop_in_globals` is not NULL, as in `global_next_n_true`.
- **SetAvoid.** One action after `common_deep` returns: `avoid_next_false` over the alphabet, `global_next_true`, the first loop of `global_next_n_true`, and the push of the propositional globals to the common depth. A constraint is a record: `AvoidFalse(l, d)` for `create_next_avoid_false`, and `NextNTrue(r, d)` for `apply_next_n`.
- **Bounds.** Two atoms, each at depths 2 to 4 positively and negatively, with every map and every order. There are three global bodies: `p`, `!p \/ q` and `p \/ X q`; the last is not propositional. Every alphabet that contains the atoms used is allowed. The passing run has 1.5 million states and takes about 70 seconds.

| Run | Result |
|---|---|
| `NextDepth_nextn` (pass) | `get_next_n_formula` is checked against a reference definition: the constraint is placed at every depth up to the smaller of the two deepest occurrences. The run also fires `SetAvoid` on every input. It also checks `CnfSound`, the CNF translation of `bool2cnf` (see Bool2Cnf below), and `Smv1Sound`, `Smv2Sound` and `Smv3Sound`, the SMV encodings of `ltlf2smv` (see LtlfSmv below). |
| `NextDepth_common` (violation) | `if (deep = -1)` assigns, so `common_deep` returns the depth of the last literal even when the depths differ. |

### Progression and InvariantBuilder (`Progression.tla`, `InvariantBuilder.tla`, `MC_InvariantBuilder.tla`)

`Progression` is the formula layer. The aalta_formula library is not in the repository, so a formula is abstracted as follows.
- **Formulas.** A progression state is the set of its top-level conjuncts (`to_set`). TRUE is `{}`.
- **Options.** Each conjunct has one-step options (`Opts`). An option gives the literals it puts on the label, the Until markers it makes true, and the conjuncts the next state must hold.
- **Oracle.** An assignment that `SAT ()` returns is a consistent merge of one option per conjunct (`Options`). This makes the SAT oracle semantic: a core, an invariant, or a learnt `!X f` means what it means in LTL.
- **Helpers.** `next_in`, `current_in`, `erase_global`, `model`, `erase_from`, `apply_next` and `negation_next` are operators.
- **Reference.** The reference semantics `SatStates` holds the reachable states that reach a cycle on which every Until is fulfilled. It is computed by an Emerson–Lei style recursion over strongly connected parts (`HasGoodCycle`).

`InvariantBuilder` models the UNSAT_PUSURING mode of `get_next_pair` (lines 1110-1268), one call after another.
- **Per-process state.** These survive across calls: `_avoid` (`avoidL`, a set of learnt formulas), the frames added to `_global_flatted_formula` (`gfr`), `_until_avoid_seqs`, `_pre_seq_hist` and `_witness`.
- **Per-call state.** `visited`, `common`, `seq`, `pos`, `_f_node_map` (`nodes`), and the locals of `compute_muc`.
- **Actions.** Each step of the code is an action:
  - the global-formula check (`GlobalDead` / `GlobalLive`);
  - `compute_next_pair_from_history` (`HistNone` / `HistFound`);
  - one loop iteration of `distinguish_states` (`DistStep`), and its two returns;
  - `initial_seq` (`SeqStart`, `SeqCore`, `SeqLeave`);
  - one visited state of `compute_muc` (`MucState`, calling `MUC_set` and `MUC`);
  - the three ends of the `do ... while` (`MucGlobal`, `MucLearn`, `MucRetry`) and its step down (`MucStep`);
  - the inner walk (`WalkDown`, `WalkFulfil`, `WalkStuck`), shared with `compute_next_pair_via_seq` (`viaSeq`: only that one guards `update_node` with `visited.find`).
- **Choices.** `previous_state` and every iteration over a pointer-ordered set are nondeterministic choices.
- **Exits.** `exit (0)` and the failing asserts lead to the phases `exit`, `crash` and `abort`.
- **How calls start.** `StartCall` starts a call from any state that is reachable through successors `_avoid` allows, that has an outstanding Until, and that no allowed assignment fulfils. These are the conditions under which `get_next_pair` enters UNSAT mode.
- **Replay and clearing.** `ReplayWitness` models how later calls consume `_witness`. `AllFulfilled` models the clearing of `_pre_seq_hist` by `assignment_pair`.

Inputs (see `MC_Formulas.tla`, shared by the Progression-based models):

| Input | Formula | What it exercises |
|---|---|---|
| Sat | `F b /\ F e /\ p /\ (c \/ X G !c) /\ G ...` | Both witness returns, invariants of several frames, the history paths |
| Unsat | `(F b \/ F e) /\ ...` | `initial_seq` cores, the global-formula shortcut, and a second call refuted by the global formula |
| Chain | see below | The global-formula shortcut applied with an intermediate frame |

- **Bounds.** Each run makes two calls (`MaxCalls = 2`), so the per-process state set by the first call is used by the second. The frame sequence holds at most 5 frames (`SeqBound`); the runs reach sequences of four frames.

| Run | Result |
|---|---|
| `InvariantBuilder_sound` (pass) | See the list below. |
| `InvariantBuilder_unsat` (pass) | `NoAbnormalExit` and `EmptyPairCutsRoot` on the unsatisfiable input. The type invariant is checked in `InvariantBuilder_sound`. |
| `InvariantBuilder_chain` (violation) | A code bug, described below. |

`InvariantBuilder_sound` checks:
- `NoAbnormalExit`: no `exit (0)`, no failed assert, and no `back ()` of an empty vector.
- `SatPreserved`: learning never cuts every fulfilling cycle off a satisfiable input.
- `WitnessIsPath`: a returned witness is a path of progression steps from the root, and it fulfils an outstanding Until.
- `EmptyPairCutsRoot`: every empty pair comes with a learnt formula that excludes an allowed successor of the root. This is the progress `dfs` relies on.

The bug that `InvariantBuilder_chain` finds: `update_global_flatted_formula` makes the intermediate frames global. One of them is `!b`, which holds only from one step on. The input `F b /\ p /\ !b /\ G (!p \/ X q) /\ G (!q \/ X p) /\ G ((p \/ q) -> X r) /\ G (!r \/ X !b)` is satisfiable, but the search then answers UNSAT.

### NondeterChecker (`NondeterChecker.tla`, `MC_NondeterChecker.tla`)

This module is one query end to end: `check` and `dfs` over the Progression states, calling the whole of `get_next_pair` on the formula at the top of `_visited`.
- **get_next_pair.** Every branch is an action:
  - the `_witness` replay (`ReplayPair`);
  - the SAT_PUSURING query on `_next_wanted` (`WantedPair`, `WantedMiss`);
  - the dead formula, with MUC and `update_avoid_with` (`DeadAtOnce`, `DeadLearn`);
  - the free and the pursuing assignment (`FreePair`, `PursuePair`);
  - the UNSAT_PUSURING mode. It is InvariantBuilder started from the current formula and its outstanding Untils (`UnsatEnter`, `UnsatStep`, `UnsatReturn`).
- **dfs.** The recursion is the sequence `frames`. `Enter` is the entry of a call, with `visited` and the push. `CycleFound` is the loop test through `model`. `Descend` is the recursive call. `Backtrack` and `ExhaustRoot` are the pops.
- **Static state.** Every member of `nondeter_prog_state` is static, so a frame holds only its formula and its pair.
- **Left out.** The initial `_avoid` starts as no formula. The header of the module says why: its constraints do not change which successors are models.
- **Inputs.** `Mixed` is `F b /\ !b /\ p /\ (e \/ X (G F b /\ p /\ G1 /\ G2N /\ G3))`. The search can end in TRUE, or go on in a recurring part reached through the UNSAT mode and its witnesses. `Unsat` is the unsatisfiable input of InvariantBuilder. There is no state constraint: learning makes the search finite.

- **Bounds.** The mixed run sets `MaxWanted` (10 in the code) to 2. Its input makes three uses of `set_next_wanted`, so the third use finds the static `compute_next_wanted_count_` past the limit, and the search goes on with the heuristic off.

| Run | Result |
|---|---|
| `NondeterChecker_mixed` (pass) | `VerdictSound`: `check` answers sat exactly for the satisfiable input. `Terminates`. `WitnessReplayedInPlace`: a witness pair is consumed only by the formula it was built from. `FintsOnPath`: `_formula_ints` points into the current path. `WantedFromPath`: `_next_satisfied_pos` stays on the path after every pop. `WantedOnlyWhenFulfilled`: whenever `_next_wanted` is set, `_unsatisfied` is empty (see below). `ImplementsLassoSearch`: the refinement below. |
| `NondeterChecker_unsat` (pass) | `NoAbnormalExit`, `EmptyPairCutsRoot`, `Terminates` and `ImplementsLassoSearch` on the unsatisfiable input, with the root exhausted (`ExhaustRoot`). `SeparateNextSound`: the rewrite of the input, below. |

**SAT_PUSURING and the stale `_unsatisfied`.** `_unsatisfied` is static, and `dfs` does not restore it on a pop. So when `get_next_pair` is called, `_unsatisfied` in general still holds Untils of a deeper formula. TLC finds such states at once if the invariant "`_unsatisfied` ⊆ the Untils of the top formula" is asked at every call. Every branch but SAT_PUSURING runs `update_unsatisfied` first (nondeter_prog_state.cpp:1054). SAT_PUSURING (line 1025) returns `assignment_pair (P)` without it. That is safe only because `set_next_wanted` sets `_next_wanted` while `_unsatisfied` is empty, and the same call that makes `_unsatisfied` non-empty clears `_next_wanted`. `WantedOnlyWhenFulfilled` states this. A missing `_next_wanted = NULL` before that return (mutant `WantedPairKeepWanted`) breaks it.

The bug that `InvariantBuilder_chain` finds is shown within InvariantBuilder, not end to end through `check`.

### LassoSearch (`LassoSearch.tla`): what `dfs` promises

This module is the abstract specification of the search. It is stated over Progression's one-step options and says nothing of how pairs are chosen:
- **State.** A path of states from the input, the Until markers of each edge, and a verdict.
- **Extend.** The path grows by any option of its last state, labelled with some of that option's markers.
- **Retract.** The last state and edge are removed.
- **AcceptTrue, AcceptLoop.** sat is answered only at TRUE, or by a step back to a state `path[i]` on the path whose loop edges, the closing one included, mark every Until of `path[i]`.
- **Reject.** unsat is answered only with the input alone on the path.
- **Exit.** The `exit (0)` of the MUC extraction may end it at any time.

NondeterChecker refines it. The mapping is `LS == INSTANCE LassoSearch WITH marks <- edges, verdict <- result`, with `path` mapped to `path` by name. `get_next_pair`, the UNSAT mode and learning are stuttering steps. `ImplementsLassoSearch == LS!LassoSpec` is a PROPERTY of both NondeterChecker runs. It shows that:
- every pair `dfs` pushes is a progression step of the formula on top of `_visited`, whichever branch of `get_next_pair` produced it, a replayed witness included;
- every pop takes back exactly the last formula and edge;
- the loop test reads the edges from the loop head on;
- false is answered only at the root.

Two mutants break it:
- collect_until from `_visited[0]` rather than from `pos` (`CollectedFromRoot`): a loop that fulfils nothing is accepted because of an earlier edge;
- a dead formula at any depth ending `check` with false (`ExhaustAnyDepth`).

### SeparateNext (`SeparateNext.tla`): the rewrite of the input

The `nondeter_checker` constructor replaces its input by `seperate_next (_input)` (nondeter_checker.cpp:33, 36-82). The rewrite pushes X through And and Or, and turns X X g into `apply_next` of the separated X g. This is what lets the states be sets of conjuncts whose X conjuncts are X of a non-Boolean formula (`XOf` in Progression).
- **Encoding.** A formula is a tuple: an atom, a unary operator (X, not) or a binary one (and, or, U).
- **Operators.** `SeparateNext` and `ApplyNext` are RECURSIVE operators translated from the code.
- **Reference.** `Holds` is the meaning of a formula on a lasso word of `n` positions. An Until is decided within `n` steps, because no more positions are reachable.
- **Check.** `MC_NondeterChecker` enumerates about 200 formulas over a and b, with X nested up to three deep over and inside And, Or, Until and negation, and every lasso word of at most three positions. `SeparateNextSound` states that the result has no X over And or Or and holds on the same words as the input. TLC evaluates the constant part once. It is an invariant of `NondeterChecker_unsat`, stated from the first push on `_visited`.
- **Mutant.** A rewrite that keeps X X g as X of the separated X g (`SeparateNextNoCollapse`) leaves X over an And and is caught.

### Bool2Cnf (`Bool2Cnf.tla`, checked in `MC_NextDepth.tla`): the CNF translation

`bool2cnf/trans.c` translates a propositional formula into DIMACS CNF with the Plaisted-Greenbaum polarity encoding. `plus (node)` prints the clauses saying that `node->index` implies the node's subformula. `minus (node)` prints the clauses saying the converse. NOT switches to the other polarity, and so does the left side of IMP. EQ needs both polarities of both sides. The global flag `result_output` selects between two modes: printing the clauses, or only adding their number to `no_clauses` for the header.
- **Encoding.** A node is the record `make_node` builds (`MakeNode`): type, children, index. A clause is the sequence of literals that one `printf` line prints.
- **Operators.** `Plus` and `Minus` are the printing mode, and `PlusCount` and `MinusCount` the counting mode. All four are mutually RECURSIVE operators translated case by case.
- **Reference.** `Eval` is the meaning of a node under an assignment. `Models` says whether an assignment satisfies a clause sequence.
- **Check.** `MC_NextDepth` builds every formula over the variables 1 and 2 with at most two levels of connectives: about 1600 trees. `CnfExact` requires, for each tree:
  - the counting pass gives the number of clauses the printing pass prints;
  - an assignment of the variables satisfies the formula exactly when some values of the internal nodes' variables satisfy the root's unit clause followed by `plus (root)`.

  Two levels are enough to put every connective under every polarity switch: under a NOT, on an IMP's left and inside an EQ. TLC evaluates `CnfExact` once, and `CnfSound` states it in the states where `common_deep` has returned.
- **Assumption.** The parser (`parse.y`, `scan.l`, `node.h`) is not in the repository. It numbers the nodes, writes the header and the root's unit clause, and calls `plus`. The MC module numbers the internal nodes after the variables and gives a NOT node the negated literal of its operand, `-(operand index)`. `plus` and `minus` print no clause for a NOT, so any other numbering would leave it unconstrained.
- **Mutant.** `minus` at OR printing only two of its three clauses (`MinusOrTwo`) lets a NOT over an OR with both operands true be satisfied, and is caught.

### LtlfSmv (`LtlfSmv.tla`, `MC_LtlfSmv.tla`, checked in `MC_NextDepth.tla`): the SMV translation

`ltlf2smv.cpp` writes an SMV model for an LTLf formula. `Tail` marks the last position of a finite trace, so a counterexample to `G ! Tail` that ends there is a finite model of the formula. The file has four encodings:
- `ltlf2smv`: one state variable and one TRANS equation per subformula (`ltlf2tran`), and the fixed `INIT var0 = TRUE`;
- `ltlf2smv_2`: the BNF encoding, with DEFINEs for F and U over a variable for their X (`create_operation (eNEXT, NULL, root)`);
- `ltlf2smv_3`: the NNF encoding, where those variables are only implied;
- `ltlf2smv_4`, which `main` prints: `ltlf2trans_4` is commented out, so it writes no TRANS.

How the code maps to the model:
- **Encoding.** The output text is kept as structure. An SMV expression is a tuple, and a variable is named by the formula it stands for. `get_var` gives one name per `to_string`, and `already_exists` writes each name once, so the TRANS conjuncts and the DEFINEs are a set and a function. `Var0` is the first name `get_var` gives: the root's, when `ltlf2tran` has a case for it.
- **Order.** VAR is printed from `P` before `get_expr (root, P)` writes INIT. `SmvOf` therefore declares only what the translation inserted.
- **Semantics.** `WellFormed` rejects a failed assert, an empty operand (the `""` of `get_expr`) and a name neither declared nor defined. `Accepts` asks for a path of values of the free variables along the word that satisfies INIT and TRANS, with Tail only at the last position. This is a backward pass, `OkFrom`. After Tail, no conjunct any encoding writes reads `next ()`, so the last state may repeat forever: it needs only to satisfy TRANS towards itself. `LHolds` is the reference, with a strong X and a weak N.
- **Check.** Each formula has two levels of operators over two atoms, and it is checked against every word of one to three positions. Three positions let a nested X or U reach the last one.
  - `Smv1Sound`: `ltlf2smv` is exact on 938 inputs, except a root it has no case for, whose `var0` is undeclared.
  - `Smv2Sound`: `ltlf2smv_2` is exact on 168 BNF inputs.
  - `Smv3Sound`: `ltlf2smv_3` is exact on the NNF inputs without AND. On every input with an AND its model is malformed, because `get_expr` has no case for AND (line 308). `main` first converts its input with `nnf` and then uses this same `get_expr`, so the encoding it prints breaks on any input that contains an AND.
  - `Smv4Sound`: `ltlf2smv_4`, which `main` prints, gives a well-formed model only for inputs of atoms, constants, NOT and OR, and on those it is exact. It writes VAR (line 525) before `get_expr (root, P)` inserts the X and N variables of INIT (line 531), and it writes no DEFINE for F, G, U or R. So the INIT of every temporal input names an undeclared variable. `ltlf2smv_2` and `_3` print VAR in the same order, but by then their translation has inserted those names; `Smv2Sound` and `Smv3Sound` show that.

  TLC evaluates the four once, and each holds in the states where `common_deep` has returned.
- **Mutants.** Each is caught:
  - the Until equation without `(! Tail)` (`Rhs1UntilAnyTail`) satisfies `a U b` past the end;
  - the Until DEFINE without `& var4` (`UntilDefNoNext`) loses the step;
  - the Globally DEFINE without `Tail |` (`GloballyDefNoTail`) never holds at the last position;
  - printing VAR after INIT (`SmvOfLateVar`) declares the X variable of an `X a` root. That variable is then free, and the model accepts every word.
- **Not modelled.** `main` (reading the formula and printing) is not modelled.

### SatSolver (`SatSolver.tla`, `MC_SatSolver.tla`)

This module models `sat_solver::sat` and `tarjan` over the Progression states.
- **DNF.** `dnf_formula (u)->get_next ()` is `Options (u)`: a clause's current part is `o.lab`, its next part `o.nxt`.
- **scc_sat.** It walks a syntax tree of each conjunct (`Syn`, in `MC_SatSolver`): F x is `true U x` and G x is `false R x`.
- **State.** `dfn`, `low`, `_index`, `_stk` and `_scc` are variables. The recursion is the sequence `frames`. `last` is `_states.back ()`, the formula of the latest clause taken anywhere in the search. Calls that return false leave their entries on `_states`.
- **Clause order.** `std::sort` takes the shortest next formula first (the comment at line 296). Clauses of equal length are taken in any order, because the comparison is in the absent library.
- **olg_formula.** It is absent. It is modelled as a sound check that may stay silent.
- **Actions.** `Start` (`sat`), `Descend` (a clause to an unnumbered formula), `Cross` (a clause to a numbered one), `Resume` (after a call returned false), `Close` (the pop of a component) and `Answer`.

| Run | Result |
|---|---|
| `SatSolver_stuck` (violation) | `NeverStuck` fails. When `scc_sat` succeeds, the evidence loop `while (aff != v)` at line 353 never changes `aff`. On `p /\ G (!p \/ X !p) /\ G (p \/ X p) /\ G F e`, the component is closed by an edge from the formula with F e postponed to the `!p` formula on the stack, whose edge set already holds `!p` and `e`. The loop then pops `_path` past its end. The trace has 8 states. |

`satLTLf` (finite traces) is not modelled.

### Fairness and deadlock

- `CoreExtractor` and `NondeterChecker` assume weak fairness of their next-state relation. Each is one sequential thread, which takes whatever step it can. `InvariantBuilder` and `SatSolver` check safety only. Its progress property (`EmptyPairCutsRoot`) is an action property, so it needs no fairness.
- `LassoSearch` is a safety specification: `ImplementsLassoSearch` relates steps and claims no progress. The progress of the search is `Terminates`, under NondeterChecker's own fairness.
- The `SearchDriver` oracle is unconstrained, so it claims no liveness. Termination of the real search rests on `_avoid` learning. `NondeterChecker` models learning and checks `Terminates`.
- Every cfg sets `CHECK_DEADLOCK FALSE`, because the modelled routine returns and the process goes on to print its verdict.

Every property of a passing run has a mutant in `PROJECT.json` that TLC catches.

## Not modelled, and why

- The aalta_formula, dnf_formula and olg_formula library is not in the repository. It provides `SAT`, `model_until`, `flatted`, `unique`, `get_alphabet`, the DNF and the quick checks. It is abstracted by Progression and oracles, and those definitions are marked `spec_modelled`.
- `nondeter_prog_state_new.*` is an older copy of `nondeter_prog_state.cpp`.
- `scc.*` includes `scc_state.h`, which does not exist, and `_sccs` is never filled.
- The deterministic checker (`deter_checker.cpp`, `deter_progression.cpp`, `progression.cpp`) does not compile. `deter_progression.h` declares `deter_progression`, but the members are defined as `progression::`. `check_deter_state.h` and `deter_checker.h` include `progression/progression.h`, which is not in the repository. `main.cpp` has its call commented out. Its loop test `progression::compare` works on the progression trees of `deter_progression.cpp`, and none of it is modelled.
- The Büchi and AIGER translators (`buchi/`, `aiger/`) are outside the checker (spec §6). They turn text into text. The CNF and SMV translators are modelled, as Bool2Cnf and LtlfSmv. Both are pure algorithms whose output has a meaning they can be checked against.
- `main.cpp` calls only `nondeter_sat`. Its option parsing and its dispatch to `sat_solver::sat`, `satLTLf` and the Büchi output are commented out, so SatSolver models code that the current build does not reach.
- `satLTLf` and the evidence strings of `sat_solver.cpp` are not modelled. `satLTLf` is a DFS over DNF clauses with a static `ltlf_visited`. It pushes `_path` and `_states` for every clause it tries and never pops them, so the evidence of a sat answer can include clauses of branches that failed. `main.cpp` makes one query per process, so the static set does not carry over to another query.
- `update_scc`, `confirm_explored` and `update_explored` are never called, or have their bodies commented out.
- There is no fault model. The checker is one synchronous process. It keeps no persistent state and exchanges no messages. A crash only loses the answer.
- `UNSAT_INVARIANT`, `UNSAT_INVARIANT_BACK`, `UC`, the linear `MUC` and `add_transition_to_node` are never called.
- The FALSE-successor branch of `dfs`, where a double pop is possible, is not modelled. Whether it can happen depends on the library's simplification.

## Plan

1. **Selector refinement.** Show that NondeterChecker's `get_next_pair` implements SearchDriver's abstract one, through an INSTANCE of SearchDriver whose oracle is given by the Progression options.
2. **End-to-end chain.** Show the `InvariantBuilder_chain` bug through `check`. This needs an input small enough for the full search.
3. **SatSolver.** Add a passing run: verdict soundness, and edge sets within a component. Model `satLTLf` with finite-trace semantics, including the evidence left over from failed branches.
