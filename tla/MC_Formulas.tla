------------------------------ MODULE MC_Formulas ------------------------------
(***************************************************************************)
(* The formulas the models are checked on, over atoms b, e, p, q, c, r.   *)
(*                                                                         *)
(* Sat: F b /\ F e /\ p /\ (c \/ X G !c) /\ G (!p \/ X q)                  *)
(*      /\ G (!q \/ c \/ X p) /\ G (!p \/ (!b /\ !e)) /\ G (!q \/ (!b /\ !e)) *)
(* p and q alternate and each blocks b and e; c breaks the alternation,   *)
(* unless the successor took on G !c (the non-global conjunct Hc).  So    *)
(* F b and F e are satisfiable from the input, but not from a formula     *)
(* that holds Hc: the search reaches both, a witness path in one (which   *)
(* may fulfil one of the two Untils only), an invariant of several frames *)
(* in the other.                                                           *)
(*                                                                         *)
(* Unsat: (F b \/ F e) /\ p /\ !b /\ G (!p \/ X q) /\ G (!q \/ X p)        *)
(*        /\ G (!p \/ (!b /\ !e)) /\ G (!q \/ (!b /\ !e))                  *)
(*        /\ G (!p \/ X !b) /\ G (!q \/ X !b)                              *)
(* p and q alternate for ever and !b (NB) is carried along: the first     *)
(* call finds the frames F b, !b, p \/ q, whose last is an invariant that *)
(* holds initially and joins the global formula; a second call on F e is *)
(* then refuted by the global formula alone.                               *)
(***************************************************************************)
EXTENDS Naturals

Pos(x) == <<x, TRUE>>
Neg(x) == <<x, FALSE>>
Op(l, m, n) == [lab |-> l, mark |-> m, nxt |-> n]

MCAtoms == {"b", "e", "p", "q", "c", "r"}
MCConj == {"Fb", "Fe", "E", "P", "Q", "Hc", "D", "NB",
           "G1", "G2", "G2N", "G3", "G4", "G5", "G6", "R", "G5R", "G6R", "G7"}
MCUntils == {"Fb", "Fe"}

MCOpts ==
  [x \in MCConj |->
     CASE x = "Fb" -> {Op({Pos("b")}, {"Fb"}, {}), Op({}, {}, {"Fb"})}
       [] x = "Fe" -> {Op({Pos("e")}, {"Fe"}, {}), Op({}, {}, {"Fe"})}
       [] x = "E"  -> {Op({Pos("b")}, {"Fb"}, {}), Op({}, {}, {"Fb"}),
                       Op({Pos("e")}, {"Fe"}, {}), Op({}, {}, {"Fe"})}
       [] x = "P"  -> {Op({Pos("p")}, {}, {})}
       [] x = "Q"  -> {Op({Pos("q")}, {}, {})}
       [] x = "NB" -> {Op({Neg("b")}, {}, {})}
       [] x = "Hc" -> {Op({Neg("c")}, {}, {"Hc"})}
       [] x = "D"  -> {Op({Pos("c")}, {}, {}), Op({}, {}, {"Hc"})}
       [] x = "G1" -> {Op({Neg("p")}, {}, {"G1"}), Op({}, {}, {"Q", "G1"})}
       [] x = "G2" -> {Op({Neg("q")}, {}, {"G2"}), Op({Pos("c")}, {}, {"G2"}),
                       Op({}, {}, {"P", "G2"})}
       [] x = "G2N" -> {Op({Neg("q")}, {}, {"G2N"}), Op({}, {}, {"P", "G2N"})}
       [] x = "G3" -> {Op({Neg("p")}, {}, {"G3"}),
                       Op({Neg("b"), Neg("e")}, {}, {"G3"})}
       [] x = "G4" -> {Op({Neg("q")}, {}, {"G4"}),
                       Op({Neg("b"), Neg("e")}, {}, {"G4"})}
       [] x = "G5" -> {Op({Neg("p")}, {}, {"G5"}), Op({}, {}, {"NB", "G5"})}
       [] x = "G6" -> {Op({Neg("q")}, {}, {"G6"}), Op({}, {}, {"NB", "G6"})}
       [] x = "R"  -> {Op({Pos("r")}, {}, {})}
       [] x = "G5R" -> {Op({Neg("p")}, {}, {"G5R"}), Op({}, {}, {"R", "G5R"})}
       [] x = "G6R" -> {Op({Neg("q")}, {}, {"G6R"}), Op({}, {}, {"R", "G6R"})}
       [] x = "G7" -> {Op({Neg("r")}, {}, {"G7"}), Op({}, {}, {"NB", "G7"})}]

MCXOf == [x \in {} |-> x]

MCInputSat == {"Fb", "Fe", "P", "D", "G1", "G2", "G3", "G4"}
MCGlobalsSat == {"G1", "G2", "G3", "G4"}

MCInputUnsat == {"E", "P", "NB", "G1", "G2N", "G3", "G4", "G5", "G6"}
MCGlobalsUnsat == {"G1", "G2N", "G3", "G4", "G5", "G6"}

MCInputChain == {"Fb", "P", "NB", "G1", "G2N", "G5R", "G6R", "G7"}
MCGlobalsChain == {"G1", "G2N", "G5R", "G6R", "G7"}

(***************************************************************************)
(* Three more conjuncts for the whole search: GFb is G F b and GFe is     *)
(* G F e (false R (true U b)): the F b of GFb is not a top-level Until    *)
(* of a state, the F b it puts in the next state is.                      *)
(* P, Q, NB and R are literals; Hc (G !c), GFb, GFe and G1 .. G7 are G    *)
(* formulas.                                                               *)
(***************************************************************************)
MCConjN == MCConj \cup {"GFb", "GFe", "O", "NP", "GA", "GB"}

MCOptsN ==
  [x \in MCConjN |->
     CASE x = "GFb" -> {Op({Pos("b")}, {"Fb"}, {"GFb"}), Op({}, {}, {"Fb", "GFb"})}
       [] x = "GFe" -> {Op({Pos("e")}, {"Fe"}, {"GFe"}), Op({}, {}, {"Fe", "GFe"})}
       [] x = "O"   -> {Op({Pos("e")}, {}, {}), Op({}, {}, {"GFb", "P", "G1", "G2N", "G3"})}
       [] x = "NP"  -> {Op({Neg("p")}, {}, {})}
       [] x = "GA"  -> {Op({Neg("p")}, {}, {"GA"}), Op({}, {}, {"NP", "GA"})}
       [] x = "GB"  -> {Op({Pos("p")}, {}, {"GB"}), Op({}, {}, {"P", "GB"})}
       [] OTHER -> MCOpts[x]]

MCLitConj == {"P", "Q", "NB", "R"}
MCGConj == {"Hc", "GFb", "GFe", "G1", "G2", "G2N", "G3", "G4", "G5", "G6", "G5R",
            "G6R", "G7"}

(* F b /\ !b /\ p /\ (e \/ X (GFb /\ p /\ G1 /\ G2N /\ G3)): F b is put off *)
(* at once; the search can end in TRUE, or go on in a recurring part       *)
(* where p and q alternate and b only comes with q, reached through the   *)
(* UNSAT mode and its witnesses.                                           *)
MCInputMixed == {"Fb", "NB", "O", "P"}
MCGlobalsMixed == {}

(* p /\ G (!p \/ X !p) /\ G (p \/ X p): p and !p alternate for ever; NP is *)
(* !p, GA and GB the two G formulas.                                       *)
MCInputAlt == {"P", "GA", "GB"}

(* The same with G F e: e recurs, so the alternation makes one component *)
(* of several formulas.                                                    *)
MCInputAltE == {"P", "GA", "GB", "GFe"}
===============================================================================
