------------------------------ MODULE MC_SatSolver ------------------------------
(***************************************************************************)
(* The formulas of MC_Formulas for sat_solver::tarjan, with the syntax    *)
(* tree of each conjunct as scc_sat walks it: F x is true U x, G x is     *)
(* false R x.                                                              *)
(***************************************************************************)
EXTENDS SatSolver, MC_Formulas

TT       == [op |-> "true"]
FF       == [op |-> "false"]
L(x, b)  == [op |-> "lit", lit |-> <<x, b>>]
AndT(l, r) == [op |-> "and", l |-> l, r |-> r]
OrT(l, r)  == [op |-> "or", l |-> l, r |-> r]
FT(r)    == [op |-> "until", l |-> TT, r |-> r]
GT(r)    == [op |-> "release", l |-> FF, r |-> r]
XT(r)    == [op |-> "next", r |-> r]

NotBE == AndT(L("b", FALSE), L("e", FALSE))

MCSyn ==
  [x \in MCConjN |->
     CASE x = "Fb"  -> FT(L("b", TRUE))
       [] x = "Fe"  -> FT(L("e", TRUE))
       [] x = "E"   -> OrT(FT(L("b", TRUE)), FT(L("e", TRUE)))
       [] x = "P"   -> L("p", TRUE)
       [] x = "Q"   -> L("q", TRUE)
       [] x = "NB"  -> L("b", FALSE)
       [] x = "R"   -> L("r", TRUE)
       [] x = "Hc"  -> GT(L("c", FALSE))
       [] x = "D"   -> OrT(L("c", TRUE), XT(GT(L("c", FALSE))))
       [] x = "G1"  -> GT(OrT(L("p", FALSE), XT(L("q", TRUE))))
       [] x = "G2"  -> GT(OrT(L("q", FALSE), OrT(L("c", TRUE), XT(L("p", TRUE)))))
       [] x = "G2N" -> GT(OrT(L("q", FALSE), XT(L("p", TRUE))))
       [] x = "G3"  -> GT(OrT(L("p", FALSE), NotBE))
       [] x = "G4"  -> GT(OrT(L("q", FALSE), NotBE))
       [] x = "G5"  -> GT(OrT(L("p", FALSE), XT(L("b", FALSE))))
       [] x = "G6"  -> GT(OrT(L("q", FALSE), XT(L("b", FALSE))))
       [] x = "G5R" -> GT(OrT(L("p", FALSE), XT(L("r", TRUE))))
       [] x = "G6R" -> GT(OrT(L("q", FALSE), XT(L("r", TRUE))))
       [] x = "G7"  -> GT(OrT(L("r", FALSE), XT(L("b", FALSE))))
       [] x = "GFb" -> GT(FT(L("b", TRUE)))
       [] x = "GFe" -> GT(FT(L("e", TRUE)))
       [] x = "NP"  -> L("p", FALSE)
       [] x = "GA"  -> GT(OrT(L("p", FALSE), XT(L("p", FALSE))))
       [] x = "GB"  -> GT(OrT(L("p", TRUE), XT(L("p", TRUE))))
       [] x = "O"   -> OrT(L("e", TRUE),
                           XT(AndT(GT(FT(L("b", TRUE))),
                                   AndT(L("p", TRUE),
                                        AndT(GT(OrT(L("p", FALSE), XT(L("q", TRUE)))),
                                             AndT(GT(OrT(L("q", FALSE), XT(L("p", TRUE)))),
                                                  GT(OrT(L("p", FALSE), NotBE))))))))]

=============================================================================
