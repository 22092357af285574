------------------------- MODULE MC_InvariantBuilder -------------------------
(***************************************************************************)
(* The formulas of MC_Formulas, for the UNSAT mode.                        *)
(***************************************************************************)
EXTENDS InvariantBuilder, MC_Formulas

(* The avoidable sequence is at most this long.                            *)
MaxFrames == 5
SeqBound == Len(seq) <= MaxFrames
=============================================================================
