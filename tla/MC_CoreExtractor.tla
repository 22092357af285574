------------------------- MODULE MC_CoreExtractor -------------------------
(* Model-checking instance of CoreExtractor: four conjuncts and oracles   *)
(* of up to three cores, so that overlapping cores, cores spread over     *)
(* both halves of a split and redundant literals all occur.               *)
EXTENDS CoreExtractor

MCLits == 1..4
MCMaxCores == 3
=============================================================================
