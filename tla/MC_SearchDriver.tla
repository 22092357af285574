-------------------------- MODULE MC_SearchDriver --------------------------
(***************************************************************************)
(* A search graph with a loop through the input that fulfils nothing     *)
(* (r -> a -> r), a loop that fulfils the input's until (a -m1-> a), a     *)
(* fulfilling step into a formula without untils (r -m1-> b), and TRUE.   *)
(***************************************************************************)
EXTENDS SearchDriver, TLC

CONSTANTS r, a, b, T, m1, m2

MCStates == {r, a, b, T}
MCMarkers == {m1, m2}
MCInputs == {r, T, FalseF}
MCUntils == (r :> {m1}) @@ (a :> {m1}) @@ (b :> {m2}) @@ (T :> {})
MCSucc ==
  { <<r, {}, a>>, <<r, {m1}, b>>, <<a, {}, r>>, <<a, {m1}, a>>,
    <<b, {}, b>>, <<b, {m2}, r>>, <<b, {m2}, T>> }

(* Paths longer than this are not explored.                               *)
MaxDepth == 5
DepthBound == Len(visited) <= MaxDepth
============================================================================
