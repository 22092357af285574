---------------------------- MODULE LassoSearch ----------------------------
(***************************************************************************)
(* What the depth-first search of nondeter_checker promises, stated over   *)
(* the progression steps of Progression and nothing of how the pairs are   *)
(* chosen.  The search keeps a path of progression states from the input   *)
(* and the Until markers of each edge on it.  It may extend the path by    *)
(* any one-step option of its last state, labelled with some of the       *)
(* option's markers, and retract the last state.  It answers sat only at   *)
(* the state TRUE, or when a step closes a loop on the path whose edges    *)
(* fulfil every Until of the state the loop returns to.  It answers unsat  *)
(* only with the input alone on the path, and it may stop with "exit" (the *)
(* exit (0) of the MUC extraction) at any time.                            *)
(***************************************************************************)
EXTENDS Progression, SequencesExt

VARIABLES
  path,     \* the progression states from the input
  marks,    \* marks[k]: the Until markers of the edge path[k] -> path[k+1]
  verdict   \* "none" until the search answers

lassoVars == <<path, marks, verdict>>

LassoTypeOK ==
  /\ path \in Seq(SUBSET Conj)
  /\ marks \in Seq(SUBSET UntilConj)
  /\ verdict \in {"none", "sat", "unsat", "exit"}

LassoInit == path = <<>> /\ marks = <<>> /\ verdict = "none"

Searching == verdict = "none" /\ path # <<>>

Start ==
  /\ verdict = "none" /\ path = <<>>
  /\ path' = <<Input>>
  /\ UNCHANGED <<marks, verdict>>

(* A step of the last state: an option and a part of its markers.          *)
Steps(s) == UNION {{<<o.nxt, m>> : m \in SUBSET o.mark} : o \in Options(s)}

Extend ==
  /\ Searching
  /\ \E st \in Steps(Last(path)) :
       path' = Append(path, st[1]) /\ marks' = Append(marks, st[2])
  /\ UNCHANGED verdict

Retract ==
  /\ Searching /\ Len(path) > 1
  /\ path' = Front(path) /\ marks' = Front(marks)
  /\ UNCHANGED verdict

AcceptTrue ==
  /\ Searching /\ Last(path) = {}
  /\ verdict' = "sat"
  /\ UNCHANGED <<path, marks>>

(* The loop closed by a step back to path[i] carries the markers of the   *)
(* edges i .. Len(marks'), the closing one included.                       *)
LoopFulfils(i, ms) == UntilsOf(path[i]) \subseteq UNION {ms[k] : k \in i..Len(ms)}

AcceptLoop ==
  /\ Searching
  /\ \E st \in Steps(Last(path)), i \in 1..Len(path) :
       /\ path[i] = st[1]
       /\ marks' = Append(marks, st[2])
       /\ LoopFulfils(i, marks')
  /\ verdict' = "sat"
  /\ UNCHANGED path

Reject ==
  /\ Searching /\ Len(path) = 1
  /\ verdict' = "unsat"
  /\ UNCHANGED <<path, marks>>

Exit ==
  /\ Searching
  /\ verdict' = "exit"
  /\ UNCHANGED <<path, marks>>

LassoNext ==
  Start \/ Extend \/ Retract \/ AcceptTrue \/ AcceptLoop \/ Reject \/ Exit

LassoSpec == LassoInit /\ [][LassoNext]_lassoVars
=============================================================================
