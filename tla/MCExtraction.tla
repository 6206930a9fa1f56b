---------------------------- MODULE MCExtraction -----------------------------
(***************************************************************************)
(* The module of the runs of Extraction.  The configurations give the      *)
(* bounds: which events may happen, and how often.                         *)
(***************************************************************************)
EXTENDS Extraction

\* Three handlers around an undisturbed worker: pauses, resumes, cancels, a
\* clear and an unreadable job document.
Controls ==
  /\ count["control"] + count["clear"] + count["fault"] <= 3
  /\ \A n \in Novels, e \in Boundaries : content[n][e] <= 1
  /\ count["stop"] = 0 /\ count["error"] = 0

\* One handler, and everything that can happen to the worker.
Recovery == count["control"] <= 1 /\ count["clear"] = 0 /\ count["fault"] = 0

ControlsOrRecovery == Controls \/ Recovery
=============================================================================
