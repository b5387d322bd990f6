------------------------------- MODULE MCSolve -------------------------------
(* A few texts of every kind for Solve, and a turn for every fact that the *)
(* finalizer reads.                                                        *)
EXTENDS Solve

CONSTANTS name, number, excuse, snippet, commit, token,
          refusal, redaction, noEvidence, noContext

AllTexts ==
  {name, number, excuse, snippet, commit, token,
   refusal, redaction, noEvidence, noContext}

(* A number is too short for the test for repetition.                      *)
Restated == {<<t, t>> : t \in {name, excuse, snippet, commit, token}}
Whole == [t \in AllTexts |-> t]

Tool == Bare("tool")
Recorded ==
  { [Tool EXCEPT !.needs = "few"],
    [Tool EXCEPT !.needs = "many"],
    [Tool EXCEPT !.table = "open", !.cand = name],
    [Tool EXCEPT !.table = "met", !.cand = excuse],
    [Tool EXCEPT !.span = token],
    [Tool EXCEPT !.page = snippet],
    [Tool EXCEPT !.cand = number, !.span = snippet, !.sums = {number}] }
=============================================================================
