----------------------------- MODULE BoundedRun -----------------------------
(***************************************************************************)
(* What a run of the loop promises the orchestrator: it takes turns, each  *)
(* of which costs one step of the budget and spends at most one external   *)
(* call that was never spent before, and then it ends, once, with a        *)
(* result. Without a time limit it is truncated only when the steps are    *)
(* used up.                                                                *)
(***************************************************************************)
EXTENDS Naturals

CONSTANTS
  MaxSteps,  (* the step budget                                            *)
  Spendable, (* the external calls                                         *)
  Timed,     (* there is a time limit                                      *)
  Results    (* the ways a run can end                                     *)

VARIABLES
  used,      (* steps used                                                 *)
  ledger,    (* the external calls spent, each with the step it was spent  *)
             (* in                                                         *)
  result

vars == <<used, ledger, result>>

Init == used = 0 /\ ledger = {} /\ result = "none"

Spend(c) ==
  /\ \A entry \in ledger : entry.call # c
  /\ ledger' = ledger \cup {[step |-> used + 1, call |-> c]}

Turn ==
  /\ result = "none"
  /\ used < MaxSteps
  /\ used' = used + 1
  /\ UNCHANGED ledger \/ \E c \in Spendable : Spend(c)
  /\ UNCHANGED result

End ==
  /\ result = "none"
  /\ result' \in Results
  /\ result' = "truncated" => Timed \/ used = MaxSteps
  /\ UNCHANGED <<used, ledger>>

Next == Turn \/ End

Safe == Init /\ [][Next]_vars
Spec == Safe /\ WF_vars(Next)
=============================================================================
