------------------------ MODULE SufficiencyCheck_proofs ------------------------
(***************************************************************************)
(* The verdict on a candidate, for tables of any length over any set of    *)
(* requirements. Behind the gate a yes over a table means that Missing is  *)
(* empty; only commit metadata may say yes after that, and they say so in  *)
(* the source.                                                             *)
(***************************************************************************)
EXTENDS SufficiencyCheck, SequenceTheorems, TLAPS

Indexed == DOMAIN table \subseteq Int

(* What the gate leaves behind, and what the commit guard makes of it      *)
Gated ==
  pc \in {"queries", "commit"} /\ sufficient = TRUE /\ table # <<>> => Missing = {}
Guarded ==
  pc \in {"lineage", "done"} /\ sufficient = TRUE =>
    /\ table # <<>> /\ "github_commit_heuristic" \notin source => Missing = {}
    /\ {"commit", "repository"} \subseteq task.subjects =>
         "github_commit_heuristic" \in source
Admitted ==
  pc = "done" /\ sufficient = TRUE => ~("lineage" \in task.subjects /\ candidate = "admits")

IInv == sufficient \in BOOLEAN /\ Indexed /\ Gated /\ Guarded /\ Admitted

LEMMA InitIInv == Init => IInv
<1> SUFFICES ASSUME Init PROVE IInv
  OBVIOUS
<1>1. table = <<>> /\ sufficient = FALSE /\ pc = "start"
  BY DEF Init
<1>2. DOMAIN table = {}
  BY <1>1
<1> QED
  BY <1>1, <1>2 DEF IInv, Indexed, Gated, Guarded, Admitted

(* Any table is indexed by integers: a cut of a model's, and one over an   *)
(* order of the requirements.                                              *)
LEMMA TableIndexed == Indexed /\ Next => Indexed'
<1> SUFFICES ASSUME Indexed, Next PROVE Indexed'
  OBVIOUS
<1>1. CASE AskModel
  <2>1. PICK rows \in Tables :
          table' = SubSeq(rows, 1, IF Len(rows) < MaxRows THEN Len(rows) ELSE MaxRows)
    BY <1>1 DEF AskModel
  <2> DEFINE n == IF Len(rows) < MaxRows THEN Len(rows) ELSE MaxRows
  <2>2. PICK k \in 0 .. MaxReply : rows \in [1 .. k -> Row]
    BY DEF Tables
  <2>3. k \in Nat /\ MaxRows \in Nat
    BY <2>2, BoundsAssumption
  <2>4. rows \in Seq(Row) /\ Len(rows) = k
    BY <2>2, <2>3
  <2>5. n \in Nat /\ n <= k
    BY <2>3, <2>4
  <2> HIDE DEF n
  <2>6. \A i \in 1 .. n : rows[i] \in Row
    BY <2>2, <2>3, <2>5
  <2>7. SubSeq(rows, 1, n) \in Seq(Row)
    BY <2>5, <2>6, SubSeqProperties
  <2>8. table' \in Seq(Row)
    BY <2>1, <2>7 DEF n
  <2>9. DOMAIN table' = 1 .. Len(table')
    BY <2>8, LenProperties
  <2> QED
    BY <2>9 DEF Indexed
<1>2. CASE Assess
  <2>1. CASE UNCHANGED table
    BY <2>1 DEF Indexed
  <2>2. CASE ~UNCHANGED table
    <3>1. PICK ids \in SetToSeqs(task.required) : DOMAIN table' = DOMAIN ids
      BY <1>2, <2>2 DEF Assess
    <3>2. DOMAIN ids = 1 .. Cardinality(task.required)
      BY <3>1 DEF SetToSeqs
    <3> QED
      BY <3>1, <3>2 DEF Indexed
  <2> QED
    BY <2>1, <2>2
<1>3. CASE ~AskModel /\ ~Assess
  <2>1. UNCHANGED table
    BY <1>3 DEF Next, Overlap, Gate, Offer, CommitGuard, LineageGuard
  <2> QED
    BY <2>1 DEF Indexed
<1> QED
  BY <1>1, <1>2, <1>3

LEMMA StepKeeps == IInv /\ [Next]_vars => IInv'
<1> SUFFICES ASSUME IInv, [Next]_vars PROVE IInv'
  OBVIOUS
<1>0. sufficient \in BOOLEAN /\ Indexed /\ Gated /\ Guarded /\ Admitted
  BY DEF IInv
<1>1. CASE Overlap \/ AskModel \/ Assess
  <2>1. pc' \in {"model", "gate"} /\ sufficient' \in BOOLEAN
    BY <1>0, <1>1 DEF Overlap, AskModel, Assess
  <2>2. Indexed'
    BY <1>0, <1>1, TableIndexed DEF Next
  <2> QED
    BY <2>1, <2>2 DEF IInv, Gated, Guarded, Admitted
<1>2. CASE Gate
  <2>1. pc' = "queries" /\ UNCHANGED <<task, table>>
    BY <1>2 DEF Gate
  <2>2. Missing' = Missing
    BY <2>1 DEF Missing, Satisfied
  <2>3. sufficient' \in BOOLEAN
    BY <1>0, <1>2 DEF Gate
  <2>4. sufficient' = TRUE /\ table # <<>> => Missing = {}
    <3>1. task.required = {} => Missing = {}
      BY DEF Missing
    <3> QED
      BY <1>2, <3>1 DEF Gate
  <2>5. Indexed'
    BY <1>0, <1>2, TableIndexed DEF Next
  <2> QED
    BY <2>1, <2>2, <2>3, <2>4, <2>5 DEF IInv, Gated, Guarded, Admitted
<1>3. CASE Offer
  <2>1. pc = "queries" /\ pc' = "commit" /\ UNCHANGED <<task, candidate, sufficient, source, table>>
    BY <1>3 DEF Offer
  <2> QED
    BY <1>0, <2>1 DEF IInv, Indexed, Gated, Guarded, Admitted, Missing, Satisfied
<1>4. CASE CommitGuard
  <2>1. pc = "commit" /\ pc' = "lineage" /\ UNCHANGED <<task, candidate, table>>
    BY <1>4 DEF CommitGuard
  <2>2. Missing' = Missing
    BY <2>1 DEF Missing, Satisfied
  <2>3. sufficient' \in BOOLEAN
    BY <1>0, <1>4 DEF CommitGuard
  <2>4. sufficient' = TRUE =>
          /\ table # <<>> /\ "github_commit_heuristic" \notin source' => Missing = {}
          /\ {"commit", "repository"} \subseteq task.subjects =>
               "github_commit_heuristic" \in source'
    <3>1. CASE UNCHANGED <<sufficient, source>>
               /\ ~({"commit", "repository"} \subseteq task.subjects)
      BY <1>0, <2>1, <3>1 DEF Gated
    <3>2. CASE sufficient' = TRUE /\ source' = source \cup {"github_commit_heuristic"}
      BY <3>2
    <3>3. CASE sufficient' = FALSE
      BY <3>3
    <3> QED
      BY <1>4, <3>1, <3>2, <3>3 DEF CommitGuard
  <2>5. Indexed'
    BY <1>0, <2>1 DEF Indexed
  <2> QED
    BY <2>1, <2>2, <2>3, <2>4, <2>5 DEF IInv, Gated, Guarded, Admitted
<1>5. CASE LineageGuard
  <2>1. pc = "lineage" /\ pc' = "done" /\ UNCHANGED <<task, candidate, table>>
    BY <1>5 DEF LineageGuard
  <2>2. Missing' = Missing /\ Indexed'
    BY <1>0, <2>1 DEF Missing, Satisfied, Indexed
  <2>3. \/ sufficient' = FALSE
        \/ UNCHANGED <<sufficient, source>>
           /\ ~("lineage" \in task.subjects /\ candidate = "admits")
    BY <1>5 DEF LineageGuard
  <2> QED
    BY <1>0, <2>1, <2>2, <2>3 DEF IInv, Gated, Guarded, Admitted
<1>6. CASE UNCHANGED vars
  BY <1>0, <1>6 DEF vars, IInv, Indexed, Gated, Guarded, Admitted, Missing, Satisfied
<1> QED
  BY <1>1, <1>2, <1>3, <1>4, <1>5, <1>6 DEF Next

(* The inductive invariant of a check holds throughout.                    *)
THEOREM Invariance == Spec => []IInv
<1> QED
  BY InitIInv, StepKeeps, PTL DEF Spec

(* A required output that is not missing and has an open row has a later   *)
(* row that overrules it.                                                  *)
LEMMA OpenIsOverruled ==
  ASSUME Indexed, Missing = {}, NEW i \in OpenRows, table[i].id \in task.required
  PROVE  Superseded(i)
<1>1. PICK k \in DOMAIN table :
        /\ table[k] = [id |-> table[i].id, status |-> "satisfied"]
        /\ \A j \in DOMAIN table : j > k => table[j].id # table[i].id
  BY DEF Missing, Satisfied
<1>2. i \in DOMAIN table /\ table[i].status # "satisfied"
  BY DEF OpenRows, Blocking
<1>3. k # i /\ ~(i > k)
  BY <1>1, <1>2
<1>4. k > i
  BY <1>2, <1>3 DEF Indexed
<1> QED
  BY <1>1, <1>4 DEF Superseded

(* What the tool calls sufficient, its readers let pass: whatever open row *)
(* they find was settled by commit metadata, is about an output nobody     *)
(* required, or was overruled.                                             *)
THEOREM ReadersDoAgree == Spec => []ReadersAgree
<1>1. IInv => ReadersAgree
  <2> SUFFICES ASSUME IInv, pc = "done", sufficient,
                      "github_commit_heuristic" \notin source,
                      NEW i \in OpenRows, table[i].id \in task.required
               PROVE  Superseded(i)
    BY DEF ReadersAgree
  <2>1. table # <<>>
    BY DEF OpenRows
  <2>2. sufficient = TRUE /\ Indexed /\ Guarded
    BY DEF IInv
  <2>3. Missing = {}
    BY <2>1, <2>2 DEF Guarded
  <2> QED
    BY <2>2, <2>3, OpenIsOverruled
<1> QED
  BY Invariance, <1>1, PTL

(* A yes over a table has a satisfied row for every required output.       *)
THEOREM NoOutputPassedOver == Spec => []NothingPassedOver
<1>1. IInv => NothingPassedOver
  <2> SUFFICES ASSUME IInv, pc = "done", sufficient, table # <<>>,
                      "github_commit_heuristic" \notin source,
                      NEW id \in task.required
               PROVE  \E i \in DOMAIN table : table[i] = [id |-> id, status |-> "satisfied"]
    BY DEF NothingPassedOver
  <2>1. sufficient = TRUE /\ Guarded
    BY DEF IInv
  <2>2. Missing = {}
    BY <2>1 DEF Guarded
  <2> QED
    BY <2>2 DEF Missing, Satisfied
<1> QED
  BY Invariance, <1>1, PTL

(* Neither overlap nor opinion nor table overrules the guards.             *)
THEOREM GuardsDoWin == Spec => []GuardsWin
<1>1. IInv => GuardsWin
  <2> SUFFICES ASSUME IInv, pc = "done", sufficient
               PROVE  /\ {"commit", "repository"} \subseteq task.subjects =>
                           "github_commit_heuristic" \in source
                      /\ ~("lineage" \in task.subjects /\ candidate = "admits")
    BY DEF GuardsWin
  <2>1. sufficient = TRUE /\ Guarded /\ Admitted
    BY DEF IInv
  <2> QED
    BY <2>1 DEF Guarded, Admitted
<1> QED
  BY Invariance, <1>1, PTL
=============================================================================
