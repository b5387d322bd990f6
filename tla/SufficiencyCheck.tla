-------------------------- MODULE SufficiencyCheck --------------------------
(***************************************************************************)
(* SufficiencyCheckTool.run: how a verdict on a candidate comes about from *)
(* a token overlap, a language model's opinion, a coverage table over the  *)
(* task's requirements and two guards for kinds of tasks, each of which may*)
(* overrule the ones before.                                               *)
(*                                                                         *)
(* Texts are abstracted to what the code asks of them. Requirements have   *)
(* distinct ids. Rows of a model's table that are no objects or carry no id*)
(* are like rows for an output nobody required.                            *)
(***************************************************************************)
EXTENDS Naturals, Sequences, SequencesExt

CONSTANTS
  Outputs,    (* ids of requirements                                       *)
  Tasks,      (* the tasks considered: which outputs are required, and what*)
              (* the prompt speaks of                                      *)
  MaxReply,   (* rows a model's table may have                             *)
  MaxRows,    (* rows of it that are read: requirement_coverage[:20]       *)
  MaxQueries  (* queries offered: queries[:5]                              *)

(* "commit" and "repository" are words of the prompt; "lineage" is a       *)
(* question for an advisor lineage of five generations.                    *)
Subjects == {"commit", "repository", "lineage"}
ASSUME TasksAssumption ==
  Tasks \subseteq [required : SUBSET Outputs, subjects : SUBSET Subjects]
ASSUME BoundsAssumption ==
  MaxReply \in Nat /\ MaxRows \in Nat \ {0} /\ MaxQueries \in Nat \ {0}

(* "partly" stands for a status of the model's own making, "contradicted"  *)
(* for "missing" too.                                                      *)
Blocking == {"weak", "contradicted"}
Statuses == Blocking \cup {"satisfied", "partly"}
Row == [id : Outputs, status : Statuses]
Tables == UNION {[1 .. n -> Row] : n \in 0 .. MaxReply}

VARIABLES
  pc,
  task,
  candidate,  (* "none", "admits" that the answer is incomplete, or "claims"*)
  sufficient,
  source,     (* the parts of the source string                            *)
  table,      (* requirement_coverage                                      *)
  queries     (* the ids that next_queries are for                         *)

vars == <<pc, task, candidate, sufficient, source, table, queries>>

(* The last row of an output counts.                                       *)
Satisfied(id) ==
  \E i \in DOMAIN table :
    /\ table[i] = [id |-> id, status |-> "satisfied"]
    /\ \A j \in DOMAIN table : j > i => table[j].id # id

-----------------------------------------------------------------------------
Init ==
  /\ pc = "start"
  /\ task \in Tasks
  /\ candidate \in {"none", "admits", "claims"}
  /\ sufficient = FALSE
  /\ source = {"heuristic"}
  /\ table = <<>>
  /\ queries = {}

(* The tokens of the prompt are looked for in the candidate and the spans. *)
Overlap ==
  /\ pc = "start"
  /\ \E covered \in BOOLEAN : sufficient' = (candidate # "none" /\ covered)
  /\ pc' = "model"
  /\ UNCHANGED <<task, candidate, source, table, queries>>

(* A model that replies with an object decides; its table may be missing,  *)
(* its queries are not for a known requirement.                            *)
AskModel ==
  /\ pc = "model" /\ candidate # "none"
  /\ \E opinion \in BOOLEAN, rows \in Tables :
       /\ sufficient' = opinion
       /\ table' = SubSeq(rows, 1, IF Len(rows) < MaxRows THEN Len(rows) ELSE MaxRows)
  /\ source' = {"llm"}
  /\ pc' = "gate"
  /\ UNCHANGED <<task, candidate, queries>>

(* Without a reply a task of three or more requirements gets a table of the*)
(* code's own. Sections that cite several domains leave no row satisfied.  *)
Assess ==
  /\ pc = "model"
  /\ IF Cardinality(task.required) < 3 THEN UNCHANGED table
     ELSE \E ids \in SetToSeqs(task.required), mixed \in BOOLEAN :
          \E found \in [task.required -> {"satisfied"} \cup Blocking] :
            /\ mixed => \A id \in task.required : found[id] # "satisfied"
            /\ table' = [i \in DOMAIN ids |-> [id |-> ids[i], status |-> found[ids[i]]]]
  /\ pc' = "gate"
  /\ UNCHANGED <<task, candidate, sufficient, source, queries>>

(* Faulty variants: a required output without a row passes, and an open row*)
(* that is not a contradiction does                                        *)
Missing_Unlisted ==
  {id \in task.required :
     /\ \E i \in DOMAIN table : table[i].id = id
     /\ ~Satisfied(id)}
Missing_Contradicted ==
  {id \in task.required :
     [id |-> id, status |-> "contradicted"] \in ToSet(table)}

Missing == {id \in task.required : ~Satisfied(id)}

(* The table overrules both ways, but the code's own table cannot turn an  *)
(* overlap too small into a yes.                                           *)
Gate ==
  /\ pc = "gate"
  /\ IF table = <<>> \/ task.required = {} THEN UNCHANGED <<sufficient, source>>
     ELSE IF Missing # {}
       THEN sufficient' = FALSE /\ source' = source \cup {"requirements_gate"}
     ELSE IF "llm" \in source
       THEN sufficient' = TRUE /\ source' = source \cup {"requirements_gate"}
     ELSE UNCHANGED <<sufficient, source>>
  /\ pc' = "queries"
  /\ UNCHANGED <<task, candidate, table, queries>>

(* _queries_for_weak_requirements: one for each open row, in their order   *)
Offer ==
  /\ pc = "queries"
  /\ LET open == SelectSeq(table, LAMBDA row : row.status \in Blocking)
     IN  queries' = IF "llm" \in source THEN {}
                    ELSE {open[i].id : i \in {k \in DOMAIN open : k <= MaxQueries}}
  /\ pc' = "commit"
  /\ UNCHANGED <<task, candidate, sufficient, source, table>>

(* Faulty variant: the guard leaves a model's opinion alone                *)
CommitGuard_Trusting ==
  /\ pc = "commit"
  /\ \E complete \in BOOLEAN :
       IF "commit" \in task.subjects /\ complete
         THEN sufficient' = TRUE /\ source' = source \cup {"github_commit_heuristic"}
       ELSE IF {"commit", "repository"} \subseteq task.subjects /\ "llm" \notin source
         THEN sufficient' = FALSE /\ source' = source \cup {"github_commit_guard"}
       ELSE UNCHANGED <<sufficient, source>>
  /\ pc' = "lineage"
  /\ UNCHANGED <<task, candidate, table, queries>>

(* Complete commit metadata settle a question about a commit; without them *)
(* one about a repository's commit stays open.                             *)
CommitGuard ==
  /\ pc = "commit"
  /\ \E complete \in BOOLEAN :
       IF "commit" \in task.subjects /\ complete
         THEN sufficient' = TRUE /\ source' = source \cup {"github_commit_heuristic"}
       ELSE IF {"commit", "repository"} \subseteq task.subjects
         THEN sufficient' = FALSE /\ source' = source \cup {"github_commit_guard"}
       ELSE UNCHANGED <<sufficient, source>>
  /\ pc' = "lineage"
  /\ UNCHANGED <<task, candidate, table, queries>>

LineageGuard ==
  /\ pc = "lineage"
  /\ IF "lineage" \in task.subjects /\ candidate = "admits"
       THEN sufficient' = FALSE /\ source' = source \cup {"advisor_lineage_guard"}
       ELSE UNCHANGED <<sufficient, source>>
  /\ pc' = "done"
  /\ UNCHANGED <<task, candidate, table, queries>>

Next == Overlap \/ AskModel \/ Assess \/ Gate \/ Offer \/ CommitGuard \/ LineageGuard

Spec == Init /\ [][Next]_vars

-----------------------------------------------------------------------------
(* Properties                                                              *)

TypeOK ==
  /\ pc \in {"start", "model", "gate", "queries", "commit", "lineage", "done"}
  /\ task \in Tasks
  /\ candidate \in {"none", "admits", "claims"}
  /\ sufficient \in BOOLEAN
  /\ source \subseteq {"heuristic", "llm", "requirements_gate",
       "github_commit_heuristic", "github_commit_guard", "advisor_lineage_guard"}
  /\ table \in Seq(Row)
  /\ queries \subseteq Outputs

(* What the readers of the table hold against an answer: the LLM controller*)
(* in _blocking_requirement_points and the finalizer in                    *)
(* _has_blocking_requirement_coverage look at every row there is.          *)
OpenRows == {i \in DOMAIN table : table[i].status \in Blocking}
Superseded(i) == \E j \in DOMAIN table : j > i /\ table[j].id = table[i].id

(* A candidate called sufficient that the readers of the table will block  *)
(* all the same owes it to commit metadata, or to rows for outputs that are*)
(* not required, or to rows a later one has overruled: never to a          *)
(* requirement that is open.                                               *)
ReadersAgree ==
  pc = "done" /\ sufficient /\ "github_commit_heuristic" \notin source =>
    \A i \in OpenRows : table[i].id \notin task.required \/ Superseded(i)

(* Over a table no required output is passed over, not even one without a  *)
(* row: the verdict is a yes only when each has a row that is satisfied,   *)
(* whichever of overlap and model gave it, and whatever the model said.    *)
NothingPassedOver ==
  pc = "done" /\ sufficient /\ table # <<>>
  /\ "github_commit_heuristic" \notin source =>
    \A id \in task.required :
      \E i \in DOMAIN table : table[i] = [id |-> id, status |-> "satisfied"]

(* The guards have the last word: no overlap, opinion or table makes a     *)
(* question about a repository's commit sufficient without the metadata, or*)
(* a lineage that says of itself that it is incomplete.                    *)
GuardsWin ==
  pc = "done" /\ sufficient =>
    /\ {"commit", "repository"} \subseteq task.subjects =>
         "github_commit_heuristic" \in source
    /\ ~("lineage" \in task.subjects /\ candidate = "admits")
=============================================================================
