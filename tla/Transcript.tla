----------------------------- MODULE Transcript -----------------------------
(***************************************************************************)
(* The append-only transcript of (ToolCall, ToolResult) turns, and the     *)
(* questions the loop and the rule controller ask of it.                   *)
(*                                                                         *)
(* A turn is abstracted to what those questions tell apart: the tool, the  *)
(* arguments (a whole argument mapping is one key), how the turn came      *)
(* about, and the facts a result's outputs carry.                          *)
(***************************************************************************)
EXTENDS Integers, Sequences, FiniteSets

CONSTANTS
  Tools,      (* names registered in the ToolRegistry                      *)
  ToolNames,  (* names a controller may utter, registered or not           *)
  Queries,    (* argument mappings of web_search that carry a query        *)
  Urls,       (* URLs that results surface and web_fetch is called with    *)
  Answers,    (* non-empty answer candidates                               *)
  NoAnswer,   (* the empty candidate or answer                             *)
  NoArgs,     (* the empty argument mapping: the tool falls back on the    *)
              (* prompt, or on the transcript's notes                      *)
  Blanks,     (* argument mappings of web_search without a query that list *)
              (* the queries tried before                                  *)
  Retry,      (* the argument mapping of the LLM controller's second try of*)
              (* the whole question with research_answer                   *)
  TextOf,     (* the query text in such a mapping: the one the LLM         *)
              (* controller sends also lists the queries tried before, so  *)
              (* that two mappings may have one text                       *)
  Tables      (* the coverage tables a sufficiency_check may write: none;  *)
              (* one without a blocking row; one with blocking rows; one   *)
              (* whose blocking rows blame mixed source domains            *)

ASSUME ToolsAssumption == Tools \subseteq ToolNames
ASSUME KeysAssumption == NoArgs \notin Queries \cup Urls \cup Answers
ASSUME BlanksAssumption ==
  Blanks # {} /\ Blanks \cap (Queries \cup Urls \cup Answers \cup {NoArgs}) = {}
ASSUME AnswersAssumption == NoAnswer \notin Answers
ASSUME TextAssumption == DOMAIN TextOf = Queries
ASSUME TablesAssumption == Tables \subseteq {"none", "met", "open", "mixed"}

External == {"web_search", "web_fetch"}
ExternalResearch == {"research_answer", "web_search", "web_fetch"}

(* What a call's arguments say: a query, a URL, an explicit candidate or   *)
(* answer, or nothing.                                                     *)
Keys == Queries \cup Urls \cup Answers \cup Blanks \cup {NoArgs, Retry}
Call == [tool : ToolNames, key : Keys]
MakeCall(tool, key) == [tool |-> tool, key |-> key]

(* What a ToolResult's outputs can say: an answer_candidate, non-empty     *)
(* spans, the verdict of a sufficiency_check, sufficient_alone, URLs under *)
(* source_urls or urls_detected, URLs under results, required_outputs, and *)
(* a requirement_coverage table.                                           *)
Outputs ==
  [ cand    : Answers \cup {NoAnswer},
    spans   : BOOLEAN,
    verdict : {"yes", "no", "none"},
    alone   : BOOLEAN,
    urls    : SUBSET Urls,
    hits    : SUBSET Urls,
    reqs    : BOOLEAN,
    table   : Tables \cup {"none"} ]

NoOutputs ==
  [ cand |-> NoAnswer, spans |-> FALSE, verdict |-> "none", alone |-> FALSE,
    urls |-> {}, hits |-> {}, reqs |-> FALSE, table |-> "none" ]

(* "ok" is a result with ok=True; the tool ran in the first four, and the  *)
(* loop wrote the turn itself in the last three.                           *)
RanStatus == {"ok", "failed", "raised", "timeout"}
SkipStatus == {"duplicate", "unknown", "capped"}

Turn == [call : Call, status : RanStatus \cup SkipStatus, out : Outputs]
MakeTurn(call, status, out) ==
  [call |-> call, status |-> status, out |-> out]

-----------------------------------------------------------------------------
(* Reading the transcript                                                  *)

Ok(turn) == turn.status = "ok"
IsCheck(turn) == Ok(turn) /\ turn.call.tool = "sufficiency_check"

(* The last of some turns: {} or a singleton of an index                   *)
Newest(turns) == {i \in turns : \A j \in turns : j <= i}
Checks(t) == {i \in DOMAIN t : IsCheck(t[i])}

Attempted(t, tool) == Cardinality({i \in DOMAIN t : t[i].call.tool = tool})
NameSeen(t, names) == \E i \in DOMAIN t : t[i].call.tool \in names

(* latest_output("answer_candidate"), if any: the candidate of the newest  *)
(* ok turn with a non-empty one; an empty one never hides an older one.    *)
Answered(t) == {i \in DOMAIN t : Ok(t[i]) /\ t[i].out.cand # NoAnswer}
LatestAnswer(t) == {t[i].out.cand : i \in Newest(Answered(t))}

(* latest_output("requirements") holds required outputs                    *)
HasRequirements(t) == \E i \in DOMAIN t : Ok(t[i]) /\ t[i].out.reqs

(* The verdict of the newest sufficiency_check                             *)
LatestVerdictIs(t, v) == \E i \in Newest(Checks(t)) : t[i].out.verdict = v

(* Faulty variant: an answer without spans is overlooked                   *)
RuleEvidence_SpansOnly(t) ==
  {i \in DOMAIN t : Ok(t[i]) /\ ~IsCheck(t[i]) /\ t[i].out.spans}

(* A turn is evidence for the loop when it has a candidate, spans, fetched *)
(* pages or results, and for the rule controller when it has one of the    *)
(* first two.                                                              *)
RuleEvidence(t) ==
  {i \in DOMAIN t :
     Ok(t[i]) /\ ~IsCheck(t[i]) /\ (t[i].out.cand # NoAnswer \/ t[i].out.spans)}
LoopEvidence(t) ==
  RuleEvidence(t)
  \cup {i \in DOMAIN t : Ok(t[i]) /\ ~IsCheck(t[i]) /\ t[i].out.hits # {}}

Unchecked(t, evidence) == \E i \in evidence : \A j \in Checks(t) : j < i

(* Faulty variant: any check of the past will do                           *)
NeedsCheck_Once(t) ==
  \/ LatestVerdictIs(t, "no")
  \/ Unchecked(t, LoopEvidence(t)) /\ Checks(t) = {}

(* _final_needs_more_evidence_check                                        *)
NeedsCheck(t) ==
  LatestVerdictIs(t, "no") \/ Unchecked(t, LoopEvidence(t))

(* The URLs listed by a turn that no ok web_fetch has retrieved, and those *)
(* of the first turn that lists any: which one is first is left open.      *)
FetchedOk(t) ==
  {t[i].call.key : i \in {j \in DOMAIN t : Ok(t[j]) /\ t[j].call.tool = "web_fetch"}}
UnfetchedAt(t, i) == IF Ok(t[i]) THEN t[i].out.urls \ FetchedOk(t) ELSE {}
FirstUnfetchedUrls(t) ==
  UNION {UnfetchedAt(t, i) : i \in
           {j \in DOMAIN t : \A k \in 1 .. j - 1 : UnfetchedAt(t, k) = {}}}
=============================================================================
